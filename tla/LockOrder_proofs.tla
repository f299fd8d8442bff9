--------------------------- MODULE LockOrder_proofs ----------------------------
(***************************************************************************)
(* What holds of LockOrder for any number of schedulers, hosts and         *)
(* requests of the Box.  A challenge and its command agree because every   *)
(* transaction knows, from the row it locked to its commit, what the guard *)
(* behind that row read: whoever could change it needs the same row, or    *)
(* has one that the first holds as well.                                   *)
(***************************************************************************)
EXTENDS LockOrder, TLAPS

\* The rows a transaction may still have to lock.
Suffixes(op) ==
  CASE op \in {"expire", "end", "submit"} ->
         {<<"game", "challenge", "command", "plan">>, <<"challenge", "command", "plan">>,
          <<"command", "plan">>, <<"plan">>, <<>>}
    [] op = "assign"   -> {<<"game", "challenge">>, <<"challenge">>, <<>>}
    [] op = "schedule" -> {<<"game", "plan">>, <<"plan">>, <<>>}
    [] op = "ensure"   -> {<<"plan", "game">>, <<"game">>, <<>>}
    [] op = "ack"      -> {<<"command", "challenge", "game">>, <<"challenge", "game">>,
                           <<"game">>, <<>>}
    [] op = "poll"     -> {<<"command">>, <<>>}
    [] OTHER           -> {<<>>}

\* The operations that lock the game before anything else.
GameFirst == {"expire", "end", "submit", "assign", "schedule"}

Left(todo) == {todo[i] : i \in DOMAIN todo}
Has(a, op, row) == tx[a].op = op /\ row \notin Left(tx[a].todo)

RowsTyped ==
  /\ db \in [game : {"playing", "ended"},
             challenge : {"none", "resolved", "expired", "cancelled"} \cup Active,
             command : {"none", "completed", "expired"} \cup Open,
             plan : {"none", "set", "null"}]
  /\ late \in BOOLEAN

InOrder ==
  /\ tx \in [Actors -> [op : Operations \cup {"idle"}, todo : Seq(Rows), late : BOOLEAN]]
  /\ held \in [Actors -> SUBSET Rows]
  /\ \A a \in Actors : tx[a].todo \in Suffixes(tx[a].op)
  /\ \A a \in Actors : tx[a].op = "idle" => held[a] = {}

\* No two transactions hold a row in modes that exclude one another.
Exclusive ==
  \A a, b \in Actors : \A row \in held[a] \cap held[b] :
    a # b => Shares(tx[a].op, row) /\ Shares(tx[b].op, row)

\* What a transaction holds, by the statements behind it.
Holds(a) ==
  /\ \A op \in GameFirst : Has(a, op, "game") => "game" \in held[a]
  /\ \A op \in {"expire", "submit", "assign", "ack"} :
       Has(a, op, "challenge") => "challenge" \in held[a]
  /\ Has(a, "end", "challenge") => "challenge" \in held[a] \/ db.challenge \notin Active
  /\ Has(a, "ack", "command") => "command" \in held[a]
  /\ Has(a, "schedule", "plan") => "plan" \in held[a]
  /\ tx[a].op = "poll" => held[a] \subseteq {"command"}
  /\ tx[a].op = "ensure" => held[a] \subseteq {"plan", "game"}
  /\ held[a] # {} => /\ tx[a].op \in GameFirst => "game" \in held[a]
                     /\ tx[a].op = "ack" => "command" \in held[a]
                     /\ tx[a].op = "ensure" => "plan" \in held[a]
  /\ held[a] \cap Left(tx[a].todo) = {}

\* What a transaction knows of the rows, by the guards behind it.
Knows(a) ==
  /\ \A op \in {"assign", "end", "schedule"} : Has(a, op, "game") => db.game = "playing"
  /\ tx[a].op = "schedule" => db.plan # "none"
  /\ Has(a, "schedule", "plan") => db.challenge = "none"
  /\ Has(a, "assign", "challenge") => db.challenge = "awaiting_assignment"
  /\ Has(a, "expire", "challenge") => db.challenge \in Active
  /\ Has(a, "submit", "challenge") => db.challenge = "armed"
  /\ Has(a, "ack", "challenge") =>
       db.command = "pending" /\ db.challenge \in {"awaiting_device", "armed"}
  /\ tx[a].op = "poll" => db.command # "none" /\ (tx[a].late => late)
  /\ tx[a].op = "poll" /\ held[a] # {} => tx[a].late
  /\ tx[a].op \in {"expire", "submit"} => db.challenge # "none"
  /\ tx[a].op = "ensure" /\ "plan" \in held[a] => db.plan = "none"

\* No command is written before the challenge is assigned, no challenge before a plan.
NoCommandYet ==
  /\ db.challenge \in {"none", "awaiting_assignment"} => db.command = "none"
  /\ db.challenge # "none" => db.plan # "none"

IInv ==
  /\ RowsTyped /\ InOrder /\ Exclusive
  /\ \A a \in Actors : Holds(a) /\ Knows(a)
  /\ NoCommandYet /\ CommandAgrees

-------------------------------------------------------------------------------


\* One statement is behind: its row is no longer left, the others are.
Steps(todo, rest) ==
  /\ Tail(todo) = rest /\ rest \in Seq(Rows) /\ Head(todo) \in Rows
  /\ Left(todo) = Left(rest) \cup {Head(todo)} /\ Head(todo) \notin Left(rest)

\* The first of at most four rows, and what is left without it.
LEMMA Lists ==
  ASSUME NEW a \in Rows, NEW b \in Rows, NEW c \in Rows, NEW d \in Rows
  PROVE  /\ Steps(<<a>>, <<>>)
         /\ a # b => Steps(<<a, b>>, <<b>>)
         /\ a # b /\ a # c => Steps(<<a, b, c>>, <<b, c>>)
         /\ a # b /\ a # c /\ a # d => Steps(<<a, b, c, d>>, <<b, c, d>>)
         /\ Left(<<>>) = {} /\ Left(<<a>>) = {a} /\ Left(<<a, b>>) = {a, b}
         /\ Left(<<a, b, c>>) = {a, b, c} /\ Left(<<a, b, c, d>>) = {a, b, c, d}
<1>1. Left(<<>>) = {}
  BY DEF Left
<1>2. Left(<<a>>) = {a}
  BY DOMAIN <<a>> = {1} DEF Left
<1>3. Left(<<a, b>>) = {a, b} /\ Left(<<b>>) = {b}
  BY DOMAIN <<a, b>> = {1, 2}, DOMAIN <<b>> = {1} DEF Left
<1>4. Left(<<a, b, c>>) = {a, b, c} /\ Left(<<b, c>>) = {b, c}
  BY DOMAIN <<a, b, c>> = {1, 2, 3}, DOMAIN <<b, c>> = {1, 2} DEF Left
<1>5. Left(<<a, b, c, d>>) = {a, b, c, d} /\ Left(<<b, c, d>>) = {b, c, d}
  BY DOMAIN <<a, b, c, d>> = {1, 2, 3, 4}, DOMAIN <<b, c, d>> = {1, 2, 3} DEF Left
<1>6. /\ Head(<<a>>) = a /\ Head(<<a, b>>) = a
      /\ Head(<<a, b, c>>) = a /\ Head(<<a, b, c, d>>) = a
  OBVIOUS
<1>7. /\ Tail(<<a>>) = <<>> /\ Tail(<<a, b>>) = <<b>>
      /\ Tail(<<a, b, c>>) = <<b, c>> /\ Tail(<<a, b, c, d>>) = <<b, c, d>>
  OBVIOUS
<1>8. {<<>>, <<b>>, <<b, c>>, <<b, c, d>>} \subseteq Seq(Rows)
  OBVIOUS
<1>9. Steps(<<a>>, <<>>)
  BY <1>1, <1>2, <1>6, <1>7, <1>8 DEF Steps
<1>10. a # b => Steps(<<a, b>>, <<b>>)
  BY <1>3, <1>6, <1>7, <1>8 DEF Steps
<1>11. a # b /\ a # c => Steps(<<a, b, c>>, <<b, c>>)
  BY <1>4, <1>6, <1>7, <1>8 DEF Steps
<1>12. a # b /\ a # c /\ a # d => Steps(<<a, b, c, d>>, <<b, c, d>>)
  BY <1>5, <1>6, <1>7, <1>8 DEF Steps
<1> QED
  BY <1>1, <1>2, <1>3, <1>4, <1>5, <1>9, <1>10, <1>11, <1>12

\* What the next row to lock says of those before and behind it.
AtRow(op, todo) ==
  /\ op \in GameFirst /\ Head(todo) # "game" => "game" \notin Left(todo)
  /\ op = "ack" => /\ "game" \in Left(todo)
                   /\ Head(todo) # "command" => "command" \notin Left(todo)
  /\ op = "ensure" => "game" \in Left(todo) /\ Head(todo) \in {"plan", "game"}
  /\ op = "poll" => "command" \in Left(todo) /\ Head(todo) = "command"

\* What each statement leaves to lock.
LEMMA Statements ==
  ASSUME NEW op \in Operations, NEW todo \in Suffixes(op)
  PROVE  /\ todo # <<>> =>
              Steps(todo, Tail(todo)) /\ Tail(todo) \in Suffixes(op)
         /\ todo = <<>> => Left(todo) = {}
         /\ op = "end" /\ "challenge" \notin Left(todo) => "game" \notin Left(todo)
         /\ op = "ack" /\ "challenge" \notin Left(todo) => "command" \notin Left(todo)
         /\ todo # <<>> => AtRow(op, todo)
<1>1. CASE op \in {"expire", "end", "submit"}
  <2>1. /\ Steps(<<"game", "challenge", "command", "plan">>, <<"challenge", "command", "plan">>)
        /\ Left(<<"game", "challenge", "command", "plan">>) = {"game", "challenge", "command", "plan"}
    BY Lists DEF Rows
  <2>2. /\ Steps(<<"challenge", "command", "plan">>, <<"command", "plan">>)
        /\ Left(<<"challenge", "command", "plan">>) = {"challenge", "command", "plan"}
    BY Lists DEF Rows
  <2>3. /\ Steps(<<"command", "plan">>, <<"plan">>)
        /\ Left(<<"command", "plan">>) = {"command", "plan"}
    BY Lists DEF Rows
  <2>4. /\ Steps(<<"plan">>, <<>>)
        /\ Left(<<"plan">>) = {"plan"}
    BY Lists DEF Rows
  <2>5. Left(<<>>) = {}
    BY Lists DEF Rows
  <2>6. CASE todo = <<"game", "challenge", "command", "plan">>
    BY <1>1, <2>1, <2>6 DEF Suffixes, Steps, GameFirst, AtRow
  <2>7. CASE todo = <<"challenge", "command", "plan">>
    BY <1>1, <2>2, <2>7 DEF Suffixes, Steps, GameFirst, AtRow
  <2>8. CASE todo = <<"command", "plan">>
    BY <1>1, <2>3, <2>8 DEF Suffixes, Steps, GameFirst, AtRow
  <2>9. CASE todo = <<"plan">>
    BY <1>1, <2>4, <2>9 DEF Suffixes, Steps, GameFirst, AtRow
  <2>10. CASE todo = <<>>
    BY <1>1, <2>5, <2>10 DEF Suffixes
  <2> QED
    BY <1>1, <2>6, <2>7, <2>8, <2>9, <2>10 DEF Suffixes
<1>2. CASE op = "assign"
  <2>1. /\ Steps(<<"game", "challenge">>, <<"challenge">>)
        /\ Left(<<"game", "challenge">>) = {"game", "challenge"}
    BY Lists DEF Rows
  <2>2. /\ Steps(<<"challenge">>, <<>>)
        /\ Left(<<"challenge">>) = {"challenge"}
    BY Lists DEF Rows
  <2>3. Left(<<>>) = {}
    BY Lists DEF Rows
  <2>4. CASE todo = <<"game", "challenge">>
    BY <1>2, <2>1, <2>4 DEF Suffixes, Steps, GameFirst, AtRow
  <2>5. CASE todo = <<"challenge">>
    BY <1>2, <2>2, <2>5 DEF Suffixes, Steps, GameFirst, AtRow
  <2>6. CASE todo = <<>>
    BY <1>2, <2>3, <2>6 DEF Suffixes
  <2> QED
    BY <1>2, <2>4, <2>5, <2>6 DEF Suffixes
<1>3. CASE op = "schedule"
  <2>1. /\ Steps(<<"game", "plan">>, <<"plan">>)
        /\ Left(<<"game", "plan">>) = {"game", "plan"}
    BY Lists DEF Rows
  <2>2. /\ Steps(<<"plan">>, <<>>)
        /\ Left(<<"plan">>) = {"plan"}
    BY Lists DEF Rows
  <2>3. Left(<<>>) = {}
    BY Lists DEF Rows
  <2>4. CASE todo = <<"game", "plan">>
    BY <1>3, <2>1, <2>4 DEF Suffixes, Steps, GameFirst, AtRow
  <2>5. CASE todo = <<"plan">>
    BY <1>3, <2>2, <2>5 DEF Suffixes, Steps, GameFirst, AtRow
  <2>6. CASE todo = <<>>
    BY <1>3, <2>3, <2>6 DEF Suffixes
  <2> QED
    BY <1>3, <2>4, <2>5, <2>6 DEF Suffixes
<1>4. CASE op = "ensure"
  <2>1. /\ Steps(<<"plan", "game">>, <<"game">>)
        /\ Left(<<"plan", "game">>) = {"plan", "game"}
    BY Lists DEF Rows
  <2>2. /\ Steps(<<"game">>, <<>>)
        /\ Left(<<"game">>) = {"game"}
    BY Lists DEF Rows
  <2>3. Left(<<>>) = {}
    BY Lists DEF Rows
  <2>4. CASE todo = <<"plan", "game">>
    BY <1>4, <2>1, <2>4 DEF Suffixes, Steps, GameFirst, AtRow
  <2>5. CASE todo = <<"game">>
    BY <1>4, <2>2, <2>5 DEF Suffixes, Steps, GameFirst, AtRow
  <2>6. CASE todo = <<>>
    BY <1>4, <2>3, <2>6 DEF Suffixes
  <2> QED
    BY <1>4, <2>4, <2>5, <2>6 DEF Suffixes
<1>5. CASE op = "ack"
  <2>1. /\ Steps(<<"command", "challenge", "game">>, <<"challenge", "game">>)
        /\ Left(<<"command", "challenge", "game">>) = {"command", "challenge", "game"}
    BY Lists DEF Rows
  <2>2. /\ Steps(<<"challenge", "game">>, <<"game">>)
        /\ Left(<<"challenge", "game">>) = {"challenge", "game"}
    BY Lists DEF Rows
  <2>3. /\ Steps(<<"game">>, <<>>)
        /\ Left(<<"game">>) = {"game"}
    BY Lists DEF Rows
  <2>4. Left(<<>>) = {}
    BY Lists DEF Rows
  <2>5. CASE todo = <<"command", "challenge", "game">>
    BY <1>5, <2>1, <2>5 DEF Suffixes, Steps, GameFirst, AtRow
  <2>6. CASE todo = <<"challenge", "game">>
    BY <1>5, <2>2, <2>6 DEF Suffixes, Steps, GameFirst, AtRow
  <2>7. CASE todo = <<"game">>
    BY <1>5, <2>3, <2>7 DEF Suffixes, Steps, GameFirst, AtRow
  <2>8. CASE todo = <<>>
    BY <1>5, <2>4, <2>8 DEF Suffixes
  <2> QED
    BY <1>5, <2>5, <2>6, <2>7, <2>8 DEF Suffixes
<1>6. CASE op = "poll"
  <2>1. /\ Steps(<<"command">>, <<>>)
        /\ Left(<<"command">>) = {"command"}
    BY Lists DEF Rows
  <2>2. Left(<<>>) = {}
    BY Lists DEF Rows
  <2>3. CASE todo = <<"command">>
    BY <1>6, <2>1, <2>3 DEF Suffixes, Steps, GameFirst, AtRow
  <2>4. CASE todo = <<>>
    BY <1>6, <2>2, <2>4 DEF Suffixes
  <2> QED
    BY <1>6, <2>3, <2>4 DEF Suffixes
<1> QED
  BY <1>1, <1>2, <1>3, <1>4, <1>5, <1>6 DEF Operations

\* What an operation has to lock when it begins.
LEMMA Plans ==
  ASSUME NEW op \in Operations
  PROVE  /\ Plan(op) \in Suffixes(op) /\ Plan(op) \in Seq(Rows)
         /\ op \in GameFirst => "game" \in Left(Plan(op))
         /\ op \in {"expire", "submit", "assign", "ack", "end"} =>
              "challenge" \in Left(Plan(op))
         /\ op = "ack" => "command" \in Left(Plan(op))
         /\ op = "schedule" => "plan" \in Left(Plan(op))
<1>1. /\ Left(<<"game", "challenge", "command", "plan">>) = Rows
      /\ Left(<<"game", "challenge">>) = {"game", "challenge"}
      /\ Left(<<"game", "plan">>) = {"game", "plan"}
      /\ Left(<<"command", "challenge", "game">>) = {"command", "challenge", "game"}
  BY Lists DEF Rows
<1>2. {<<"game", "challenge", "command", "plan">>, <<"game", "challenge">>,
       <<"game", "plan">>, <<"plan", "game">>, <<"command", "challenge", "game">>,
       <<"command">>} \subseteq Seq(Rows)
  BY DEF Rows
<1>3. Plan(op) \in Suffixes(op)
  <2>1. CASE op = "expire"
    BY <2>1 DEF Plan, Suffixes, GameThenChallenge
  <2>2. CASE op = "end"
    BY <2>2 DEF Plan, Suffixes
  <2>3. CASE op = "submit"
    BY <2>3 DEF Plan, Suffixes
  <2>4. CASE op = "assign"
    BY <2>4 DEF Plan, Suffixes
  <2>5. CASE op = "schedule"
    BY <2>5 DEF Plan, Suffixes
  <2>6. CASE op = "ensure"
    BY <2>6 DEF Plan, Suffixes
  <2>7. CASE op = "ack"
    BY <2>7 DEF Plan, Suffixes
  <2>8. CASE op = "poll"
    BY <2>8 DEF Plan, Suffixes
  <2> QED
    BY <2>1, <2>2, <2>3, <2>4, <2>5, <2>6, <2>7, <2>8 DEF Operations
<1>4. Plan(op) \in Seq(Rows)
  BY <1>2 DEF Plan, Operations, GameThenChallenge
<1> QED
  BY <1>1, <1>3, <1>4 DEF Plan, Operations, Rows, GameThenChallenge, GameFirst

LEMMA InitIInv ==
  ASSUME Init
  PROVE  IInv
<1>1. Left(<<>>) = {}
  BY DEF Left
<1>2. RowsTyped /\ NoCommandYet /\ CommandAgrees
  BY DEF Init, RowsTyped, NoCommandYet, CommandAgrees, Active, Open
<1>3. InOrder /\ Exclusive
  BY DEF Init, InOrder, Exclusive, Idle, Suffixes, Operations
<1>4. \A a \in Actors : Holds(a) /\ Knows(a)
  BY DEF Init, Holds, Knows, Has, Idle, GameFirst
<1> QED
  BY <1>2, <1>3, <1>4 DEF IInv

LEMMA BeginKeeps ==
  ASSUME IInv, NEW a \in Actors, NEW op \in Operations, Begin(a, op)
  PROVE  IInv'
<1> USE DEF IInv
<1>1. RowsTyped' /\ NoCommandYet' /\ CommandAgrees'
  BY DEF Begin, RowsTyped, NoCommandYet, CommandAgrees
<1>2. /\ tx[a] = Idle /\ held[a] = {} /\ UNCHANGED <<db, late, held>>
      /\ tx'[a] = [op |-> op, todo |-> Plan(op), late |-> late]
      /\ \A b \in Actors \ {a} : tx'[b] = tx[b]
  BY DEF Begin, InOrder, Idle
<1>3. InOrder'
  BY <1>2, Plans DEF Begin, InOrder, RowsTyped, Operations
<1>4. Exclusive'
  BY <1>2 DEF Exclusive
<1>5. \A b \in Actors \ {a} : Holds(b)' /\ Knows(b)'
  BY <1>2 DEF Holds, Knows, Has
<1>6. Holds(a)'
  BY <1>2, Plans DEF Holds, Has
<1>7. Knows(a)'
  <2>1. op = "schedule" => db.plan # "none"
    BY RolesAssumption DEF Begin, May
  <2>2. op = "poll" => db.command # "none"
    BY RolesAssumption DEF Begin, May
  <2>3. op \in {"expire", "submit"} => db.challenge # "none"
    BY RolesAssumption DEF Begin, May, NoCommandYet, Active
  <2> QED
    BY <1>2, <2>1, <2>2, <2>3, Plans DEF Knows, Has, GameFirst
<1> QED
  BY <1>1, <1>3, <1>4, <1>5, <1>6, <1>7

\* A step that lets a's locks go and writes nothing.
LEMMA ReleaseKeeps ==
  ASSUME IInv, NEW a \in Actors, Release(a), UNCHANGED <<db, late>>
  PROVE  IInv'
<1> USE DEF IInv
<1>1. RowsTyped' /\ NoCommandYet' /\ CommandAgrees'
  BY DEF RowsTyped, NoCommandYet, CommandAgrees
<1>2. /\ tx'[a] = Idle /\ held'[a] = {}
      /\ \A b \in Actors \ {a} : tx'[b] = tx[b] /\ held'[b] = held[b]
  BY DEF Release, InOrder
<1>3. InOrder'
  BY <1>2 DEF Release, InOrder, Idle, Suffixes, Operations
<1>4. Exclusive'
  BY <1>2 DEF Exclusive
<1>5. \A b \in Actors \ {a} : Holds(b)' /\ Knows(b)'
  BY <1>2 DEF Holds, Knows, Has
<1>6. Holds(a)' /\ Knows(a)'
  BY <1>2 DEF Holds, Knows, Has, Idle, GameFirst
<1> QED
  BY <1>1, <1>3, <1>4, <1>5, <1>6

\* What holds of a transaction that goes on to its next statement.
LEMMA Proceeds ==
  ASSUME IInv, NEW a \in Actors, Waiting(a), Proceed(a)
  PROVE  /\ Wants(a) \in Rows /\ tx[a].op \in Operations
         /\ tx'[a].op = tx[a].op /\ tx'[a].late = tx[a].late
         /\ \A b \in Actors \ {a} : tx'[b] = tx[b]
         /\ tx' \in [Actors -> [op : Operations \cup {"idle"}, todo : Seq(Rows),
                                late : BOOLEAN]]
         /\ tx'[a].todo \in Suffixes(tx[a].op)
         /\ Left(tx'[a].todo) = Left(tx[a].todo) \ {Wants(a)}
         /\ tx[a].op \in GameFirst /\ Wants(a) # "game" => Has(a, tx[a].op, "game")
         /\ tx[a].op = "ack" /\ Wants(a) # "command" => Has(a, "ack", "command")
         /\ tx[a].op = "ensure" => Wants(a) \in {"plan", "game"}
         /\ tx[a].op = "poll" => Wants(a) = "command"
         /\ \A op, row : Has(a, op, row)' <=>
                           Has(a, op, row) \/ (op = tx[a].op /\ row = Wants(a))
<1>1. /\ tx[a] \in [op : Operations \cup {"idle"}, todo : Seq(Rows), late : BOOLEAN]
      /\ tx[a].todo \in Suffixes(tx[a].op) /\ tx[a].todo # <<>>
  BY DEF IInv, InOrder, Waiting
<1>2. tx[a].op \in Operations
  BY <1>1 DEF Suffixes, Operations
<1>3. Steps(tx[a].todo, Tail(tx[a].todo)) /\ Tail(tx[a].todo) \in Suffixes(tx[a].op)
  BY <1>1, <1>2, Statements
<1>4. /\ tx'[a] = [tx[a] EXCEPT !.todo = Tail(tx[a].todo)]
      /\ \A b \in Actors \ {a} : tx'[b] = tx[b]
      /\ tx' = [tx EXCEPT ![a] = [tx[a] EXCEPT !.todo = Tail(tx[a].todo)]]
  BY DEF Proceed, IInv, InOrder
<1>5. /\ tx[a].op \in GameFirst /\ Wants(a) # "game" => Has(a, tx[a].op, "game")
      /\ tx[a].op = "ack" /\ Wants(a) # "command" => Has(a, "ack", "command")
      /\ tx[a].op = "ensure" => Wants(a) \in {"plan", "game"}
      /\ tx[a].op = "poll" => Wants(a) = "command"
  <2>1. AtRow(tx[a].op, tx[a].todo)
    BY <1>1, <1>2, Statements
  <2> QED
    BY <2>1 DEF Has, Wants, AtRow
<1>6. /\ tx'[a].op = tx[a].op /\ tx'[a].late = tx[a].late
      /\ tx'[a].todo = Tail(tx[a].todo)
  BY <1>1, <1>4
<1>7. \A op, row : Has(a, op, row)' <=>
                     Has(a, op, row) \/ (op = tx[a].op /\ row = Wants(a))
  BY <1>3, <1>6 DEF Has, Steps, Wants
<1>8. tx' \in [Actors -> [op : Operations \cup {"idle"}, todo : Seq(Rows),
                          late : BOOLEAN]]
  BY <1>1, <1>3, <1>4 DEF IInv, InOrder, Steps
<1> QED
  BY <1>2, <1>3, <1>4, <1>6, <1>7, <1>8, <1>5 DEF Steps, Wants

\* A statement that finds nothing leaves a transaction nothing new to hold.
LEMMA PassKeeps ==
  ASSUME IInv, NEW a \in Actors, Pass(a)
  PROVE  IInv'
<1> USE DEF IInv
<1>1. RowsTyped' /\ NoCommandYet' /\ CommandAgrees'
  BY DEF Pass, RowsTyped, NoCommandYet, CommandAgrees
<1>2. /\ Wants(a) \in Rows /\ tx[a].op \in Operations
      /\ tx'[a].op = tx[a].op /\ tx'[a].late = tx[a].late
      /\ \A b \in Actors \ {a} : tx'[b] = tx[b]
      /\ tx' \in [Actors -> [op : Operations \cup {"idle"}, todo : Seq(Rows),
                             late : BOOLEAN]]
      /\ tx'[a].todo \in Suffixes(tx[a].op)
      /\ Left(tx'[a].todo) = Left(tx[a].todo) \ {Wants(a)}
      /\ tx[a].op \in GameFirst /\ Wants(a) # "game" => Has(a, tx[a].op, "game")
      /\ tx[a].op = "ack" /\ Wants(a) # "command" => Has(a, "ack", "command")
      /\ tx[a].op = "ensure" => Wants(a) \in {"plan", "game"}
      /\ tx[a].op = "poll" => Wants(a) = "command"
      /\ \A op, row : Has(a, op, row)' <=>
                        Has(a, op, row) \/ (op = tx[a].op /\ row = Wants(a))
  BY Proceeds DEF Pass
<1>3. UNCHANGED <<db, late, held>> /\ ~Matches(a)
  BY DEF Pass
<1>4. InOrder'
  BY <1>2, <1>3 DEF InOrder, Operations
<1>5. Exclusive'
  BY <1>2, <1>3 DEF Exclusive
<1>6. \A b \in Actors \ {a} : Holds(b)' /\ Knows(b)'
  BY <1>2, <1>3 DEF Holds, Knows, Has
<1>7. \/ Wants(a) = "plan" /\ (tx[a].op = "ensure" \/ db.plan = "none")
      \/ Wants(a) = "challenge" /\ tx[a].op = "end" /\ db.challenge \notin Active
      \/ Wants(a) = "command" /\ tx[a].op \in {"end", "expire", "poll"}
      \/ tx[a].op = "ensure"
  BY <1>3 DEF Matches
<1>8. Holds(a)' /\ Knows(a)'
  BY <1>2, <1>3, <1>7 DEF Holds, Knows, GameFirst
<1> QED
  BY <1>1, <1>4, <1>5, <1>6, <1>8

\* A lock excludes what its holders exclude, and the guard behind it reads the row.
LEMMA LockKeeps ==
  ASSUME IInv, NEW a \in Actors, Lock(a)
  PROVE  IInv'
<1> USE DEF IInv
<1>1. RowsTyped' /\ NoCommandYet' /\ CommandAgrees'
  BY DEF Lock, RowsTyped, NoCommandYet, CommandAgrees
<1>2. /\ Wants(a) \in Rows /\ tx[a].op \in Operations
      /\ tx'[a].op = tx[a].op /\ tx'[a].late = tx[a].late
      /\ \A b \in Actors \ {a} : tx'[b] = tx[b]
      /\ tx' \in [Actors -> [op : Operations \cup {"idle"}, todo : Seq(Rows),
                             late : BOOLEAN]]
      /\ tx'[a].todo \in Suffixes(tx[a].op)
      /\ Left(tx'[a].todo) = Left(tx[a].todo) \ {Wants(a)}
      /\ tx[a].op \in GameFirst /\ Wants(a) # "game" => Has(a, tx[a].op, "game")
      /\ tx[a].op = "ack" /\ Wants(a) # "command" => Has(a, "ack", "command")
      /\ tx[a].op = "ensure" => Wants(a) \in {"plan", "game"}
      /\ tx[a].op = "poll" => Wants(a) = "command"
      /\ \A op, row : Has(a, op, row)' <=>
                        Has(a, op, row) \/ (op = tx[a].op /\ row = Wants(a))
  BY Proceeds DEF Lock
<1>3. /\ UNCHANGED <<db, late>> /\ held' \in [Actors -> SUBSET Rows]
      /\ held'[a] = held[a] \cup {Wants(a)}
      /\ \A b \in Actors \ {a} : held'[b] = held[b]
  BY <1>2 DEF Lock, InOrder
<1>4. InOrder'
  BY <1>2, <1>3 DEF InOrder, Operations
<1>5. \A b \in Actors \ {a} :
        Wants(a) \in held[b] => /\ Shares(tx[a].op, Wants(a))
                                /\ Shares(tx[b].op, Wants(a))
  BY DEF Lock, Blockers
<1>6. Exclusive'
  <2> SUFFICES ASSUME NEW b \in Actors, NEW c \in Actors, b # c,
                      NEW row \in held'[b] \cap held'[c]
               PROVE  Shares(tx'[b].op, row) /\ Shares(tx'[c].op, row)
    BY DEF Exclusive, Shares
  <2>1. tx'[b].op = tx[b].op /\ tx'[c].op = tx[c].op
    BY <1>2
  <2>2. CASE row \in held[b] \cap held[c]
    BY <2>1, <2>2 DEF Exclusive
  <2>3. CASE row \notin held[b]
    BY <2>1, <2>3, <1>3, <1>5
  <2>4. CASE row \notin held[c]
    BY <2>1, <2>4, <1>3, <1>5
  <2> QED
    BY <2>2, <2>3, <2>4
<1>7. ASSUME NEW b \in Actors, b # a
      PROVE  Holds(b)' /\ Knows(b)'
  <2>1. tx'[b] = tx[b] /\ held'[b] = held[b] /\ UNCHANGED <<db, late>>
    BY <1>2, <1>3, <1>7
  <2>2. Holds(b) /\ Knows(b)
    BY DEF IInv
  <2>3. \A op, row : Has(b, op, row)' <=> Has(b, op, row)
    BY <2>1 DEF Has
  <2> QED
    BY <2>1, <2>2, <2>3 DEF Holds, Knows
<1>8. Holds(a)'
  <2>1. tx[a].op = "ensure" /\ Wants(a) = "game" => "plan" \in held[a]
    BY DEF Lock, Matches
  <2> QED
    BY <1>2, <1>3, <2>1 DEF Holds
<1>9. Knows(a)'
  <2>1. Goes(a) /\ Matches(a)
    BY DEF Lock
  <2>2. tx[a].op = "poll" => tx[a].late
    BY <1>2, <2>1 DEF Matches
  <2>3. tx[a].op = "ensure" /\ Wants(a) = "plan" => db.plan = "none"
    BY <2>1 DEF Matches
  <2> QED
    BY <1>2, <1>3, <2>1, <2>2, <2>3 DEF Knows, Goes
<1> QED
  BY <1>1, <1>4, <1>6, <1>7, <1>8, <1>9

\* What a transaction that commits, and everyone else, hold and know before.
LEMMA AtCommit ==
  ASSUME IInv, NEW a \in Actors, Commit(a)
  PROVE  /\ tx[a].op \in Operations /\ \A row : Has(a, tx[a].op, row)
         /\ Holds(a) /\ Knows(a)
         /\ late' \in BOOLEAN /\ (late' => late)
         /\ late /\ tx[a].op # "assign" => late'
         /\ tx'[a] = Idle /\ held'[a] = {}
<1>1. tx[a].op \in Operations /\ tx[a].todo = <<>> /\ tx[a].todo \in Suffixes(tx[a].op)
  BY DEF IInv, InOrder, Waiting, Commit
<1>2. \A row : Has(a, tx[a].op, row)
  BY <1>1, Statements DEF Has
<1>3. late' \in BOOLEAN /\ (late' => late) /\ (late /\ tx[a].op # "assign" => late')
  BY DEF Commit
<1>4. tx'[a] = Idle /\ held'[a] = {}
  BY DEF Commit, Release, IInv, InOrder
<1> QED
  BY <1>1, <1>2, <1>3, <1>4 DEF IInv

LEMMA Others ==
  ASSUME IInv, NEW a \in Actors, Commit(a), NEW b \in Actors, b # a
  PROVE  /\ Holds(b) /\ Knows(b)
         /\ tx'[b] = tx[b] /\ held'[b] = held[b]
         /\ "challenge" \in held[a] => "challenge" \notin held[b]
         /\ "command" \in held[a] => "command" \notin held[b]
         /\ "plan" \in held[a] => "plan" \notin held[b]
         /\ "game" \in held[a] /\ "game" \in held[b] =>
              {tx[a].op, tx[b].op} \subseteq {"ack", "ensure"}
         /\ Has(b, "end", "challenge") => Has(b, "end", "game")
         /\ Has(b, "ack", "challenge") => Has(b, "ack", "command")
         /\ \A op, row : Has(b, op, row) => tx[b].op = op
         /\ \A op, row : Has(b, op, row)' <=> Has(b, op, row)
<1>1. tx[b].op \in Operations \cup {"idle"} /\ tx[b].todo \in Suffixes(tx[b].op)
  BY DEF IInv, InOrder
<1>2. /\ Has(b, "end", "challenge") => Has(b, "end", "game")
      /\ Has(b, "ack", "challenge") => Has(b, "ack", "command")
  BY <1>1, Statements DEF Has, Operations
<1>3. \A row \in held[a] \cap held[b] :
        Shares(tx[a].op, row) /\ Shares(tx[b].op, row)
  BY DEF IInv, Exclusive
<1>4. tx'[b] = tx[b] /\ held'[b] = held[b]
  BY DEF Commit, Release, IInv, InOrder
<1>5. /\ \A op, row : Has(b, op, row) => tx[b].op = op
      /\ \A op, row : Has(b, op, row)' <=> Has(b, op, row)
  BY <1>4 DEF Has
<1> QED
  BY <1>1, <1>2, <1>3, <1>4, <1>5 DEF IInv, Shares

\* What is left to show of a commit is what it writes.
LEMMA CommitKeeps ==
  ASSUME IInv, NEW a \in Actors, Commit(a),
         RowsTyped', NoCommandYet', CommandAgrees',
         \A b \in Actors \ {a} :
           /\ Knows(b)'
           /\ Has(b, "end", "challenge") =>
                "challenge" \in held[b] \/ db'.challenge \notin Active
  PROVE  IInv'
<1>1. InOrder'
  BY AtCommit DEF IInv, InOrder, Commit, Release, Idle, Suffixes, Operations
<1>2. Exclusive'
  <2> SUFFICES ASSUME NEW b \in Actors, NEW c \in Actors, b # c,
                      NEW row \in held'[b] \cap held'[c]
               PROVE  Shares(tx'[b].op, row) /\ Shares(tx'[c].op, row)
    BY DEF Exclusive, Shares
  <2>1. b # a /\ c # a
    BY AtCommit
  <2> QED
    BY <2>1, Others DEF IInv, Exclusive
<1>3. ASSUME NEW b \in Actors, b # a
      PROVE  Holds(b)' /\ Knows(b)'
  <2>1. /\ tx'[b] = tx[b] /\ held'[b] = held[b] /\ Holds(b)
        /\ \A op, row : Has(b, op, row)' <=> Has(b, op, row)
    BY <1>3, Others
  <2> QED
    BY <1>3, <2>1 DEF Holds
<1>4. Holds(a)' /\ Knows(a)'
  BY AtCommit DEF Holds, Knows, Has, Idle, GameFirst
<1> QED
  BY <1>1, <1>2, <1>3, <1>4 DEF IInv

\* What the others know survives what a commit writes.
LEMMA WritesKeep ==
  ASSUME IInv, NEW a \in Actors, Commit(a)
  PROVE  /\ RowsTyped' /\ NoCommandYet' /\ CommandAgrees'
         /\ \A b \in Actors \ {a} :
              /\ Knows(b)'
              /\ Has(b, "end", "challenge") =>
                   "challenge" \in held[b] \/ db'.challenge \notin Active
<1>1. /\ Holds(a) /\ Knows(a) /\ tx[a].op \in Operations
      /\ late' \in BOOLEAN /\ (late' => late) /\ (late /\ tx[a].op # "assign" => late')
      /\ RowsTyped /\ NoCommandYet /\ CommandAgrees
  BY AtCommit DEF IInv
<1>2. CASE tx[a].op = "ensure"
  <2>1. \A row : Has(a, "ensure", row)
    BY <1>2, AtCommit
  <2>2. /\ (held[a] # {} => "plan" \in held[a] /\ db.plan = "none")
    BY <1>1, <1>2, <2>1 DEF Holds, Knows, GameFirst, NoCommandYet
  <2>3. (db' = Written("ensure") /\ held[a] # {}) \/ db' = db
    BY <1>2 DEF Commit
  <2>4. /\ db'.challenge = db.challenge /\ db'.command = db.command /\ db'.game = db.game
        /\ (db'.plan = db.plan \/ (held[a] # {} /\ db'.plan = "set"))
    BY <1>1, <2>2, <2>3 DEF Written, RowsTyped, Active, Open
  <2>5. RowsTyped'
    BY <1>1, <2>3 DEF Written, RowsTyped, Active, Open
  <2>6. NoCommandYet' /\ CommandAgrees'
    BY <1>1, <1>2, <2>2, <2>4 DEF NoCommandYet, CommandAgrees, Active, Open, Closed
  <2>7. ASSUME NEW b \in Actors, b # a
        PROVE  /\ Knows(b)'
               /\ Has(b, "end", "challenge") =>
                    "challenge" \in held[b] \/ db'.challenge \notin Active
    BY <1>1, <1>2, <2>2, <2>4, <2>7, Others
    DEF Holds, Knows, GameFirst, Active, Closed, Open, NoCommandYet
  <2> QED
    BY <2>5, <2>6, <2>7
<1>3. CASE tx[a].op = "schedule"
  <2>1. \A row : Has(a, "schedule", row)
    BY <1>3, AtCommit
  <2>2. /\ {"game", "plan"} \subseteq held[a] /\ db.game = "playing"
        /\ db.challenge = "none" /\ db.command = "none"
    BY <1>1, <1>3, <2>1 DEF Holds, Knows, GameFirst, NoCommandYet
  <2>3. db' = Written("schedule")
    BY <1>3 DEF Commit
  <2>4. /\ db'.challenge = "awaiting_assignment" /\ db'.plan = "null"
        /\ db'.command = db.command /\ db'.game = db.game
    BY <1>1, <2>2, <2>3 DEF Written, RowsTyped, Active, Open
  <2>5. RowsTyped'
    BY <1>1, <2>3 DEF Written, RowsTyped, Active, Open
  <2>6. NoCommandYet' /\ CommandAgrees'
    BY <1>1, <1>3, <2>2, <2>4 DEF NoCommandYet, CommandAgrees, Active, Open, Closed
  <2>7. ASSUME NEW b \in Actors, b # a
        PROVE  /\ Knows(b)'
               /\ Has(b, "end", "challenge") =>
                    "challenge" \in held[b] \/ db'.challenge \notin Active
    BY <1>1, <1>3, <2>2, <2>4, <2>7, Others
    DEF Holds, Knows, GameFirst, Active, Closed, Open, NoCommandYet
  <2> QED
    BY <2>5, <2>6, <2>7
<1>4. CASE tx[a].op = "assign"
  <2>1. \A row : Has(a, "assign", row)
    BY <1>4, AtCommit
  <2>2. /\ {"game", "challenge"} \subseteq held[a] /\ db.game = "playing"
        /\ db.challenge = "awaiting_assignment" /\ db.command = "none"
    BY <1>1, <1>4, <2>1 DEF Holds, Knows, GameFirst, NoCommandYet
  <2>3. db' = Written("assign")
    BY <1>4 DEF Commit
  <2>4. /\ db'.challenge = "awaiting_device" /\ db'.command = "pending"
        /\ db'.game = db.game /\ db'.plan = db.plan
    BY <1>1, <2>2, <2>3 DEF Written, RowsTyped, Active, Open
  <2>5. RowsTyped'
    BY <1>1, <2>3 DEF Written, RowsTyped, Active, Open
  <2>6. NoCommandYet' /\ CommandAgrees'
    BY <1>1, <1>4, <2>2, <2>4 DEF NoCommandYet, CommandAgrees, Active, Open, Closed
  <2>7. ASSUME NEW b \in Actors, b # a
        PROVE  /\ Knows(b)'
               /\ Has(b, "end", "challenge") =>
                    "challenge" \in held[b] \/ db'.challenge \notin Active
    BY <1>1, <1>4, <2>2, <2>4, <2>7, Others
    DEF Holds, Knows, GameFirst, Active, Closed, Open, NoCommandYet
  <2> QED
    BY <2>5, <2>6, <2>7
<1>5. CASE tx[a].op = "ack"
  <2>1. \A row : Has(a, "ack", row)
    BY <1>5, AtCommit
  <2>2. /\ {"command", "challenge"} \subseteq held[a] /\ db.command = "pending"
        /\ db.challenge \in {"awaiting_device", "armed"}
    BY <1>1, <1>5, <2>1 DEF Holds, Knows, GameFirst, NoCommandYet
  <2>3. db' = Written("ack")
    BY <1>5 DEF Commit
  <2>4. /\ db'.challenge = "armed" /\ db'.command = "acknowledged"
        /\ db'.game = db.game /\ db'.plan = db.plan
    BY <1>1, <2>2, <2>3 DEF Written, RowsTyped, Active, Open
  <2>5. RowsTyped'
    BY <1>1, <2>3 DEF Written, RowsTyped, Active, Open
  <2>6. NoCommandYet' /\ CommandAgrees'
    BY <1>1, <1>5, <2>2, <2>4 DEF NoCommandYet, CommandAgrees, Active, Open, Closed
  <2>7. ASSUME NEW b \in Actors, b # a
        PROVE  /\ Knows(b)'
               /\ Has(b, "end", "challenge") =>
                    "challenge" \in held[b] \/ db'.challenge \notin Active
    BY <1>1, <1>5, <2>2, <2>4, <2>7, Others
    DEF Holds, Knows, GameFirst, Active, Closed, Open, NoCommandYet
  <2> QED
    BY <2>5, <2>6, <2>7
<1>6. CASE tx[a].op = "submit"
  <2>1. \A row : Has(a, "submit", row)
    BY <1>6, AtCommit
  <2>2. /\ {"game", "challenge"} \subseteq held[a] /\ db.challenge = "armed"
    BY <1>1, <1>6, <2>1 DEF Holds, Knows, GameFirst, NoCommandYet
  <2>3. db' = Written("submit")
    BY <1>6 DEF Commit
  <2>4. /\ db'.challenge = "resolved" /\ db'.command = "completed"
        /\ db'.game = db.game /\ db'.plan = "set"
    BY <1>1, <2>2, <2>3 DEF Written, RowsTyped, Active, Open
  <2>5. RowsTyped'
    BY <1>1, <2>3 DEF Written, RowsTyped, Active, Open
  <2>6. NoCommandYet' /\ CommandAgrees'
    BY <1>1, <1>6, <2>2, <2>4 DEF NoCommandYet, CommandAgrees, Active, Open, Closed
  <2>7. ASSUME NEW b \in Actors, b # a
        PROVE  /\ Knows(b)'
               /\ Has(b, "end", "challenge") =>
                    "challenge" \in held[b] \/ db'.challenge \notin Active
    BY <1>1, <1>6, <2>2, <2>4, <2>7, Others
    DEF Holds, Knows, GameFirst, Active, Closed, Open, NoCommandYet
  <2> QED
    BY <2>5, <2>6, <2>7
<1>7. CASE tx[a].op = "poll"
  <2>1. \A row : Has(a, "poll", row)
    BY <1>7, AtCommit
  <2>2. /\ (held[a] # {} => held[a] = {"command"} /\ late) /\ db.command # "none"
    BY <1>1, <1>7, <2>1 DEF Holds, Knows, GameFirst, NoCommandYet
  <2>3. (db' = Written("poll") /\ held[a] # {}) \/ db' = db
    BY <1>7 DEF Commit
  <2>4. /\ db'.challenge = db.challenge /\ db'.game = db.game /\ db'.plan = db.plan
        /\ (db'.command = db.command \/ (held[a] # {} /\ db'.command = Closed(db.command)))
    BY <1>1, <2>2, <2>3 DEF Written, RowsTyped, Active, Open, Closed
  <2>5. RowsTyped'
    BY <1>1, <2>3 DEF Written, RowsTyped, Active, Open, Closed
  <2>6. NoCommandYet' /\ CommandAgrees'
    BY <1>1, <1>7, <2>2, <2>4 DEF NoCommandYet, CommandAgrees, Active, Open, Closed
  <2>7. ASSUME NEW b \in Actors, b # a
        PROVE  /\ Knows(b)'
               /\ Has(b, "end", "challenge") =>
                    "challenge" \in held[b] \/ db'.challenge \notin Active
    BY <1>1, <1>7, <2>2, <2>4, <2>7, Others
    DEF Holds, Knows, GameFirst, Active, Closed, Open, NoCommandYet
  <2> QED
    BY <2>5, <2>6, <2>7
<1>8. CASE tx[a].op = "expire"
  <2>1. \A row : Has(a, "expire", row)
    BY <1>8, AtCommit
  <2>2. /\ {"game", "challenge"} \subseteq held[a] /\ db.challenge \in Active
    BY <1>1, <1>8, <2>1 DEF Holds, Knows, GameFirst, NoCommandYet
  <2>3. db' = Written("expire")
    BY <1>8 DEF Commit
  <2>4. /\ db'.challenge \in {"expired", "cancelled"} /\ db'.command = Closed(db.command)
        /\ db'.game = db.game /\ db'.plan \in {"set", "null"}
    BY <1>1, <2>2, <2>3 DEF Written, RowsTyped, Active, Open, Expired, Closed
  <2>5. RowsTyped'
    BY <1>1, <2>3 DEF Written, RowsTyped, Active, Open, Expired, Closed
  <2>6. NoCommandYet' /\ CommandAgrees'
    BY <1>1, <1>8, <2>2, <2>4 DEF NoCommandYet, CommandAgrees, Active, Open, Closed
  <2>7. ASSUME NEW b \in Actors, b # a
        PROVE  /\ Knows(b)'
               /\ Has(b, "end", "challenge") =>
                    "challenge" \in held[b] \/ db'.challenge \notin Active
    BY <1>1, <1>8, <2>2, <2>4, <2>7, Others
    DEF Holds, Knows, GameFirst, Active, Closed, Open, NoCommandYet
  <2> QED
    BY <2>5, <2>6, <2>7
<1>9. CASE tx[a].op = "end"
  <2>1. \A row : Has(a, "end", row)
    BY <1>9, AtCommit
  <2>2. /\ "game" \in held[a] /\ db.game = "playing"
        /\ ("challenge" \in held[a] \/ db.challenge \notin Active)
    BY <1>1, <1>9, <2>1 DEF Holds, Knows, GameFirst, NoCommandYet
  <2>3. db' = Written("end")
    BY <1>9 DEF Commit
  <2>4. /\ db'.game = "ended" /\ (db'.plan \in {"none", "null"} /\ (db'.plan = "none" <=> db.plan = "none"))
        /\ \/ db.challenge \notin Active /\ db'.challenge = db.challenge
              /\ db'.command = db.command
           \/ db.challenge \in Active /\ db'.challenge = "cancelled"
              /\ db'.command = Closed(db.command)
    BY <1>1, <2>2, <2>3 DEF Written, RowsTyped, Active, Open, Ended, Closed
  <2>5. RowsTyped'
    BY <1>1, <2>3 DEF Written, RowsTyped, Active, Open, Ended, Closed
  <2>6. NoCommandYet' /\ CommandAgrees'
    BY <1>1, <1>9, <2>2, <2>4 DEF NoCommandYet, CommandAgrees, Active, Open, Closed
  <2>7. ASSUME NEW b \in Actors, b # a
        PROVE  /\ Knows(b)'
               /\ Has(b, "end", "challenge") =>
                    "challenge" \in held[b] \/ db'.challenge \notin Active
    BY <1>1, <1>9, <2>2, <2>4, <2>7, Others
    DEF Holds, Knows, GameFirst, Active, Closed, Open, NoCommandYet
  <2> QED
    BY <2>5, <2>6, <2>7
<1> QED
  BY <1>1, <1>2, <1>3, <1>4, <1>5, <1>6, <1>7, <1>8, <1>9 DEF Operations

LEMMA NextIInv ==
  ASSUME IInv, [Next]_vars
  PROVE  IInv'
<1>1. ASSUME NEW a \in Actors, Lock(a) \/ Pass(a)
      PROVE  IInv'
  BY <1>1, LockKeeps, PassKeeps
<1>2. ASSUME NEW a \in Actors, Refuse(a) \/ Victim(a)
      PROVE  IInv'
  BY <1>2, ReleaseKeeps DEF Refuse, Victim
<1>3. ASSUME NEW a \in Actors, Commit(a)
      PROVE  IInv'
  BY <1>3, WritesKeep, CommitKeeps
<1>4. ASSUME NEW a \in Actors, NEW op \in Operations, Begin(a, op)
      PROVE  IInv'
  BY <1>4, BeginKeeps
<1>5. CASE TimePasses \/ UNCHANGED vars
  <2>1. UNCHANGED <<db, tx, held>> /\ (late' = late \/ late' = TRUE)
    BY <1>5 DEF TimePasses, vars
  <2>2. RowsTyped' /\ NoCommandYet' /\ CommandAgrees'
    BY <2>1 DEF IInv, RowsTyped, NoCommandYet, CommandAgrees
  <2>3. InOrder' /\ Exclusive'
    BY <2>1 DEF IInv, InOrder, Exclusive
  <2>4. ASSUME NEW a \in Actors
        PROVE  Holds(a)' /\ Knows(a)'
    <3>1. Holds(a) /\ Knows(a)
      BY DEF IInv
    <3>2. \A op, row : Has(a, op, row)' <=> Has(a, op, row)
      BY <2>1 DEF Has
    <3> QED
      BY <2>1, <3>1, <3>2 DEF Holds, Knows
  <2> QED
    BY <2>2, <2>3, <2>4 DEF IInv
<1> QED
  BY <1>1, <1>2, <1>3, <1>4, <1>5 DEF Next, Moves

LEMMA Invariance == Spec => []IInv
<1>1. Init => IInv
  BY InitIInv
<1>2. IInv /\ [Next]_vars => IInv'
  BY NextIInv
<1> QED
  BY <1>1, <1>2, PTL DEF Spec

-------------------------------------------------------------------------------
(* The rows and the transactions have the values the code gives them,      *)
(* whatever the number of actors.                                          *)
THEOREM TypeCorrect == Spec => []TypeOK
<1>1. IInv => TypeOK
  BY DEF IInv, RowsTyped, InOrder, TypeOK
<1> QED
  BY <1>1, Invariance, PTL

(* A challenge and its command agree after every commit: no interleaving   *)
(* of the Box, the page and the scheduler arms a challenge that is over or *)
(* accepts a result for a command that was given up.                       *)
THEOREM ChallengeAndCommandAgree == Spec => []CommandAgrees
<1>1. IInv => CommandAgrees
  BY DEF IInv
<1> QED
  BY <1>1, Invariance, PTL

-------------------------------------------------------------------------------
\* Transactions that wait although they hold a row, by the row the others want of them.
HasGame(a) == tx[a].op \in GameFirst /\ "game" \in held[a]
HasCommand(a) == tx[a].op = "ack" /\ "command" \in held[a]
HasPlan(a) == tx[a].op = "ensure" /\ "plan" \in held[a] /\ Wants(a) = "game"

\* One that waits and makes another wait is of one of three kinds.
LEMMA Kinds ==
  ASSUME IInv, NEW a \in Actors, NEW b \in Blockers(a), b \in Blocked
  PROVE  /\ a # b /\ Wants(a) \in held[b] /\ Waiting(a) /\ Matches(a)
         /\ HasGame(b) \/ HasCommand(b) \/ HasPlan(b)
         /\ Wants(a) = "game" => HasGame(b)
         /\ HasPlan(b) => tx[a].op = "ensure"
<1>1. /\ b \in Actors /\ a # b /\ Wants(a) \in held[b] /\ Waiting(a) /\ Matches(a)
      /\ Waiting(b)
  BY DEF Blockers, Blocked
<1>2. /\ tx[b].op \in Operations /\ tx[b].todo \in Suffixes(tx[b].op)
      /\ tx[b].todo # <<>> /\ tx[a].todo \in Suffixes(tx[a].op)
      /\ tx[a].op \in Operations /\ Holds(b) /\ Knows(b) /\ Knows(a) /\ NoCommandYet
  BY <1>1 DEF IInv, InOrder, Waiting, Suffixes, Operations
<1>3. AtRow(tx[b].op, tx[b].todo) /\ Wants(b) \in Left(tx[b].todo)
  BY <1>2, Statements DEF Steps, Wants
<1>4. held[b] \cap Left(tx[b].todo) = {} /\ held[b] # {}
  BY <1>1, <1>2 DEF Holds
<1>5. HasGame(b) \/ HasCommand(b) \/ HasPlan(b)
  <2>1. CASE tx[b].op \in GameFirst
    BY <1>2, <1>4, <2>1 DEF Holds, HasGame
  <2>2. CASE tx[b].op = "ack"
    BY <1>2, <1>4, <2>2 DEF Holds, HasCommand
  <2>3. CASE tx[b].op = "ensure"
    BY <1>2, <1>3, <1>4, <2>3 DEF Holds, HasPlan, AtRow, Wants
  <2>4. CASE tx[b].op = "poll"
    BY <1>2, <1>3, <1>4, <2>4 DEF Holds, AtRow
  <2> QED
    BY <1>2, <2>1, <2>2, <2>3, <2>4 DEF Operations, GameFirst
<1>6. Wants(a) = "game" => HasGame(b)
  BY <1>1, <1>3, <1>4, <1>5 DEF HasGame, HasCommand, HasPlan, AtRow
<1>7. HasPlan(b) => tx[a].op = "ensure"
  <2> SUFFICES ASSUME HasPlan(b), tx[a].op # "ensure"
               PROVE  FALSE
    OBVIOUS
  <2>1. db.plan = "none" /\ held[b] = {"plan"}
    BY <1>2, <1>3, <1>4 DEF HasPlan, Holds, Knows, AtRow
  <2>2. Wants(a) = "plan"
    BY <1>1, <2>1
  <2>3. tx[a].op \in {"expire", "submit"}
    BY <1>1, <2>1, <2>2 DEF Matches
  <2> QED
    BY <1>2, <2>1, <2>3 DEF Knows, NoCommandYet
<1> QED
  BY <1>1, <1>5, <1>6, <1>7

\* A holder of the game waits for an acknowledgement, and that one for it: only one
\* transaction that waits holds the game, and only one holds the command.
LEMMA Crossing ==
  ASSUME IInv, NEW a \in Actors, NEW b \in Blockers(a), b \in Blocked
  PROVE  /\ HasGame(a) => HasCommand(b)
         /\ HasCommand(a) => HasGame(b)
         /\ HasPlan(a) => HasGame(b)
         /\ HasGame(a) => ~HasGame(b)
<1>1. /\ b \in Actors /\ a # b
      /\ HasGame(b) \/ HasCommand(b) \/ HasPlan(b)
      /\ Wants(a) = "game" => HasGame(b)
      /\ HasPlan(b) => tx[a].op = "ensure"
  BY Kinds DEF Blocked
<1>2. \A row \in held[a] \cap held[b] : Shares(tx[a].op, row) /\ Shares(tx[b].op, row)
  BY <1>1 DEF IInv, Exclusive
<1>3. HasGame(a) => ~HasGame(b)
  BY <1>2 DEF HasGame, Shares, GameFirst
<1>4. HasCommand(a) => ~HasCommand(b)
  BY <1>2 DEF HasCommand, Shares
<1> QED
  BY <1>1, <1>3, <1>4 DEF HasGame, HasCommand, HasPlan, GameFirst

(* However many requests of the Box, of the page and schedulers run: every *)
(* circle of transactions that wait for one another is one acknowledgement *)
(* that holds the command and one transaction that holds the game.         *)
THEOREM OnlyAcknowledgementsCross == Spec => []OnlyAcksCrossTheOrder
<1>1. ASSUME IInv, NEW S \in Circles
      PROVE  \E a, b \in S : /\ S = {a, b} /\ tx[a].op = "ack" /\ "command" \in held[a]
                             /\ "game" \in held[b] /\ tx[b].op # "ack"
  <2>1. /\ S \subseteq Blocked /\ S \subseteq Actors /\ S # {}
        /\ \A a \in S : Blockers(a) \cap S # {}
        /\ \A R \in SUBSET S : Stuck(R) => R = S
    BY DEF Circles, Stuck, Blocked
  <2>2. PICK g \in S : HasGame(g)
    <3>1. PICK a \in S : TRUE
      BY <2>1
    <3>2. PICK b \in Blockers(a) \cap S : TRUE
      BY <2>1, <3>1
    <3>3. PICK c \in Blockers(b) \cap S : TRUE
      BY <2>1, <3>2
    <3>4. HasGame(b) \/ HasCommand(b) \/ HasPlan(b)
      BY <2>1, <3>2, Kinds, <1>1
    <3>5. HasGame(b) \/ HasGame(c)
      BY <2>1, <3>2, <3>3, <3>4, Crossing, <1>1
    <3> QED
      BY <3>2, <3>3, <3>5
  <2>3. PICK c \in Blockers(g) \cap S : TRUE
    BY <2>1, <2>2
  <2>4. HasCommand(c)
    BY <2>1, <2>2, <2>3, Crossing, <1>1
  <2>5. PICK d \in Blockers(c) \cap S : TRUE
    BY <2>1, <2>3
  <2>6. HasGame(d)
    BY <2>1, <2>3, <2>4, <2>5, Crossing, <1>1
  <2>7. d = g
    BY <1>1, <2>1, <2>2, <2>5, <2>6 DEF IInv, Exclusive, HasGame, Shares, GameFirst
  <2>8. Stuck({g, c})
    BY <2>3, <2>5, <2>7 DEF Stuck
  <2>9. S = {c, g}
    BY <2>1, <2>2, <2>3, <2>8
  <2> QED
    BY <2>2, <2>4, <2>9 DEF HasGame, HasCommand, GameFirst
<1>2. IInv => OnlyAcksCrossTheOrder
  BY <1>1 DEF OnlyAcksCrossTheOrder
<1> QED
  BY <1>2, Invariance, PTL

===============================================================================
