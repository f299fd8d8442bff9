----------------------------- MODULE MCClientSync -----------------------------
(***************************************************************************)
(* Small instances of ClientSync for TLC.                                  *)
(***************************************************************************)
EXTENDS ClientSync

\* A page that lives on notifications, opened in a game that ticks and players
\* change, and one that loses them, opened in the lobby, which polls while it shows
\* the game being played with the box.
TwoPages ==
  {[opened |-> "playing", reaction |-> FALSE, faults |-> {}],
   [opened |-> "lobby", reaction |-> TRUE,
    faults |-> {"late registration", "failed tick", "silent end", "failed fetch"}]}

===============================================================================
