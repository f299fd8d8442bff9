------------------------------ MODULE AIGeneration ------------------------------
(***************************************************************************)
(* The catalogue of missions a host has the provider generate in the       *)
(* lobby: requests that overlap, the counters the process keeps under a    *)
(* mutex, the starts and ends that must not cross a paid call, the limit   *)
(* that survives a restart through the events in the database.             *)
(*                                                                         *)
(* A critical section of the mutex, a transaction and a query outside one  *)
(* are one action each; anything may happen between them.                  *)
(***************************************************************************)
EXTENDS Naturals, FiniteSets

CONSTANTS
  Generations,   \* POST .../ai-missions/generate requests served at a time
  Transitions,   \* POST .../start and .../end requests served at a time
  MaxAttempts,   \* maxAIGenerationAttemptsPerGame, five
  MaxCalls       \* calls of the provider over all processes (bound)

ASSUME RequestsAssumption ==
  IsFiniteSet(Generations) /\ IsFiniteSet(Transitions) /\ Generations \cap Transitions = {}
ASSUME NumbersAssumption == MaxAttempts \in Nat \ {0} /\ MaxCalls \in Nat

VARIABLES
  game,       \* games.status
  catalogue,  \* the generated missions of the game, by the call that made them
  successes,  \* ai_missions_generated events of the game
  dealt,      \* the catalogue the missions were given from at the start
  usage,      \* aiUsage[gameID], in memory
  gen,        \* each generation: where it is, and what it read and was given
  trans,      \* each transition: where it is and its target
  calls,      \* calls of the provider so far
  spent       \* those of the process now running

dbVars == <<game, catalogue, successes, dealt>>
vars == <<dbVars, usage, gen, trans, calls, spent>>

Fresh == [attempts |-> 0, generating |-> FALSE, transitions |-> 0]
IdleGen == [phase |-> "idle", persisted |-> 0, missions |-> 0]
IdleTrans == [phase |-> "idle", target |-> "playing"]

(* Rows, counters and requests have the values the code gives them.        *)
TypeOK ==
  /\ game \in {"lobby", "playing", "ended"}
  /\ catalogue \in 0 .. MaxCalls /\ dealt \in 0 .. MaxCalls
  /\ successes \in Nat
  /\ usage \in [attempts : 0 .. MaxAttempts, generating : BOOLEAN, transitions : Nat]
  /\ gen \in [Generations ->
       [phase : {"idle", "looked", "counted", "calling", "storing", "finishing"},
        persisted : Nat, missions : 0 .. MaxCalls]]
  /\ trans \in [Transitions ->
       [phase : {"idle", "asked", "changing", "finishing"}, target : {"playing", "ended"}]]
  /\ calls \in 0 .. MaxCalls /\ spent \in 0 .. MaxCalls

Larger(a, b) == IF a < b THEN b ELSE a

GenGoes(g, phase) == gen' = [gen EXCEPT ![g].phase = phase]
TransGoes(t, phase) == trans' = [trans EXCEPT ![t].phase = phase]

-------------------------------------------------------------------------------
(* GenerateAIMissions.                                                     *)

\* The game, read without its lock.
LookAtGame(g) ==
  /\ gen[g].phase = "idle" /\ game = "lobby"
  /\ GenGoes(g, "looked")
  /\ UNCHANGED <<dbVars, usage, trans, calls, spent>>

\* AIMissionGenerationCount.
CountEvents(g) ==
  /\ gen[g].phase = "looked"
  /\ gen' = [gen EXCEPT ![g].phase = "counted", ![g].persisted = successes]
  /\ UNCHANGED <<dbVars, usage, trans, calls, spent>>

\* The mutant that forgets the generations of earlier processes.
InMemoryAttempts(g) == usage.attempts

Attempts(g) == Larger(usage.attempts, gen[g].persisted)

\* The mutant that lets a generation begin while the game starts or ends.
AdmittedDuringTransition(g) == ~usage.generating /\ Attempts(g) < MaxAttempts

Admitted(g) ==
  /\ ~usage.generating
  /\ usage.transitions = 0
  /\ Attempts(g) < MaxAttempts

BeginAIGeneration(g) ==
  /\ gen[g].phase = "counted"
  /\ \/ ~Admitted(g) /\ GenGoes(g, "idle") /\ UNCHANGED usage
     \/ /\ Admitted(g) /\ calls < MaxCalls /\ GenGoes(g, "calling")
        /\ usage' = [usage EXCEPT !.attempts = Attempts(g) + 1, !.generating = TRUE]
  /\ UNCHANGED <<dbVars, trans, calls, spent>>

\* AI.Generate and ValidateMissions: a valid catalogue, or an error.
CallProvider(g) ==
  /\ gen[g].phase = "calling"
  /\ calls' = calls + 1 /\ spent' = spent + 1
  /\ \/ GenGoes(g, "finishing")
     \/ gen' = [gen EXCEPT ![g].phase = "storing", ![g].missions = calls + 1]
  /\ UNCHANGED <<dbVars, usage, trans>>

\* The mutant that trusts the status read before the call.
ReplaceableTrusted == TRUE

Replaceable == game = "lobby"

\* The transaction, or its failure.
ReplaceAIMissions(g) ==
  /\ gen[g].phase = "storing"
  /\ \/ UNCHANGED <<catalogue, successes>>
     \/ /\ Replaceable
        /\ catalogue' = gen[g].missions
        /\ successes' = successes + 1
  /\ GenGoes(g, "finishing")
  /\ UNCHANGED <<game, dealt, usage, trans, calls, spent>>

\* The mutant whose request returns without the deferred call.
FinishForgotten(g) ==
  /\ gen[g].phase = "finishing"
  /\ GenGoes(g, "idle")
  /\ UNCHANGED <<dbVars, usage, trans, calls, spent>>

FinishAIGeneration(g) ==
  /\ gen[g].phase = "finishing"
  /\ usage' = [usage EXCEPT !.generating = FALSE]
  /\ GenGoes(g, "idle")
  /\ UNCHANGED <<dbVars, trans, calls, spent>>

-------------------------------------------------------------------------------
(* AIMissionsStatus, Start and End.                                        *)

\* aiAttempts, with a count read any time before in this process.
AIMissionsStatus ==
  /\ \E persisted \in 0 .. successes :
       usage' = [usage EXCEPT !.attempts = Larger(@, persisted)]
  /\ UNCHANGED <<dbVars, gen, trans, calls, spent>>

AskTransition(t, target) ==
  /\ trans[t].phase = "idle"
  /\ trans' = [trans EXCEPT ![t] = [phase |-> "asked", target |-> target]]
  /\ UNCHANGED <<dbVars, usage, gen, calls, spent>>

TransitionBegins == ~usage.generating

BeginGameTransition(t) ==
  /\ trans[t].phase = "asked"
  /\ \/ ~TransitionBegins /\ TransGoes(t, "idle") /\ UNCHANGED usage
     \/ /\ TransitionBegins /\ TransGoes(t, "changing")
        /\ usage' = [usage EXCEPT !.transitions = @ + 1]
  /\ UNCHANGED <<dbVars, gen, calls, spent>>

\* The transaction of transition, or its refusal.
Transition(t) ==
  /\ trans[t].phase = "changing"
  /\ \/ UNCHANGED <<game, dealt>>
     \/ /\ <<game, trans[t].target>> \in
             {<<"lobby", "playing">>, <<"playing", "ended">>, <<"lobby", "ended">>}
        /\ game' = trans[t].target
        /\ dealt' = IF trans[t].target = "playing" THEN catalogue ELSE dealt
  /\ TransGoes(t, "finishing")
  /\ UNCHANGED <<catalogue, successes, usage, gen, calls, spent>>

FinishGameTransition(t) ==
  /\ trans[t].phase = "finishing"
  /\ usage' = [usage EXCEPT !.transitions = IF @ > 0 THEN @ - 1 ELSE @]
  /\ TransGoes(t, "idle")
  /\ UNCHANGED <<dbVars, gen, calls, spent>>

\* FinishDueGame asks nobody.
FinishDueGame ==
  /\ game = "playing"
  /\ game' = "ended"
  /\ UNCHANGED <<catalogue, successes, dealt, usage, gen, trans, calls, spent>>

\* The end of the process: what it kept in memory and the requests are gone.
Restart ==
  /\ usage' = Fresh
  /\ gen' = [g \in Generations |-> IdleGen]
  /\ trans' = [t \in Transitions |-> IdleTrans]
  /\ spent' = 0
  /\ UNCHANGED <<dbVars, calls>>

Init ==
  /\ game = "lobby"
  /\ catalogue = 0 /\ dealt = 0 /\ successes = 0
  /\ usage = Fresh
  /\ gen = [g \in Generations |-> IdleGen]
  /\ trans = [t \in Transitions |-> IdleTrans]
  /\ calls = 0 /\ spent = 0

Generate(g) ==
  \/ LookAtGame(g) \/ CountEvents(g) \/ BeginAIGeneration(g)
  \/ CallProvider(g) \/ ReplaceAIMissions(g) \/ FinishAIGeneration(g)

StartOrEnd(t) ==
  \/ \E target \in {"playing", "ended"} : AskTransition(t, target)
  \/ BeginGameTransition(t) \/ Transition(t) \/ FinishGameTransition(t)

Next ==
  \/ \E g \in Generations : Generate(g)
  \/ \E t \in Transitions : StartOrEnd(t)
  \/ AIMissionsStatus \/ FinishDueGame \/ Restart

Spec == Init /\ [][Next]_vars

(* A request that was admitted goes on until it has finished.              *)
Fairness ==
  \A g \in Generations :
    WF_vars(CallProvider(g) \/ ReplaceAIMissions(g) \/ FinishAIGeneration(g))

FairSpec == Spec /\ Fairness

-------------------------------------------------------------------------------
(* Properties.                                                             *)

(* README: one generation at a time, no start or end during the call.      *)
OneAtATime ==
  /\ \A g, h \in Generations :
       {gen[g].phase, gen[h].phase} \subseteq {"calling", "storing", "finishing"} => g = h
  /\ \A g \in Generations, t \in Transitions :
       ~(gen[g].phase \in {"calling", "storing"} /\ trans[t].phase = "changing")

(* README: five attempts per process, and the generations that succeeded   *)
(* count after a restart.                                                  *)
LimitSurvivesRestart == spent <= MaxAttempts /\ successes <= MaxAttempts

(* Every mission given after the start comes from the catalogue the game   *)
(* was started with, however late a generation comes back.                 *)
CatalogueFixedAtStart == game = "playing" => catalogue = dealt

(* No failure, refusal or restart leaves the game locked by a generation   *)
(* that is over: start and end become possible again.                      *)
GenerationLetsGo == usage.generating ~> ~usage.generating

===============================================================================
