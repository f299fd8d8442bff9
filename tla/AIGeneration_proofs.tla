-------------------------- MODULE AIGeneration_proofs --------------------------
(***************************************************************************)
(* What TLAPS proves about AIGeneration, for every number of generations   *)
(* and transitions served at a time, every limit and every number of       *)
(* restarts.                                                               *)
(*                                                                         *)
(* None of the three invariants is inductive.  What excludes a generation  *)
(* and a start from each other are the counters of usage, so they must be  *)
(* known to count the requests that are under way; what keeps the limit    *)
(* after a restart is that a count of events read before another           *)
(* generation succeeded is made good by the attempt that one reserved.     *)
(***************************************************************************)
EXTENDS AIGeneration, FiniteSetTheorems, TLAPS

Working(g) == gen[g].phase \in {"calling", "storing", "finishing"}

InFlight(g) == gen[g].phase \in {"calling", "storing"}

\* The transitions that were let in and have not been let out.
Changing ==
  {t \in Transitions : trans[t].phase \in {"changing", "finishing"}}

\* What TypeOK says a generation is.
GenRecord ==
  [phase : {"idle", "looked", "counted", "calling", "storing", "finishing"},
   persisted : Nat, missions : 0 .. MaxCalls]

(* The counters under the mutex say who is inside.                         *)
Counted ==
  /\ \A g \in Generations : Working(g) => usage.generating
  /\ \A g, h \in Generations : Working(g) /\ Working(h) => g = h
  /\ usage.transitions = Cardinality(Changing)
  /\ \A g \in Generations, t \in Changing : ~Working(g)

(* Every call was reserved.                                                *)
Reserved ==
  /\ spent <= usage.attempts /\ spent <= calls
  /\ \A g \in Generations :
       gen[g].phase = "calling" => spent < usage.attempts /\ calls < MaxCalls

(* Every success was reserved, by this process or by one whose events a    *)
(* generation that asks to begin has read.                                 *)
Remembered ==
  /\ successes <= MaxAttempts
  /\ \A g \in Generations :
       /\ InFlight(g) => successes < usage.attempts
       /\ gen[g].phase = "counted" => successes <= Attempts(g)

IInv == TypeOK /\ Counted /\ Reserved /\ Remembered

-------------------------------------------------------------------------------
(* Lemmas about the counters.                                              *)

LEMMA LargerBounds ==
  ASSUME NEW a \in Nat, NEW b \in Nat
  PROVE  /\ Larger(a, b) \in {a, b}
         /\ a <= Larger(a, b) /\ b <= Larger(a, b)
BY DEF Larger

LEMMA ChangingFinite ==
  /\ IsFiniteSet(Changing)
  /\ Cardinality(Changing) \in Nat
  /\ Cardinality(Changing) = 0 <=> Changing = {}
<1>1. IsFiniteSet(Transitions) /\ Changing \subseteq Transitions
  BY RequestsAssumption DEF Changing
<1> QED
  BY <1>1, FS_Subset, FS_CardinalityType, FS_EmptySet

(* A step that leaves the transitions and the phases of the generations    *)
(* alone keeps the mutual exclusion, whatever it does to the database.     *)
LEMMA CountedSame ==
  ASSUME Counted, trans' = trans,
         usage'.generating = usage.generating,
         usage'.transitions = usage.transitions,
         \A g \in Generations : Working(g)' => Working(g)
  PROVE  Counted'
<1>1. Changing' = Changing
  BY DEF Changing
<1> QED
  BY <1>1 DEF Counted

-------------------------------------------------------------------------------
(* The invariant.                                                          *)

LEMMA InitIInv == Init => IInv
<1> SUFFICES ASSUME Init PROVE IInv
  OBVIOUS
<1> USE NumbersAssumption
<1>1. TypeOK
  BY DEF Init, TypeOK, Fresh, IdleGen, IdleTrans
<1>2. Changing = {}
  BY DEF Init, IdleTrans, Changing
<1>3. Counted
  BY <1>2, FS_EmptySet DEF Init, Counted, Fresh, IdleGen, Working
<1>4. Reserved /\ Remembered
  BY DEF Init, Reserved, Remembered, Fresh, IdleGen, InFlight
<1> QED
  BY <1>1, <1>3, <1>4 DEF IInv

LEMMA GenerateKeeps ==
  ASSUME IInv, NEW g \in Generations, Generate(g)
  PROVE  IInv'
<1> USE NumbersAssumption
<1> TypeOK /\ Counted /\ Reserved /\ Remembered
  BY DEF IInv
<1>0. \A h \in Generations : gen[h].persisted \in Nat /\ usage.attempts \in Nat
  BY DEF TypeOK
<1>1. CASE LookAtGame(g)
  <2>1. gen' = [gen EXCEPT ![g].phase = "looked"]
    BY <1>1 DEF LookAtGame, GenGoes
  <2>2. UNCHANGED <<dbVars, usage, trans, calls, spent>>
    BY <1>1 DEF LookAtGame
  <2>3. TypeOK'
    BY <2>1, <2>2 DEF TypeOK, dbVars
  <2>4. Counted'
    BY <2>1, <2>2, CountedSame DEF Working, TypeOK
  <2>5. Reserved' /\ Remembered'
    BY <2>1, <2>2 DEF Reserved, Remembered, InFlight, Attempts, TypeOK, dbVars
  <2> QED
    BY <2>3, <2>4, <2>5 DEF IInv
<1>2. CASE CountEvents(g)
  <2>1. gen' = [gen EXCEPT ![g].phase = "counted", ![g].persisted = successes]
    BY <1>2 DEF CountEvents
  <2>2. UNCHANGED <<dbVars, usage, trans, calls, spent>>
    BY <1>2 DEF CountEvents
  <2>3. TypeOK'
    <3>1. [gen[g] EXCEPT !.phase = "counted", !.persisted = successes] \in GenRecord
      BY DEF TypeOK, GenRecord
    <3>2. gen' = [gen EXCEPT ![g] =
                   [gen[g] EXCEPT !.phase = "counted", !.persisted = successes]]
      BY <2>1 DEF TypeOK
    <3>3. gen' \in [Generations -> GenRecord]
      BY <3>1, <3>2 DEF TypeOK, GenRecord
    <3> QED
      BY <2>2, <3>3 DEF TypeOK, GenRecord, dbVars
  <2>4. Counted'
    BY <2>1, <2>2, CountedSame DEF Working, TypeOK
  <2>5. successes \in Nat /\ successes <= Larger(usage.attempts, successes)
    BY <1>0, LargerBounds DEF TypeOK
  <2>6. Reserved' /\ Remembered'
    BY <2>1, <2>2, <2>5 DEF Reserved, Remembered, InFlight, Attempts, TypeOK, dbVars
  <2> QED
    BY <2>3, <2>4, <2>6 DEF IInv
<1>3. CASE BeginAIGeneration(g)
  <2>1. UNCHANGED <<dbVars, trans, calls, spent>> /\ gen[g].phase = "counted"
    BY <1>3 DEF BeginAIGeneration
  <2>2. CASE ~Admitted(g) /\ GenGoes(g, "idle") /\ UNCHANGED usage
    <3>1. TypeOK'
      BY <2>1, <2>2 DEF TypeOK, dbVars, GenGoes
    <3>2. Counted'
      BY <2>1, <2>2, CountedSame DEF Working, TypeOK, GenGoes
    <3>3. Reserved' /\ Remembered'
      BY <2>1, <2>2 DEF Reserved, Remembered, InFlight, Attempts, TypeOK, dbVars, GenGoes
    <3> QED
      BY <3>1, <3>2, <3>3 DEF IInv
  <2>3. CASE /\ Admitted(g) /\ calls < MaxCalls /\ GenGoes(g, "calling")
             /\ usage' = [usage EXCEPT !.attempts = Attempts(g) + 1, !.generating = TRUE]
    <3>1. /\ Attempts(g) \in Nat /\ Attempts(g) < MaxAttempts
          /\ usage.attempts <= Attempts(g) /\ successes <= Attempts(g)
      BY <1>0, <2>1, <2>3, LargerBounds DEF Attempts, Admitted, Remembered
    <3>2. /\ usage'.attempts = Attempts(g) + 1 /\ usage'.generating = TRUE
          /\ usage'.transitions = usage.transitions
      BY <2>3 DEF TypeOK
    <3>3. /\ \A h \in Generations \ {g} : gen'[h] = gen[h]
          /\ gen'[g].phase = "calling"
      BY <2>3 DEF GenGoes, TypeOK
    <3>4. TypeOK'
      <4>1. Attempts(g) + 1 \in 0 .. MaxAttempts
        BY <3>1
      <4>2. usage' \in [attempts : 0 .. MaxAttempts, generating : BOOLEAN,
                        transitions : Nat]
        BY <2>3, <4>1 DEF TypeOK
      <4>3. gen' \in [Generations -> GenRecord]
        BY <2>3 DEF TypeOK, GenGoes, GenRecord
      <4> QED
        BY <2>1, <4>2, <4>3 DEF TypeOK, dbVars, GenRecord
    <3>5. Counted'
      <4>1. Changing' = Changing /\ Changing = {}
        BY <2>1, <2>3, ChangingFinite DEF Changing, Counted, Admitted
      <4>2. \A h \in Generations : ~Working(h)
        BY <2>3 DEF Counted, Admitted
      <4> QED
        BY <3>2, <3>3, <4>1, <4>2 DEF Counted, Working
    <3>6. Reserved'
      <4>1. spent \in Nat /\ spent < Attempts(g) + 1 /\ spent <= calls
        BY <1>0, <3>1 DEF Reserved, TypeOK
      <4>2. \A h \in Generations \ {g} : gen[h].phase # "calling"
        BY <2>3 DEF Counted, Admitted, Working
      <4> QED
        BY <2>1, <2>3, <3>1, <3>2, <3>3, <4>1, <4>2 DEF Reserved
    <3>7. Remembered'
      <4>1. ASSUME NEW h \in Generations \ {g}
            PROVE  /\ ~InFlight(h)'
                   /\ gen'[h].phase = "counted" => successes <= Attempts(h)'
        <5>1. ~InFlight(h)
          BY <2>3 DEF Counted, Admitted, Working, InFlight
        <5>2. Attempts(g) + 1 <= Attempts(h)'
          BY <1>0, <3>1, <3>2, <3>3, LargerBounds DEF Attempts
        <5>3. Attempts(h)' \in Nat
          BY <1>0, <3>1, <3>2, <3>3, LargerBounds DEF Attempts
        <5> QED
          BY <3>1, <3>3, <5>1, <5>2, <5>3 DEF InFlight, TypeOK
      <4>2. successes < Attempts(g) + 1
        BY <3>1 DEF TypeOK
      <4> QED
        BY <2>1, <3>2, <3>3, <4>1, <4>2 DEF Remembered, InFlight, dbVars
    <3> QED
      BY <3>4, <3>5, <3>6, <3>7 DEF IInv
  <2> QED
    BY <1>3, <2>2, <2>3 DEF BeginAIGeneration
<1>4. CASE CallProvider(g)
  <2>1. /\ gen[g].phase = "calling"
        /\ calls' = calls + 1 /\ spent' = spent + 1
        /\ UNCHANGED <<dbVars, usage, trans>>
        /\ spent < usage.attempts /\ calls < MaxCalls
    BY <1>4 DEF CallProvider, Reserved
  <2>2. /\ gen' \in [Generations -> GenRecord]
        /\ gen'[g].phase \in {"storing", "finishing"}
        /\ \A h \in Generations \ {g} : gen'[h] = gen[h]
    <3>1. calls + 1 \in 0 .. MaxCalls
      BY <2>1 DEF TypeOK
    <3> QED
      BY <1>4, <3>1 DEF CallProvider, GenGoes, TypeOK, GenRecord
  <2>3. \A h \in Generations \ {g} : ~Working(h)
    BY <2>1 DEF Counted, Working
  <2>4. TypeOK'
    BY <2>1, <2>2 DEF TypeOK, dbVars, Reserved, GenRecord
  <2>5. Counted'
    BY <2>1, <2>2, CountedSame DEF Working
  <2>6. Reserved'
    BY <2>1, <2>2, <2>3 DEF Reserved, Working, TypeOK
  <2>7. Remembered'
    <3>1. successes < usage.attempts
      BY <2>1 DEF Remembered, InFlight
    <3> QED
      BY <2>1, <2>2, <3>1 DEF Remembered, InFlight, Attempts, dbVars
  <2> QED
    BY <2>4, <2>5, <2>6, <2>7 DEF IInv
<1>5. CASE ReplaceAIMissions(g)
  <2>1. /\ gen[g].phase = "storing" /\ gen' = [gen EXCEPT ![g].phase = "finishing"]
        /\ UNCHANGED <<game, dealt, usage, trans, calls, spent>>
        /\ \/ UNCHANGED <<catalogue, successes>>
           \/ catalogue' = gen[g].missions /\ successes' = successes + 1
    BY <1>5 DEF ReplaceAIMissions, GenGoes
  <2>2. /\ gen'[g].phase = "finishing"
        /\ \A h \in Generations \ {g} : gen'[h] = gen[h]
    BY <2>1 DEF TypeOK
  <2>3. /\ successes < usage.attempts /\ usage.attempts <= MaxAttempts
        /\ \A h \in Generations \ {g} : ~Working(h)
    BY <2>1 DEF Remembered, InFlight, Counted, Working, TypeOK
  <2>4. TypeOK'
    BY <2>1 DEF TypeOK
  <2>5. Counted'
    BY <2>1, <2>2, CountedSame DEF Working
  <2>6. Reserved'
    BY <2>1, <2>2 DEF Reserved
  <2>7. Remembered'
    <3>1. /\ successes' \in Nat /\ successes' <= usage.attempts
          /\ successes' <= MaxAttempts
      BY <1>0, <2>1, <2>3 DEF TypeOK
    <3>2. \A h \in Generations : usage.attempts <= Attempts(h) /\ Attempts(h) \in Nat
      BY <1>0, LargerBounds DEF Attempts
    <3>3. \A h \in Generations : successes' <= Attempts(h)
      BY <1>0, <3>1, <3>2
    <3>4. \A h \in Generations : ~InFlight(h)'
      BY <2>2, <2>3 DEF Working, InFlight
    <3>5. \A h \in Generations \ {g} : Attempts(h)' = Attempts(h)
      BY <2>1, <2>2 DEF Attempts
    <3> QED
      BY <2>2, <3>1, <3>3, <3>4, <3>5 DEF Remembered
  <2> QED
    BY <2>4, <2>5, <2>6, <2>7 DEF IInv
<1>6. CASE FinishAIGeneration(g)
  <2>1. /\ gen[g].phase = "finishing" /\ gen' = [gen EXCEPT ![g].phase = "idle"]
        /\ usage' = [usage EXCEPT !.generating = FALSE]
        /\ UNCHANGED <<dbVars, trans, calls, spent>>
    BY <1>6 DEF FinishAIGeneration, GenGoes
  <2>2. /\ gen'[g].phase = "idle"
        /\ \A h \in Generations \ {g} : gen'[h] = gen[h]
        /\ usage'.attempts = usage.attempts /\ usage'.transitions = usage.transitions
    BY <2>1 DEF TypeOK
  <2>3. TypeOK'
    BY <2>1 DEF TypeOK, dbVars
  <2>4. \A h \in Generations : ~Working(h)'
    BY <2>1, <2>2 DEF Counted, Working
  <2>5. Changing' = Changing
    BY <2>1 DEF Changing
  <2>6. Counted'
    BY <2>2, <2>4, <2>5 DEF Counted
  <2>7. Reserved' /\ Remembered'
    BY <2>1, <2>2 DEF Reserved, Remembered, InFlight, Attempts, dbVars
  <2> QED
    BY <2>3, <2>6, <2>7 DEF IInv
<1> QED
  BY <1>1, <1>2, <1>3, <1>4, <1>5, <1>6 DEF Generate

LEMMA StartOrEndKeeps ==
  ASSUME IInv, NEW t \in Transitions, StartOrEnd(t)
  PROVE  IInv'
<1> USE NumbersAssumption
<1> TypeOK /\ Counted /\ Reserved /\ Remembered
  BY DEF IInv
<1>1. ASSUME UNCHANGED <<catalogue, successes, gen, calls, spent>>,
             usage'.attempts = usage.attempts, TypeOK', Counted'
      PROVE  IInv'
  BY <1>1 DEF IInv, Reserved, Remembered, InFlight, Attempts
<1>2. CASE \E target \in {"playing", "ended"} : AskTransition(t, target)
  <2>1. PICK target \in {"playing", "ended"} :
          trans' = [trans EXCEPT ![t] = [phase |-> "asked", target |-> target]]
    BY <1>2 DEF AskTransition
  <2>2. trans[t].phase = "idle" /\ UNCHANGED <<dbVars, usage, gen, calls, spent>>
    BY <1>2 DEF AskTransition
  <2>3. TypeOK'
    BY <2>1, <2>2 DEF TypeOK, dbVars
  <2>4. Changing' = Changing
    BY <2>1, <2>2 DEF Changing, TypeOK
  <2>5. Counted'
    BY <2>2, <2>4 DEF Counted, Working
  <2> QED
    BY <1>1, <2>2, <2>3, <2>5 DEF dbVars
<1>3. CASE BeginGameTransition(t)
  <2>1. trans[t].phase = "asked" /\ UNCHANGED <<dbVars, gen, calls, spent>>
    BY <1>3 DEF BeginGameTransition
  <2>2. CASE TransGoes(t, "idle") /\ UNCHANGED usage
    <3>1. TypeOK'
      BY <2>1, <2>2 DEF TypeOK, dbVars, TransGoes
    <3>2. Changing' = Changing
      BY <2>1, <2>2 DEF Changing, TypeOK, TransGoes
    <3>3. Counted'
      BY <2>1, <2>2, <3>2 DEF Counted, Working
    <3> QED
      BY <1>1, <2>1, <2>2, <3>1, <3>3 DEF dbVars
  <2>3. CASE /\ TransitionBegins /\ TransGoes(t, "changing")
             /\ usage' = [usage EXCEPT !.transitions = @ + 1]
    <3>1. /\ usage'.transitions = usage.transitions + 1
          /\ usage'.attempts = usage.attempts
          /\ usage'.generating = usage.generating
          /\ TypeOK'
      BY <2>1, <2>3 DEF TypeOK, dbVars, TransGoes
    <3>2. Changing' = Changing \cup {t} /\ t \notin Changing
      BY <2>1, <2>3 DEF Changing, TypeOK, TransGoes
    <3>3. Cardinality(Changing') = Cardinality(Changing) + 1
      BY <3>2, ChangingFinite, FS_AddElement
    <3>4. \A g \in Generations : ~Working(g)
      BY <2>3 DEF Counted, TransitionBegins
    <3>5. Counted'
      BY <2>1, <3>1, <3>3, <3>4 DEF Counted, Working
    <3> QED
      BY <1>1, <2>1, <3>1, <3>5 DEF dbVars
  <2> QED
    BY <1>3, <2>2, <2>3 DEF BeginGameTransition
<1>4. CASE Transition(t)
  <2>1. /\ trans[t].phase = "changing" /\ TransGoes(t, "finishing")
        /\ UNCHANGED <<catalogue, successes, usage, gen, calls, spent>>
        /\ game' \in {game, trans[t].target} /\ dealt' \in {dealt, catalogue}
    BY <1>4 DEF Transition
  <2>2. TypeOK'
    BY <2>1 DEF TypeOK, TransGoes
  <2>3. Changing' = Changing
    BY <2>1 DEF Changing, TypeOK, TransGoes
  <2>4. Counted'
    BY <2>1, <2>3 DEF Counted, Working
  <2> QED
    BY <1>1, <2>1, <2>2, <2>4
<1>5. CASE FinishGameTransition(t)
  <2>1. /\ trans[t].phase = "finishing" /\ TransGoes(t, "idle")
        /\ usage' = [usage EXCEPT !.transitions = IF @ > 0 THEN @ - 1 ELSE @]
        /\ UNCHANGED <<dbVars, gen, calls, spent>>
    BY <1>5 DEF FinishGameTransition
  <2>2. t \in Changing /\ Changing' = Changing \ {t}
    BY <2>1 DEF Changing, TypeOK, TransGoes
  <2>3. /\ usage.transitions > 0
        /\ Cardinality(Changing') = usage.transitions - 1
    BY <2>2, ChangingFinite, FS_RemoveElement DEF Counted
  <2>4. /\ usage'.transitions = usage.transitions - 1
        /\ usage'.attempts = usage.attempts
        /\ usage'.generating = usage.generating
        /\ TypeOK'
    BY <2>1, <2>3 DEF TypeOK, dbVars, TransGoes
  <2>5. Counted'
    BY <2>1, <2>2, <2>3, <2>4 DEF Counted, Working
  <2> QED
    BY <1>1, <2>1, <2>4, <2>5 DEF dbVars
<1> QED
  BY <1>2, <1>3, <1>4, <1>5 DEF StartOrEnd

LEMMA NextIInv == IInv /\ [Next]_vars => IInv'
<1> SUFFICES ASSUME IInv, [Next]_vars PROVE IInv'
  OBVIOUS
<1> USE NumbersAssumption
<1> TypeOK /\ Counted /\ Reserved /\ Remembered
  BY DEF IInv
<1>1. ASSUME NEW g \in Generations, Generate(g) PROVE IInv'
  BY <1>1, GenerateKeeps
<1>2. ASSUME NEW t \in Transitions, StartOrEnd(t) PROVE IInv'
  BY <1>2, StartOrEndKeeps
<1>3. CASE AIMissionsStatus
  <2>1. PICK persisted \in 0 .. successes :
          usage' = [usage EXCEPT !.attempts = Larger(@, persisted)]
    BY <1>3 DEF AIMissionsStatus
  <2>2. UNCHANGED <<dbVars, gen, trans, calls, spent>>
    BY <1>3 DEF AIMissionsStatus
  <2>3. /\ usage'.attempts \in 0 .. MaxAttempts
        /\ usage.attempts <= usage'.attempts
        /\ usage'.generating = usage.generating
        /\ usage'.transitions = usage.transitions
    BY <2>1, LargerBounds DEF TypeOK, Remembered
  <2>4. TypeOK'
    BY <2>1, <2>2, <2>3 DEF TypeOK, dbVars
  <2>5. Counted'
    BY <2>2, <2>3, CountedSame DEF Working
  <2>6. Reserved'
    BY <2>2, <2>3 DEF Reserved, TypeOK
  <2>7. \A g \in Generations :
          /\ Attempts(g) \in Nat /\ Attempts(g)' \in Nat
          /\ Attempts(g) <= Attempts(g)'
    <3>1. ASSUME NEW g \in Generations
          PROVE  gen[g].persisted \in Nat /\ gen'[g].persisted = gen[g].persisted
      BY <2>2 DEF TypeOK
    <3>2. \A a, b, p \in Nat : a <= b =>
            /\ Larger(a, p) \in Nat /\ Larger(b, p) \in Nat
            /\ Larger(a, p) <= Larger(b, p)
      BY DEF Larger
    <3>3. usage.attempts \in Nat /\ usage'.attempts \in Nat
      BY <2>3 DEF TypeOK
    <3> QED
      BY <2>3, <3>1, <3>2, <3>3 DEF Attempts
  <2>8. Remembered'
    <3>1. successes' = successes /\ gen' = gen /\ successes \in Nat
      BY <2>2 DEF dbVars, TypeOK
    <3>2. usage.attempts \in Nat
      BY DEF TypeOK
    <3> QED
      BY <2>3, <2>7, <3>1, <3>2 DEF Remembered, InFlight
  <2> QED
    BY <2>4, <2>5, <2>6, <2>8 DEF IInv
<1>4. CASE FinishDueGame
  <2>1. UNCHANGED <<catalogue, successes, dealt, usage, gen, trans, calls, spent>>
        /\ game' = "ended"
    BY <1>4 DEF FinishDueGame
  <2>2. TypeOK' /\ Counted'
    BY <2>1, CountedSame DEF TypeOK, Working
  <2> QED
    BY <2>1, <2>2 DEF IInv, Reserved, Remembered, InFlight, Attempts
<1>5. CASE Restart
  <2>1. /\ usage' = Fresh
        /\ gen' = [g \in Generations |-> IdleGen]
        /\ trans' = [t \in Transitions |-> IdleTrans]
        /\ spent' = 0
        /\ UNCHANGED <<dbVars, calls>>
    BY <1>5 DEF Restart
  <2>2. TypeOK'
    BY <2>1 DEF TypeOK, dbVars, Fresh, IdleGen, IdleTrans
  <2>3. Changing' = {}
    BY <2>1 DEF Changing, IdleTrans
  <2>4. Counted'
    BY <2>1, <2>3, FS_EmptySet DEF Counted, Working, Fresh, IdleGen
  <2>5. Reserved' /\ Remembered'
    BY <2>1 DEF Reserved, Remembered, InFlight, Fresh, IdleGen, TypeOK, dbVars
  <2> QED
    BY <2>2, <2>4, <2>5 DEF IInv
<1>6. CASE UNCHANGED vars
  <2>1. TypeOK' /\ Counted'
    BY <1>6, CountedSame DEF vars, dbVars, TypeOK, Working
  <2> QED
    BY <1>6, <2>1 DEF vars, dbVars, IInv, Reserved, Remembered, InFlight, Attempts
<1> QED
  BY <1>1, <1>2, <1>3, <1>4, <1>5, <1>6 DEF Next

LEMMA Invariance == Spec => []IInv
BY InitIInv, NextIInv, PTL DEF Spec

(* Rows, counters and requests keep the values the code gives them: no     *)
(* attempt beyond the limit is ever counted in memory.                     *)
THEOREM TypeCorrect == Spec => []TypeOK
<1>1. IInv => TypeOK
  BY DEF IInv
<1> QED
  BY <1>1, Invariance, PTL

(* One generation at a time, and no start or end while the provider is     *)
(* called or its missions stored, for any number of overlapping requests.  *)
THEOREM MutualExclusion == Spec => []OneAtATime
<1>1. IInv => OneAtATime
  BY DEF IInv, Counted, OneAtATime, Working, Changing
<1> QED
  BY <1>1, Invariance, PTL

(* A process pays for at most MaxAttempts calls, and a game has at most    *)
(* MaxAttempts successful generations over all the processes that served   *)
(* it, although the events are counted before the mutex is taken.          *)
THEOREM LimitHolds == Spec => []LimitSurvivesRestart
<1>1. IInv => LimitSurvivesRestart
  <2> SUFFICES ASSUME IInv PROVE LimitSurvivesRestart
    OBVIOUS
  <2>1. /\ spent \in Nat /\ usage.attempts \in Nat /\ spent <= usage.attempts
        /\ usage.attempts <= MaxAttempts /\ MaxAttempts \in Nat
    BY NumbersAssumption DEF IInv, TypeOK, Reserved
  <2> QED
    BY <2>1 DEF IInv, Remembered, LimitSurvivesRestart
<1> QED
  BY <1>1, Invariance, PTL

(* No generation replaces the catalogue of a game that has started.        *)
THEOREM CatalogueIsFixed == Spec => []CatalogueFixedAtStart
<1>1. Init => CatalogueFixedAtStart
  BY DEF Init, CatalogueFixedAtStart
<1>2. CatalogueFixedAtStart /\ [Next]_vars => CatalogueFixedAtStart'
  <2> SUFFICES ASSUME CatalogueFixedAtStart, [Next]_vars
               PROVE  CatalogueFixedAtStart'
    OBVIOUS
  <2>1. CASE \E g \in Generations : ReplaceAIMissions(g)
    BY <2>1 DEF ReplaceAIMissions, Replaceable, CatalogueFixedAtStart
  <2>2. CASE \E t \in Transitions : Transition(t)
    BY <2>2 DEF Transition, CatalogueFixedAtStart
  <2>3. CASE FinishDueGame
    BY <2>3 DEF FinishDueGame, CatalogueFixedAtStart
  <2>4. CASE UNCHANGED dbVars
    BY <2>4 DEF dbVars, CatalogueFixedAtStart
  <2>5. \/ \E g \in Generations : ReplaceAIMissions(g)
        \/ \E t \in Transitions : Transition(t)
        \/ FinishDueGame
        \/ UNCHANGED dbVars
    BY DEF Next, Generate, LookAtGame, CountEvents, BeginAIGeneration, CallProvider,
           FinishAIGeneration, StartOrEnd, AskTransition, BeginGameTransition,
           FinishGameTransition, AIMissionsStatus, Restart, vars
  <2> QED
    BY <2>1, <2>2, <2>3, <2>4, <2>5
<1> QED
  BY <1>1, <1>2, PTL DEF Spec

===============================================================================
