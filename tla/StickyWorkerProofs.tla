------------------------- MODULE StickyWorkerProofs -------------------------
(***************************************************************************)
(* Proofs about the workers' cache.  First, what a parked Execution has    *)
(* made of the signals it was fed, whatever the workflow code.  Then, for  *)
(* straight workflow functions, that it cannot be told from a replay: the  *)
(* function takes one course, of which history records a part and a cached *)
(* Execution has come a part; both go on to where it rests.  What it rests *)
(* for has been asked for, so an open run has something coming.            *)
(***************************************************************************)
EXTENDS StickyWorker, WellFoundedInduction, FiniteSetTheorems, TLAPS

-----------------------------------------------------------------------------
(* Numbers, sequences.                                                     *)

(* Induction over the naturals, for the members of a set.                  *)
LEMMA AllNaturals ==
    ASSUME NEW S, 0 \in S, \A n \in S \cap Nat : n + 1 \in S
    PROVE  Nat \subseteq S
<1> DEFINE R == {ss \in Nat \X Nat : ss[1] < ss[2]}
           Bad == Nat \ S
<1>1. IsWellFoundedOn(R, Nat)
  BY NatLessThanWellFounded, Zenon DEF OpToRel
<1> SUFFICES ASSUME Bad # {} PROVE FALSE
  OBVIOUS
<1>2. PICK n \in Bad : \A k \in Bad : ~(<<k, n>> \in R)
  BY <1>1, WFMin
<1>3. n \in Nat /\ n # 0 /\ n - 1 \in Nat
  BY <1>2
<1>4. <<n - 1, n>> \in R
  BY <1>3
<1>5. n - 1 \in S
  BY <1>2, <1>3, <1>4
<1>6. n - 1 + 1 \in S
  BY <1>3, <1>5
<1> QED
  BY <1>2, <1>3, <1>6

-----------------------------------------------------------------------------
(* The recursive functions of the interpreter exist.                       *)

(* LoadHistory, event by event.                                            *)
Scans(f, e, h, k) ==
    f = [n \in 0 .. k |-> IF n = 0 THEN e ELSE Scan(f[n - 1], h[n])]

LEMMA ScansExist ==
    ASSUME NEW e, NEW h, NEW N \in Nat
    PROVE  \E f : Scans(f, e, h, N)
<1> DEFINE Is(f, k) == f = [n \in 0 .. k |-> IF n = 0 THEN e ELSE Scan(f[n - 1], h[n])]
           S == {k \in Nat : \E f : Is(f, k)}
<1>1. 0 \in S
  <2>1. PICK f : f = [n \in 0 .. 0 |-> e]
    OBVIOUS
  <2>2. Is(f, 0)
    BY <2>1
  <2> QED
    BY <2>2
<1>2. ASSUME NEW k \in S \cap Nat PROVE k + 1 \in S
  <2>1. PICK f : Is(f, k)
    BY <1>2
  <2>2. PICK v : v = Scan(f[k], h[k + 1])
    OBVIOUS
  <2>3. PICK g : g = [n \in 0 .. k + 1 |-> IF n <= k THEN f[n] ELSE v]
    OBVIOUS
  <2>4. \A n \in 0 .. k : g[n] = f[n]
    BY <2>3
  <2>5. ASSUME NEW n \in 0 .. k + 1
        PROVE  g[n] = IF n = 0 THEN e ELSE Scan(g[n - 1], h[n])
    <3>1. CASE n = 0
      BY <2>1, <2>4, <3>1
    <3>2. CASE n \in 1 .. k
      <4>1. g[n] = f[n] /\ g[n - 1] = f[n - 1]
        BY <2>4, <3>2
      <4>2. f[n] = Scan(f[n - 1], h[n])
        BY <2>1, <3>2
      <4> QED
        BY <3>2, <4>1, <4>2
    <3>3. CASE n = k + 1
      <4>1. g[n] = v /\ g[n - 1] = f[k] /\ n # 0
        BY <2>3, <2>4, <3>3
      <4> QED
        BY <2>2, <3>3, <4>1
    <3> QED
      BY <3>1, <3>2, <3>3
  <2>6. Is(g, k + 1)
    BY <2>3, <2>5
  <2>7. k + 1 \in Nat
    OBVIOUS
  <2> QED
    BY <2>6, <2>7
<1> HIDE DEF S
<1>3. N \in S
  BY <1>1, <1>2, AllNaturals
<1> QED
  BY <1>3 DEF S, Scans

(* LoadNewEvents, event by event.                                          *)
Observations(f, e, h, k) ==
    f = [n \in 0 .. k |-> IF n = 0 THEN e ELSE Observe(f[n - 1], h[n])]

LEMMA ObservationsExist ==
    ASSUME NEW e, NEW h, NEW N \in Nat
    PROVE  \E f : Observations(f, e, h, N)
<1> DEFINE Is(f, k) == f = [n \in 0 .. k |-> IF n = 0 THEN e ELSE Observe(f[n - 1], h[n])]
           S == {k \in Nat : \E f : Is(f, k)}
<1>1. 0 \in S
  <2>1. PICK f : f = [n \in 0 .. 0 |-> e]
    OBVIOUS
  <2>2. Is(f, 0)
    BY <2>1
  <2> QED
    BY <2>2
<1>2. ASSUME NEW k \in S \cap Nat PROVE k + 1 \in S
  <2>1. PICK f : Is(f, k)
    BY <1>2
  <2>2. PICK v : v = Observe(f[k], h[k + 1])
    OBVIOUS
  <2>3. PICK g : g = [n \in 0 .. k + 1 |-> IF n <= k THEN f[n] ELSE v]
    OBVIOUS
  <2>4. \A n \in 0 .. k : g[n] = f[n]
    BY <2>3
  <2>5. ASSUME NEW n \in 0 .. k + 1
        PROVE  g[n] = IF n = 0 THEN e ELSE Observe(g[n - 1], h[n])
    <3>1. CASE n = 0
      BY <2>1, <2>4, <3>1
    <3>2. CASE n \in 1 .. k
      <4>1. g[n] = f[n] /\ g[n - 1] = f[n - 1]
        BY <2>4, <3>2
      <4>2. f[n] = Observe(f[n - 1], h[n])
        BY <2>1, <3>2
      <4> QED
        BY <3>2, <4>1, <4>2
    <3>3. CASE n = k + 1
      <4>1. g[n] = v /\ g[n - 1] = f[k] /\ n # 0
        BY <2>3, <2>4, <3>3
      <4> QED
        BY <2>2, <3>3, <4>1
    <3> QED
      BY <3>1, <3>2, <3>3
  <2>6. Is(g, k + 1)
    BY <2>3, <2>5
  <2>7. k + 1 \in Nat
    OBVIOUS
  <2> QED
    BY <2>6, <2>7
<1> HIDE DEF S
<1>3. N \in S
  BY <1>1, <1>2, AllNaturals
<1> QED
  BY <1>3 DEF S, Observations

(* One more step of coroutine k, if it can go on.                          *)
Onward(f, k) == IF Parked(Prog, f, k) THEN f ELSE Step(Prog, f, k)

(* Resume, step by step.                                                   *)
Runs(f, e, j, k) ==
    f = [n \in 0 .. k |-> IF n = 0 THEN e ELSE Onward(f[n - 1], j)]

LEMMA RunsExist ==
    ASSUME NEW e, NEW j, NEW N \in Nat
    PROVE  \E f : Runs(f, e, j, N)
<1> DEFINE Is(f, k) == f = [n \in 0 .. k |-> IF n = 0 THEN e ELSE Onward(f[n - 1], j)]
           S == {k \in Nat : \E f : Is(f, k)}
<1>1. 0 \in S
  <2>1. PICK f : f = [n \in 0 .. 0 |-> e]
    OBVIOUS
  <2>2. Is(f, 0)
    BY <2>1
  <2> QED
    BY <2>2
<1>2. ASSUME NEW k \in S \cap Nat PROVE k + 1 \in S
  <2>1. PICK f : Is(f, k)
    BY <1>2
  <2>2. PICK v : v = Onward(f[k], j)
    OBVIOUS
  <2>3. PICK g : g = [n \in 0 .. k + 1 |-> IF n <= k THEN f[n] ELSE v]
    OBVIOUS
  <2>4. \A n \in 0 .. k : g[n] = f[n]
    BY <2>3
  <2>5. ASSUME NEW n \in 0 .. k + 1
        PROVE  g[n] = IF n = 0 THEN e ELSE Onward(g[n - 1], j)
    <3>1. CASE n = 0
      BY <2>1, <2>4, <3>1
    <3>2. CASE n \in 1 .. k
      <4>1. g[n] = f[n] /\ g[n - 1] = f[n - 1]
        BY <2>4, <3>2
      <4>2. f[n] = Onward(f[n - 1], j)
        BY <2>1, <3>2
      <4> QED
        BY <3>2, <4>1, <4>2
    <3>3. CASE n = k + 1
      <4>1. g[n] = v /\ g[n - 1] = f[k] /\ n # 0
        BY <2>3, <2>4, <3>3
      <4> QED
        BY <2>2, <3>3, <4>1
    <3> QED
      BY <3>1, <3>2, <3>3
  <2>6. Is(g, k + 1)
    BY <2>3, <2>5
  <2>7. k + 1 \in Nat
    OBVIOUS
  <2> QED
    BY <2>6, <2>7
<1> HIDE DEF S
<1>3. N \in S
  BY <1>1, <1>2, AllNaturals
<1> QED
  BY <1>3 DEF S, Runs

(* Coroutine k has its turn.                                               *)
Turn(f, k) == IF f.co[k].done THEN f ELSE Resume(Prog, f, k)

(* ExecuteRound, coroutine by coroutine.                                   *)
Rounds(f, e, k) ==
    f = [n \in 0 .. k |-> IF n = 0 THEN e ELSE Turn(f[n - 1], n)]

LEMMA RoundsExist ==
    ASSUME NEW e, NEW N \in Nat
    PROVE  \E f : Rounds(f, e, N)
<1> DEFINE Is(f, k) == f = [n \in 0 .. k |-> IF n = 0 THEN e ELSE Turn(f[n - 1], n)]
           S == {k \in Nat : \E f : Is(f, k)}
<1>1. 0 \in S
  <2>1. PICK f : f = [n \in 0 .. 0 |-> e]
    OBVIOUS
  <2>2. Is(f, 0)
    BY <2>1
  <2> QED
    BY <2>2
<1>2. ASSUME NEW k \in S \cap Nat PROVE k + 1 \in S
  <2>1. PICK f : Is(f, k)
    BY <1>2
  <2>2. PICK v : v = Turn(f[k], k + 1)
    OBVIOUS
  <2>3. PICK g : g = [n \in 0 .. k + 1 |-> IF n <= k THEN f[n] ELSE v]
    OBVIOUS
  <2>4. \A n \in 0 .. k : g[n] = f[n]
    BY <2>3
  <2>5. ASSUME NEW n \in 0 .. k + 1
        PROVE  g[n] = IF n = 0 THEN e ELSE Turn(g[n - 1], n)
    <3>1. CASE n = 0
      BY <2>1, <2>4, <3>1
    <3>2. CASE n \in 1 .. k
      <4>1. g[n] = f[n] /\ g[n - 1] = f[n - 1]
        BY <2>4, <3>2
      <4>2. f[n] = Turn(f[n - 1], n)
        BY <2>1, <3>2
      <4> QED
        BY <3>2, <4>1, <4>2
    <3>3. CASE n = k + 1
      <4>1. g[n] = v /\ g[n - 1] = f[k] /\ n # 0
        BY <2>3, <2>4, <3>3
      <4> QED
        BY <2>2, <3>3, <4>1
    <3> QED
      BY <3>1, <3>2, <3>3
  <2>6. Is(g, k + 1)
    BY <2>3, <2>5
  <2>7. k + 1 \in Nat
    OBVIOUS
  <2> QED
    BY <2>6, <2>7
<1> HIDE DEF S
<1>3. N \in S
  BY <1>1, <1>2, AllNaturals
<1> QED
  BY <1>3 DEF S, Rounds

LEMMA HistoryLoads ==
    ASSUME NEW e, NEW h, Len(h) \in Nat
    PROVE  \E f : Scans(f, e, h, Len(h)) /\ LoadHistory(e, h) = f[Len(h)]
<1> DEFINE F == CHOOSE f : f = [n \in 0 .. Len(h) |-> IF n = 0 THEN e ELSE Scan(f[n - 1], h[n])]
<1>1. PICK N \in Nat : N = Len(h)
  OBVIOUS
<1>2. \E f : Scans(f, e, h, N)
  BY ScansExist
<1>3. F = [n \in 0 .. Len(h) |-> IF n = 0 THEN e ELSE Scan(F[n - 1], h[n])]
  BY <1>1, <1>2 DEF Scans
<1>4. LoadHistory(e, h) = F[Len(h)]
  BY DEF LoadHistory
<1> QED
  BY <1>3, <1>4 DEF Scans

LEMMA NewEventsLoad ==
    ASSUME NEW e, NEW h, Len(h) \in Nat
    PROVE  \E f : Observations(f, e, h, Len(h)) /\ LoadNewEvents(e, h) = f[Len(h)]
<1> DEFINE F == CHOOSE f : f = [n \in 0 .. Len(h) |-> IF n = 0 THEN e ELSE Observe(f[n - 1], h[n])]
<1>1. PICK N \in Nat : N = Len(h)
  OBVIOUS
<1>2. \E f : Observations(f, e, h, N)
  BY ObservationsExist
<1>3. F = [n \in 0 .. Len(h) |-> IF n = 0 THEN e ELSE Observe(F[n - 1], h[n])]
  BY <1>1, <1>2 DEF Observations
<1>4. LoadNewEvents(e, h) = F[Len(h)]
  BY DEF LoadNewEvents
<1> QED
  BY <1>3, <1>4 DEF Observations

Most(e, k) == 2 * Len(Prog[e.co[k].body]) + 1

LEMMA CoroutineRuns ==
    ASSUME NEW e, NEW k, Most(e, k) \in Nat, e.co[k].body # Pump
    PROVE  \E f : Runs(f, e, k, Most(e, k)) /\ Resume(Prog, e, k) = f[Most(e, k)]
<1> DEFINE F == CHOOSE f : f = [n \in 0 .. Most(e, k) |-> IF n = 0 THEN e ELSE Onward(f[n - 1], k)]
<1>1. PICK N \in Nat : N = Most(e, k)
  OBVIOUS
<1>2. \E f : Runs(f, e, k, N)
  BY RunsExist
<1>3. F = [n \in 0 .. Most(e, k) |-> IF n = 0 THEN e ELSE Onward(F[n - 1], k)]
  BY <1>1, <1>2 DEF Runs
<1>4. Resume(Prog, e, k) = F[Most(e, k)]
  BY DEF Resume, Most, Onward
<1> QED
  BY <1>3, <1>4 DEF Runs

LEMMA RoundRuns ==
    ASSUME NEW e, Len(e.co) \in Nat
    PROVE  \E f : Rounds(f, e, Len(e.co)) /\ ExecuteRound(Prog, e) = f[Len(e.co)]
<1> DEFINE F == CHOOSE f : f = [n \in 0 .. Len(e.co) |-> IF n = 0 THEN e ELSE Turn(f[n - 1], n)]
<1>1. PICK N \in Nat : N = Len(e.co)
  OBVIOUS
<1>2. \E f : Rounds(f, e, N)
  BY RoundsExist
<1>3. F = [n \in 0 .. Len(e.co) |-> IF n = 0 THEN e ELSE Turn(F[n - 1], n)]
  BY <1>1, <1>2 DEF Rounds
<1>4. ExecuteRound(Prog, e) = F[Len(e.co)]
  BY DEF ExecuteRound, Turn
<1> QED
  BY <1>3, <1>4 DEF Rounds

-----------------------------------------------------------------------------
(* What an Execution is made of.                                           *)

IsTable(s) == s \in Seq({s[i] : i \in DOMAIN s})

LEMMA TableIs ==
    ASSUME NEW s, IsTable(s)
    PROVE  Len(s) \in Nat /\ DOMAIN s = 1 .. Len(s)
BY DEF IsTable

LEMMA PartIs ==
    ASSUME NEW s, IsTable(s), NEW a \in Nat \ {0}, NEW b \in 0 .. Len(s)
    PROVE  IsTable(SubSeq(s, a, b))
<1> DEFINE t == SubSeq(s, a, b)
<1>1. s \in Seq({s[i] : i \in DOMAIN s}) /\ Len(s) \in Nat /\ DOMAIN s = 1 .. Len(s)
  BY DEF IsTable
<1>2. Len(t) \in Nat /\ DOMAIN t = 1 .. Len(t) /\ t = [i \in 1 .. Len(t) |-> s[a + i - 1]]
  BY <1>1
<1> HIDE DEF t
<1>3. t \in Seq({t[i] : i \in DOMAIN t})
  BY <1>2
<1> QED
  BY <1>3 DEF IsTable, t

LEMMA SeqOfMore ==
    ASSUME NEW S, NEW T, S \subseteq T, NEW s \in Seq(S)
    PROVE  s \in Seq(T)
OBVIOUS

LEMMA TableAppend ==
    ASSUME NEW s, IsTable(s), NEW e
    PROVE  /\ IsTable(Append(s, e)) /\ Len(Append(s, e)) = Len(s) + 1
           /\ \A i \in 1 .. Len(s) : Append(s, e)[i] = s[i]
           /\ Append(s, e)[Len(s) + 1] = e
<1> DEFINE S == {s[i] : i \in DOMAIN s}
           T == S \cup {e}
           a == Append(s, e)
<1>1. s \in Seq(T)
  BY SeqOfMore DEF IsTable
<1> HIDE DEF S, T
<1>2. e \in T
  BY DEF T
<1>3. a \in Seq(T) /\ Len(a) = Len(s) + 1 /\ DOMAIN a = 1 .. (Len(s) + 1)
      /\ (\A i \in 1 .. Len(s) : a[i] = s[i]) /\ a[Len(s) + 1] = e
      /\ Len(s) \in Nat /\ DOMAIN s = 1 .. Len(s)
  BY <1>1, <1>2
<1> HIDE DEF a
<1>4. T = {a[i] : i \in DOMAIN a}
  BY <1>3 DEF T, S
<1> QED
  BY <1>3, <1>4 DEF IsTable, a

LEMMA TableUpdate ==
    ASSUME NEW s, IsTable(s), NEW r \in DOMAIN s, NEW v
    PROVE  LET a == [s EXCEPT ![r] = v]
           IN  /\ IsTable(a) /\ Len(a) = Len(s) /\ DOMAIN a = DOMAIN s /\ a[r] = v
               /\ \A i \in DOMAIN s : i # r => a[i] = s[i]
<1> DEFINE a == [s EXCEPT ![r] = v]
           T == {a[i] : i \in DOMAIN a}
<1>1. Len(s) \in Nat /\ DOMAIN s = 1 .. Len(s)
  BY TableIs
<1>2. a = [i \in 1 .. Len(s) |-> IF i = r THEN v ELSE s[i]]
  BY <1>1 DEF IsTable
<1>3. DOMAIN a = 1 .. Len(s) /\ a[r] = v /\ \A i \in DOMAIN s : i # r => a[i] = s[i]
  BY <1>1, <1>2
<1> HIDE DEF a
<1>4. a \in Seq(T) /\ Len(a) = Len(s)
  BY <1>1, <1>2, <1>3
<1> QED
  BY <1>1, <1>3, <1>4 DEF IsTable, a

ExecutionFields ==
    {"co", "scheduledActivities", "scheduledTimers", "outcomes", "fired", "nextActivity",
     "nextTimer", "cancelRequested", "handler", "pump", "pendingSignals", "handled",
     "commands", "returned", "panicked"}

IsRecord(e) == DOMAIN e = ExecutionFields /\ IsTable(e.commands)

IsCoroutine(c) ==
    /\ DOMAIN c = {"body", "pc", "futures", "timer", "done"}
    /\ c.body \in {Pump} \cup DOMAIN Prog /\ c.pc \in Nat \ {0}

IsExecution(e) ==
    /\ IsRecord(e) /\ IsTable(e.co)
    /\ \A k \in DOMAIN e.co : IsCoroutine(e.co[k])

(* Every coroutine of e is in f, and only k may have moved.                *)
Moves(e, f, k) ==
    /\ IsExecution(f) /\ DOMAIN e.co \subseteq DOMAIN f.co
    /\ \A j \in DOMAIN e.co : f.co[j].body = e.co[j].body /\ (j # k => f.co[j] = e.co[j])

SameSignals(e, f) ==
    /\ f.handler = e.handler /\ f.pump = e.pump
    /\ f.pendingSignals = e.pendingSignals /\ f.handled = e.handled

LEMMA MovesOn ==
    ASSUME NEW e, NEW f, NEW g, NEW k, Moves(e, f, k), Moves(f, g, k)
    PROVE  Moves(e, g, k)
<1>1. IsExecution(g) /\ DOMAIN e.co \subseteq DOMAIN g.co
  BY DEF Moves
<1>2. ASSUME NEW j \in DOMAIN e.co
      PROVE  g.co[j].body = e.co[j].body /\ (j # k => g.co[j] = e.co[j])
  <2>1. j \in DOMAIN f.co
    BY <1>2 DEF Moves
  <2> QED
    BY <1>2, <2>1 DEF Moves
<1> QED
  BY <1>1, <1>2 DEF Moves

LEMMA SignalsOn ==
    ASSUME NEW e, NEW f, NEW g, SameSignals(e, f), SameSignals(f, g)
    PROVE  SameSignals(e, g)
BY DEF SameSignals

(* Nothing but coroutine k changes, and fields that are not about signals. *)
LEMMA CoroutineMoves ==
    ASSUME NEW e, IsExecution(e), NEW k \in DOMAIN e.co, NEW c, IsCoroutine(c),
           c.body = e.co[k].body, NEW f,
           IsRecord(f), f.co = [e.co EXCEPT ![k] = c]
    PROVE  Moves(e, f, k) /\ f.co[k] = c /\ Len(f.co) = Len(e.co) /\ DOMAIN f.co = DOMAIN e.co
<1>1. PICK s : s = e.co
  OBVIOUS
<1>2. IsTable(s) /\ k \in DOMAIN s
  BY <1>1 DEF IsExecution
<1>3. PICK t : t = [s EXCEPT ![k] = c]
  OBVIOUS
<1>4. /\ IsTable(t) /\ Len(t) = Len(s) /\ DOMAIN t = DOMAIN s /\ t[k] = c
      /\ \A i \in DOMAIN s : i # k => t[i] = s[i]
  <2>1. LET a == [s EXCEPT ![k] = c]
        IN  /\ IsTable(a) /\ Len(a) = Len(s) /\ DOMAIN a = DOMAIN s /\ a[k] = c
            /\ \A i \in DOMAIN s : i # k => a[i] = s[i]
    BY <1>2, TableUpdate, Zenon
  <2> QED
    BY <1>3, <2>1, Zenon
<1>5. f.co = t
  BY <1>1, <1>3
<1>6. \A i \in DOMAIN t : IsCoroutine(t[i])
  BY <1>1, <1>4 DEF IsExecution
<1> HIDE DEF IsCoroutine
<1>7. IsExecution(f)
  BY <1>4, <1>5, <1>6 DEF IsExecution
<1> QED
  BY <1>1, <1>4, <1>5, <1>7 DEF Moves

LEMMA NothingMoves ==
    ASSUME NEW e, IsExecution(e), NEW k, NEW f, IsRecord(f), f.co = e.co
    PROVE  Moves(e, f, k)
BY DEF Moves, IsExecution

-----------------------------------------------------------------------------
(* What one instruction does.                                              *)

(* Coroutine k has moved, nothing was told of signals.                     *)
Quiet(e, f, k) == Moves(e, f, k) /\ SameSignals(e, f)

LEMMA QuietOn ==
    ASSUME NEW e, NEW f, NEW g, NEW k, Quiet(e, f, k), Quiet(f, g, k)
    PROVE  Quiet(e, g, k)
BY MovesOn, SignalsOn, Zenon DEF Quiet

LEMMA QuietCoroutine ==
    ASSUME NEW e, IsExecution(e), NEW k \in DOMAIN e.co, NEW c, IsCoroutine(c),
           c.body = e.co[k].body, NEW f,
           IsRecord(f), f.co = [e.co EXCEPT ![k] = c], SameSignals(e, f)
    PROVE  Quiet(e, f, k)
BY CoroutineMoves, Zenon DEF Quiet

LEMMA QuietFields ==
    ASSUME NEW e, IsExecution(e), NEW k, NEW f, IsRecord(f), f.co = e.co,
           SameSignals(e, f)
    PROVE  Quiet(e, f, k)
BY NothingMoves, Zenon DEF Quiet

LEMMA EmitIsQuiet ==
    ASSUME NEW e, IsExecution(e), NEW k, NEW c
    PROVE  Quiet(e, Emit(e, c), k)
<1>1. IsTable(Append(e.commands, c))
  BY TableAppend DEF IsExecution, IsRecord
<1>2. IsRecord(Emit(e, c)) /\ Emit(e, c).co = e.co /\ SameSignals(e, Emit(e, c))
  BY <1>1 DEF Emit, IsExecution, IsRecord, ExecutionFields, SameSignals
<1> QED
  BY <1>2, QuietFields

LEMMA PanicIsQuiet ==
    ASSUME NEW e, IsExecution(e), NEW k \in DOMAIN e.co
    PROVE  Quiet(e, Panic(e, k), k)
<1> DEFINE c == [e.co[k] EXCEPT !.done = TRUE]
<1>1. IsCoroutine(c) /\ c.body = e.co[k].body
  BY DEF IsExecution, IsCoroutine
<1>2. /\ IsRecord(Panic(e, k)) /\ Panic(e, k).co = [e.co EXCEPT ![k] = c]
      /\ SameSignals(e, Panic(e, k))
  BY DEF Panic, IsExecution, IsRecord, ExecutionFields, SameSignals
<1> QED
  BY <1>1, <1>2, QuietCoroutine

(* A coroutine goes on behind an instruction, or elsewhere.                *)
LEMMA PlaceIsQuiet ==
    ASSUME NEW e, IsExecution(e), NEW k \in DOMAIN e.co, NEW n \in Nat \ {0},
           NEW f, f = [e EXCEPT !.co[k].pc = n]
    PROVE  Quiet(e, f, k)
<1> DEFINE c == [e.co[k] EXCEPT !.pc = n]
<1>1. IsCoroutine(c) /\ c.body = e.co[k].body
  BY DEF IsExecution, IsCoroutine
<1>2. IsRecord(f) /\ f.co = [e.co EXCEPT ![k] = c] /\ SameSignals(e, f)
  BY DEF IsExecution, IsRecord, ExecutionFields, SameSignals
<1> QED
  BY <1>1, <1>2, QuietCoroutine

LEMMA ActivityIsQuiet ==
    ASSUME NEW e, IsExecution(e), NEW k \in DOMAIN e.co, NEW type
    PROVE  Quiet(e, ScheduleActivity(e, k, type), k)
<1> DEFINE id == e.nextActivity + 1
           c == [e.co[k] EXCEPT !.futures = Append(@, id)]
<1>1. IsCoroutine(c) /\ c.body = e.co[k].body
  BY DEF IsExecution, IsCoroutine
<1>2. PICK f : f = [e EXCEPT !.nextActivity = id, !.co[k].futures = Append(@, id)]
  OBVIOUS
<1>3. IsRecord(f) /\ f.co = [e.co EXCEPT ![k] = c] /\ SameSignals(e, f)
  BY <1>2 DEF IsExecution, IsRecord, ExecutionFields, SameSignals
<1> HIDE DEF c
<1>4. Quiet(e, f, k)
  BY <1>1, <1>3, QuietCoroutine
<1>5. IsExecution(f) /\ k \in DOMAIN f.co
  BY <1>4 DEF Quiet, Moves
<1>6. Quiet(f, Panic(f, k), k) /\ \A x : Quiet(f, Emit(f, x), k)
  BY <1>5, PanicIsQuiet, EmitIsQuiet
<1>7. ScheduleActivity(e, k, type)
         \in {f, Panic(f, k), Emit(f, Command("ScheduleActivityTask", id, type))}
  BY <1>2 DEF ScheduleActivity
<1> QED
  BY <1>4, <1>6, <1>7, QuietOn

LEMMA TimerIsQuiet ==
    ASSUME NEW e, IsExecution(e), NEW k \in DOMAIN e.co
    PROVE  Quiet(e, ScheduleTimer(e, k), k)
<1> DEFINE id == e.nextTimer + 1
           c == [e.co[k] EXCEPT !.timer = id]
<1>1. IsCoroutine(c) /\ c.body = e.co[k].body
  BY DEF IsExecution, IsCoroutine
<1>2. PICK f : f = [e EXCEPT !.nextTimer = id, !.co[k].timer = id]
  OBVIOUS
<1>3. IsRecord(f) /\ f.co = [e.co EXCEPT ![k] = c] /\ SameSignals(e, f)
  BY <1>2 DEF IsExecution, IsRecord, ExecutionFields, SameSignals
<1> HIDE DEF c
<1>4. Quiet(e, f, k)
  BY <1>1, <1>3, QuietCoroutine
<1>5. IsExecution(f) /\ k \in DOMAIN f.co
  BY <1>4 DEF Quiet, Moves
<1>6. Quiet(f, Panic(f, k), k) /\ \A x : Quiet(f, Emit(f, x), k)
  BY <1>5, PanicIsQuiet, EmitIsQuiet
<1>7. ScheduleTimer(e, k) \in {f, Panic(f, k), Emit(f, Command("StartTimer", id, 0))}
  BY <1>2 DEF ScheduleTimer
<1> QED
  BY <1>4, <1>6, <1>7, QuietOn

LEMMA FinishIsQuiet ==
    ASSUME NEW e, IsExecution(e), NEW k \in DOMAIN e.co, NEW how
    PROVE  Quiet(e, Finish(e, k, how), k)
<1> DEFINE c == [e.co[k] EXCEPT !.done = TRUE]
<1>1. IsCoroutine(c) /\ c.body = e.co[k].body
  BY DEF IsExecution, IsCoroutine
<1>2. PICK f : f = [e EXCEPT !.co[k].done = TRUE]
  OBVIOUS
<1>3. IsRecord(f) /\ f.co = [e.co EXCEPT ![k] = c] /\ SameSignals(e, f)
  BY <1>2 DEF IsExecution, IsRecord, ExecutionFields, SameSignals
<1> HIDE DEF c
<1>4. Quiet(e, f, k)
  BY <1>1, <1>3, QuietCoroutine
<1>5. PICK g : g = [f EXCEPT !.returned = TRUE]
  OBVIOUS
<1>6. IsExecution(f)
  BY <1>4 DEF Quiet, Moves
<1>7. IsRecord(g) /\ g.co = f.co /\ SameSignals(f, g)
  BY <1>5, <1>6 DEF IsExecution, IsRecord, ExecutionFields, SameSignals
<1>8. Quiet(f, g, k)
  BY <1>6, <1>7, QuietFields
<1>9. IsExecution(g)
  BY <1>8 DEF Quiet, Moves
<1>10. \A x : Quiet(g, Emit(g, x), k)
  BY <1>9, EmitIsQuiet
<1>11. Finish(e, k, how) \in {f, Emit(g, Command(ReturnKind[how], 0, 0))}
  BY <1>2, <1>5 DEF Finish
<1> QED
  BY <1>4, <1>8, <1>10, <1>11, QuietOn

LEMMA ProgramIs ==
    ASSUME NEW b \in DOMAIN Prog
    PROVE  /\ Len(Prog[b]) \in Nat
           /\ \A n \in 1 .. Len(Prog[b]) :
                 /\ Prog[b][n].arg \in Nat
                 /\ Prog[b][n].op = "go" => Prog[b][n].arg \in DOMAIN Prog
                 /\ Prog[b][n].op \in {"onsignal", "oncancel"} => Prog[b][n].arg > n
<1>1. IsProgram(Prog)
  BY WorkerAssumption
<1>2. Prog[b] \in Seq(Instruction)
  BY <1>1 DEF IsProgram
<1>3. Len(Prog[b]) \in Nat /\ DOMAIN Prog[b] = 1 .. Len(Prog[b])
      /\ \A n \in 1 .. Len(Prog[b]) : Prog[b][n] \in Instruction
  BY <1>2
<1>4. \A n \in 1 .. Len(Prog[b]) : Prog[b][n].arg \in Nat
  BY <1>3 DEF Instruction
<1> QED
  BY <1>1, <1>3, <1>4 DEF IsProgram

LEMMA GoIs ==
    ASSUME NEW e, IsExecution(e), NEW k, NEW b \in {Pump} \cup DOMAIN Prog
    PROVE  /\ Moves(e, Go(e, b), k) /\ SameSignals(e, Go(e, b))
           /\ Len(e.co) + 1 \in DOMAIN Go(e, b).co /\ Len(e.co) \in Nat
           /\ Go(e, b).co[Len(e.co) + 1] = Coroutine(b)
<1>1. PICK s, t : s = e.co /\ t = Append(s, Coroutine(b))
  OBVIOUS
<1>2. IsTable(s)
  BY <1>1 DEF IsExecution
<1>3. /\ IsTable(t) /\ Len(t) = Len(s) + 1 /\ \A i \in 1 .. Len(s) : t[i] = s[i]
      /\ t[Len(s) + 1] = Coroutine(b)
  BY <1>1, <1>2, TableAppend
<1>4. Len(s) \in Nat /\ DOMAIN s = 1 .. Len(s) /\ DOMAIN t = 1 .. (Len(s) + 1)
  BY <1>2, <1>3, TableIs
<1>5. IsRecord(Go(e, b)) /\ Go(e, b).co = t /\ SameSignals(e, Go(e, b))
  BY <1>1 DEF Go, IsExecution, IsRecord, ExecutionFields, SameSignals
<1>6. IsCoroutine(Coroutine(b))
  BY DEF IsCoroutine, Coroutine
<1>7. \A i \in DOMAIN t : IsCoroutine(t[i])
  <2> SUFFICES ASSUME NEW i \in DOMAIN t PROVE IsCoroutine(t[i])
    OBVIOUS
  <2>1. CASE i = Len(s) + 1
    BY <1>3, <1>6, <2>1
  <2>2. CASE i \in 1 .. Len(s)
    BY <1>1, <1>3, <1>4, <2>2 DEF IsExecution
  <2> QED
    BY <1>4, <2>1, <2>2
<1>8. IsExecution(Go(e, b))
  BY <1>3, <1>5, <1>7 DEF IsExecution
<1>9. Moves(e, Go(e, b), k)
  BY <1>1, <1>3, <1>4, <1>5, <1>8 DEF Moves
<1> QED
  BY <1>1, <1>3, <1>4, <1>5, <1>9

(* A pump that is still at work.                                           *)
PumpAt(e, p) == p \in DOMAIN e.co /\ e.co[p].body = Pump /\ ~e.co[p].done

(* A handler was set: nothing is pending, and there is a pump.             *)
Registers(e, f) ==
    /\ f.handler /\ f.pump /\ f.pendingSignals = 0
    /\ f.handled = e.handled + e.pendingSignals
    /\ e.pump \/ \E p \in DOMAIN f.co : p \notin DOMAIN e.co /\ PumpAt(f, p)

LEMMA RegistersThrough ==
    ASSUME NEW e, NEW f, NEW g, NEW k, Quiet(e, f, k), Moves(f, g, k), Registers(f, g)
    PROVE  Moves(e, g, k) /\ Registers(e, g)
<1>1. Moves(e, g, k)
  BY MovesOn DEF Quiet
<1>2. DOMAIN e.co \subseteq DOMAIN f.co /\ SameSignals(e, f)
  BY DEF Quiet, Moves
<1> QED
  BY <1>1, <1>2 DEF Registers, SameSignals

LEMMA DrainIs ==
    ASSUME NEW e, IsExecution(e), e.handled \in Nat, e.pendingSignals \in Nat
    PROVE  LET d == DrainSignals(e)
           IN  /\ IsRecord(d) /\ d.co = e.co /\ d.pump = e.pump
               /\ d.handler = e.handler
               /\ e.handler => d.pendingSignals = 0 /\ d.handled = e.handled + e.pendingSignals
               /\ ~e.handler => d = e
<1>1. CASE e.handler
  BY <1>1 DEF DrainSignals, IsExecution, IsRecord, ExecutionFields
<1>2. CASE ~e.handler
  BY <1>2 DEF DrainSignals, IsExecution
<1> QED
  BY <1>1, <1>2

LEMMA HandlerRegisters ==
    ASSUME NEW e, IsExecution(e), NEW k, e.handled \in Nat, e.pendingSignals \in Nat
    PROVE  Moves(e, SetSignalHandler(e), k) /\ Registers(e, SetSignalHandler(e))
<1>1. PICK a : a = [e EXCEPT !.handler = TRUE]
  OBVIOUS
<1>2. /\ IsRecord(a) /\ a.co = e.co /\ a.handler = TRUE /\ a.pump = e.pump
      /\ a.handled = e.handled /\ a.pendingSignals = e.pendingSignals
  BY <1>1 DEF IsExecution, IsRecord, ExecutionFields
<1>3. IsExecution(a)
  BY <1>2 DEF IsExecution
<1>4. PICK d : d = DrainSignals(a)
  OBVIOUS
<1>5. /\ IsRecord(d) /\ d.co = e.co /\ d.pump = e.pump /\ d.handler = TRUE
      /\ d.pendingSignals = 0 /\ d.handled = e.handled + e.pendingSignals
  BY <1>2, <1>3, <1>4, DrainIs
<1>6. CASE e.pump
  <2>1. SetSignalHandler(e) = d
    BY <1>1, <1>4, <1>5, <1>6 DEF SetSignalHandler
  <2>2. Moves(e, d, k)
    BY <1>5, NothingMoves
  <2>3. Registers(e, d)
    BY <1>5, <1>6 DEF Registers
  <2> QED
    BY <2>1, <2>2, <2>3
<1>7. CASE ~e.pump
  <2>1. PICK b : b = [d EXCEPT !.pump = TRUE]
    OBVIOUS
  <2>2. SetSignalHandler(e) = Go(b, Pump)
    BY <1>1, <1>4, <1>5, <1>7, <2>1 DEF SetSignalHandler
  <2>3. /\ IsRecord(b) /\ b.co = e.co /\ b.pump = TRUE /\ b.handler = TRUE
        /\ b.pendingSignals = 0 /\ b.handled = e.handled + e.pendingSignals
    BY <1>5, <2>1 DEF IsRecord, ExecutionFields
  <2>4. IsExecution(b) /\ Moves(e, b, k)
    BY <2>3, NothingMoves DEF IsExecution
  <2>5. PICK g : g = Go(b, Pump)
    OBVIOUS
  <2>6. /\ Moves(b, g, k) /\ SameSignals(b, g) /\ Len(e.co) + 1 \in DOMAIN g.co
        /\ Len(e.co) \in Nat /\ g.co[Len(e.co) + 1] = Coroutine(Pump)
    BY <2>3, <2>4, <2>5, GoIs
  <2>7. Moves(e, g, k)
    BY <2>4, <2>6, MovesOn
  <2>8. Len(e.co) + 1 \notin DOMAIN e.co
    BY TableIs DEF IsExecution
  <2>9. PumpAt(g, Len(e.co) + 1)
    BY <2>6 DEF PumpAt, Coroutine
  <2>10. Registers(e, g)
    BY <2>3, <2>6, <2>8, <2>9 DEF Registers, SameSignals
  <2> QED
    BY <2>2, <2>5, <2>7, <2>10
<1> QED
  BY <1>6, <1>7

(* A coroutine of the workflow function, not the pump.                     *)
Worked(e, k) ==
    IsExecution(e) /\ k \in DOMAIN e.co /\ e.co[k].body # Pump

LEMMA WorkedIs ==
    ASSUME NEW e, NEW k, Worked(e, k)
    PROVE  /\ e.co[k].body \in DOMAIN Prog /\ e.co[k].pc \in Nat \ {0}
           /\ Len(Prog[e.co[k].body]) \in Nat
<1>1. e.co[k].body \in DOMAIN Prog /\ e.co[k].pc \in Nat \ {0}
  BY DEF Worked, IsExecution, IsCoroutine
<1> QED
  BY <1>1, ProgramIs

LEMMA StepIs ==
    ASSUME NEW e, NEW k, Worked(e, k), e.handled \in Nat, e.pendingSignals \in Nat
    PROVE  LET f == Step(Prog, e, k)
           IN  Quiet(e, f, k) \/ (Moves(e, f, k) /\ Registers(e, f))
<1> DEFINE Fine(f) == Quiet(e, f, k) \/ (Moves(e, f, k) /\ Registers(e, f))
<1>1. PICK b, n : b = e.co[k].body /\ n = e.co[k].pc
  OBVIOUS
<1>2. b \in DOMAIN Prog /\ n \in Nat \ {0} /\ Len(Prog[b]) \in Nat
  BY <1>1, WorkedIs
<1>3. IsExecution(e) /\ k \in DOMAIN e.co
  BY DEF Worked
<1>4. \A how : Fine(Finish(e, k, how))
  BY <1>3, FinishIsQuiet
<1>5. CASE n > Len(Prog[b])
  <2>1. Step(Prog, e, k) = Finish(e, k, "complete")
    BY <1>1, <1>5 DEF Step
  <2> QED
    BY <1>4, <2>1
<1>6. CASE n <= Len(Prog[b])
  <2>1. PICK i : i = Prog[b][n]
    OBVIOUS
  <2>2. ~(e.co[k].pc > Len(Prog[e.co[k].body])) /\ i = Prog[e.co[k].body][e.co[k].pc]
    BY <1>1, <1>2, <1>6, <2>1
  <2>3. i.arg \in Nat /\ (i.op = "go" => i.arg \in DOMAIN Prog)
        /\ (i.op \in {"onsignal", "oncancel"} => i.arg > n)
    BY <1>2, <1>6, <2>1, ProgramIs
  <2>4. PICK next : next = [e EXCEPT !.co[k].pc = @ + 1]
    OBVIOUS
  <2>5. Quiet(e, next, k)
    <3>1. next = [e EXCEPT !.co[k].pc = n + 1] /\ n + 1 \in Nat \ {0}
      BY <1>1, <1>2, <2>4
    <3> QED
      BY <1>3, <3>1, PlaceIsQuiet
  <2>6. IsExecution(next) /\ k \in DOMAIN next.co /\ SameSignals(e, next)
    BY <1>3, <2>5 DEF Quiet, Moves
  <2>7. ASSUME NEW f, Quiet(next, f, k) PROVE Fine(f)
    BY <2>5, <2>7, QuietOn
  <2>8. CASE i.op = "activity"
    <3>1. Step(Prog, e, k) = ScheduleActivity(next, k, i.arg)
      BY <2>4, <2>2, <2>8 DEF Step
    <3> QED
      BY <2>6, <2>7, <3>1, ActivityIsQuiet
  <2>9. CASE i.op = "get"
    <3>1. Step(Prog, e, k) \in {Finish(e, k, "fail"), next}
      BY <2>4, <2>2, <2>9 DEF Step
    <3> QED
      BY <1>4, <2>5, <3>1
  <2>10. CASE i.op = "sleep"
    <3>1. PICK g : g = [next EXCEPT !.co[k].timer = 0]
      OBVIOUS
    <3>2. Quiet(next, g, k)
      <4> DEFINE c == [next.co[k] EXCEPT !.timer = 0]
      <4>1. IsCoroutine(c) /\ c.body = next.co[k].body
        BY <2>6 DEF IsExecution, IsCoroutine
      <4>2. IsRecord(g) /\ g.co = [next.co EXCEPT ![k] = c]
            /\ SameSignals(next, g)
        BY <2>6, <3>1 DEF IsExecution, IsRecord, ExecutionFields, SameSignals
      <4> QED
        BY <2>6, <4>1, <4>2, QuietCoroutine
    <3>3. Step(Prog, e, k) \in {ScheduleTimer(e, k), g}
      BY <2>4, <2>2, <2>10, <3>1 DEF Step
    <3>4. Fine(ScheduleTimer(e, k))
      BY <1>3, TimerIsQuiet
    <3> QED
      BY <2>7, <3>2, <3>3, <3>4
  <2>11. CASE i.op = "go"
    <3>1. Step(Prog, e, k) = Go(next, i.arg)
      BY <2>4, <2>2, <2>11 DEF Step
    <3>2. Quiet(next, Go(next, i.arg), k)
      BY <2>3, <2>6, <2>11, GoIs DEF Quiet
    <3> QED
      BY <2>7, <3>1, <3>2
  <2>12. CASE i.op = "handle"
    <3>1. Step(Prog, e, k) = SetSignalHandler(next)
      BY <2>4, <2>2, <2>12 DEF Step
    <3>2. next.handled \in Nat /\ next.pendingSignals \in Nat
      BY <2>6 DEF SameSignals
    <3>3. Moves(next, SetSignalHandler(next), k) /\ Registers(next, SetSignalHandler(next))
      BY <2>6, <3>2, HandlerRegisters
    <3> QED
      BY <2>5, <3>1, <3>3, RegistersThrough
  <2>13. CASE i.op \in {"onsignal", "oncancel"}
    <3>1. PICK g : g = [e EXCEPT !.co[k].pc = i.arg]
      OBVIOUS
    <3>2. Step(Prog, e, k) \in {g, next}
      BY <2>4, <2>2, <2>13, <3>1 DEF Step
    <3>3. i.arg \in Nat \ {0}
      BY <1>2, <2>3, <2>13
    <3>4. Quiet(e, g, k)
      BY <1>3, <3>1, <3>3, PlaceIsQuiet
    <3> QED
      BY <2>5, <3>2, <3>4
  <2>14. CASE i.op \notin {"activity", "get", "sleep", "go", "handle", "onsignal", "oncancel"}
    <3>1. Step(Prog, e, k) = Finish(e, k, i.op)
      BY <2>4, <2>2, <2>14 DEF Step
    <3> QED
      BY <1>4, <3>1
  <2> QED
    BY <2>8, <2>9, <2>10, <2>11, <2>12, <2>13, <2>14
<1> QED
  BY <1>2, <1>5, <1>6

-----------------------------------------------------------------------------
(* A round.                                                                *)

(* Of n signals, each was handled or is pending, and a handler has a pump. *)
Tally(e, n) ==
    /\ IsExecution(e) /\ e.handled \in Nat /\ e.pendingSignals \in Nat
    /\ e.handled + e.pendingSignals = n
    /\ e.handler => e.pump
    /\ e.pump => \E p : PumpAt(e, p)

(* The coroutines k, ..., m have their turn in this round: nothing is      *)
(* pending for a handler unless a pump is among them.                      *)
Turning(e, n, k, m) ==
    /\ Tally(e, n) /\ 1 .. m \subseteq DOMAIN e.co
    /\ e.handler => \/ e.pendingSignals = 0
                    \/ \E p \in k .. m : PumpAt(e, p)

LEMMA PumpStays ==
    ASSUME NEW e, NEW f, NEW k, Worked(e, k), Moves(e, f, k), NEW p, PumpAt(e, p)
    PROVE  PumpAt(f, p)
BY DEF Worked, Moves, PumpAt

LEMMA StepTurns ==
    ASSUME NEW e, NEW n, NEW k, NEW m, Worked(e, k), Turning(e, n, k, m)
    PROVE  Turning(Onward(e, k), n, k, m) /\ Worked(Onward(e, k), k)
           /\ Onward(e, k).co[k].body = e.co[k].body
<1>1. PICK f : f = Onward(e, k)
  OBVIOUS
<1>2. CASE Parked(Prog, e, k)
  BY <1>2 DEF Onward
<1>3. CASE ~Parked(Prog, e, k)
  <2>1. f = Step(Prog, e, k)
    BY <1>1, <1>3 DEF Onward
  <2>2. /\ IsExecution(e) /\ e.handled \in Nat /\ e.pendingSignals \in Nat
        /\ e.handled + e.pendingSignals = n /\ (e.handler => e.pump)
        /\ (e.pump => \E p : PumpAt(e, p))
        /\ 1 .. m \subseteq DOMAIN e.co
        /\ e.handler => e.pendingSignals = 0 \/ \E p \in k .. m : PumpAt(e, p)
    BY DEF Turning, Tally
  <2>3. Quiet(e, f, k) \/ (Moves(e, f, k) /\ Registers(e, f))
    BY <2>1, <2>2, StepIs
  <2>4. Moves(e, f, k)
    BY <2>3 DEF Quiet
  <2>5. \A p : PumpAt(e, p) => PumpAt(f, p)
    BY <2>4, PumpStays
  <2>6. IsExecution(f) /\ DOMAIN e.co \subseteq DOMAIN f.co /\ 1 .. m \subseteq DOMAIN f.co
    BY <2>2, <2>4 DEF Moves
  <2>7. Worked(f, k) /\ f.co[k].body = e.co[k].body
    BY <2>4, <2>6 DEF Worked, Moves
  <2>8. CASE SameSignals(e, f)
    <3>1. Tally(f, n)
      BY <2>2, <2>5, <2>6, <2>8 DEF Tally, SameSignals
    <3>2. f.handler => f.pendingSignals = 0 \/ \E p \in k .. m : PumpAt(f, p)
      BY <2>2, <2>5, <2>8 DEF SameSignals
    <3> QED
      BY <1>1, <2>6, <2>7, <3>1, <3>2 DEF Turning
  <2>9. CASE Registers(e, f)
    <3>1. \E p : PumpAt(f, p)
      BY <2>2, <2>5, <2>9 DEF Registers
    <3>2. /\ f.handled \in Nat /\ f.pendingSignals = 0 /\ f.pump
          /\ f.handled + f.pendingSignals = n
      BY <2>2, <2>9 DEF Registers
    <3>3. Tally(f, n)
      BY <2>6, <3>1, <3>2 DEF Tally
    <3> QED
      BY <1>1, <2>6, <2>7, <3>2, <3>3 DEF Turning
  <2> QED
    BY <2>3, <2>8, <2>9 DEF Quiet
<1> QED
  BY <1>2, <1>3

LEMMA ResumeTurns ==
    ASSUME NEW e, NEW n, NEW k, NEW m, Worked(e, k), Turning(e, n, k, m)
    PROVE  /\ Turning(Resume(Prog, e, k), n, k, m) /\ Worked(Resume(Prog, e, k), k)
<1>1. e.co[k].body # Pump /\ Len(Prog[e.co[k].body]) \in Nat
  BY WorkedIs DEF Worked
<1>2. PICK N \in Nat : N = Most(e, k)
  BY <1>1 DEF Most
<1>3. PICK f : Runs(f, e, k, N) /\ Resume(Prog, e, k) = f[N]
  BY <1>1, <1>2, CoroutineRuns
<1> DEFINE S == {i \in Nat : i <= N => Turning(f[i], n, k, m) /\ Worked(f[i], k)}
<1>4. f[0] = e /\ \A i \in 1 .. N : f[i] = Onward(f[i - 1], k)
  BY <1>3 DEF Runs
<1>5. 0 \in S
  BY <1>4
<1>6. ASSUME NEW i \in S \cap Nat PROVE i + 1 \in S
  <2> SUFFICES ASSUME i + 1 <= N
               PROVE  Turning(f[i + 1], n, k, m) /\ Worked(f[i + 1], k)
    OBVIOUS
  <2>1. Turning(f[i], n, k, m) /\ Worked(f[i], k)
    BY <1>6
  <2>2. f[i + 1] = Onward(f[i], k)
    BY <1>4
  <2> QED
    BY <2>1, <2>2, StepTurns
<1> HIDE DEF S
<1>7. N \in S
  BY <1>5, <1>6, AllNaturals
<1> QED
  BY <1>3, <1>7 DEF S

LEMMA CoroutineTurns ==
    ASSUME NEW e, NEW n, NEW m \in Nat, NEW k \in 1 .. m, Turning(e, n, k, m)
    PROVE  Turning(Turn(e, k), n, k + 1, m)
<1>1. IsExecution(e) /\ k \in DOMAIN e.co /\ 1 .. m \subseteq DOMAIN e.co
  BY DEF Turning, Tally
<1>2. PICK f : f = Turn(e, k)
  OBVIOUS
<1>3. CASE e.co[k].done
  <2>1. f = e
    BY <1>2, <1>3 DEF Turn
  <2>2. ASSUME NEW p \in k .. m, PumpAt(e, p) PROVE p \in k + 1 .. m
    BY <1>3, <2>2 DEF PumpAt
  <2> QED
    BY <1>2, <2>1, <2>2 DEF Turning
<1>4. CASE ~e.co[k].done /\ e.co[k].body # Pump
  <2>1. f = Resume(Prog, e, k)
    BY <1>2, <1>4 DEF Turn
  <2>2. Turning(f, n, k, m) /\ Worked(f, k)
    BY <1>1, <1>4, <2>1, ResumeTurns DEF Worked
  <2>3. ASSUME NEW p \in k .. m, PumpAt(f, p) PROVE p \in k + 1 .. m
    BY <2>2, <2>3 DEF PumpAt, Worked
  <2> QED
    BY <1>2, <2>2, <2>3 DEF Turning
<1>5. CASE ~e.co[k].done /\ e.co[k].body = Pump
  <2>1. f = DrainSignals(e)
    BY <1>2, <1>5 DEF Turn, Resume
  <2>2. /\ e.handled \in Nat /\ e.pendingSignals \in Nat
        /\ e.handled + e.pendingSignals = n /\ (e.handler => e.pump)
        /\ (e.pump => \E p : PumpAt(e, p))
    BY DEF Turning, Tally
  <2>3. /\ IsRecord(f) /\ f.co = e.co /\ f.pump = e.pump
        /\ f.handler = e.handler
        /\ e.handler => f.pendingSignals = 0 /\ f.handled = e.handled + e.pendingSignals
        /\ ~e.handler => f = e
    BY <1>1, <2>1, <2>2, DrainIs
  <2>4. IsExecution(f) /\ \A p : PumpAt(f, p) = PumpAt(e, p)
    BY <1>1, <2>3 DEF IsExecution, PumpAt
  <2>5. f.handled \in Nat /\ f.pendingSignals \in Nat /\ f.handled + f.pendingSignals = n
    BY <2>2, <2>3
  <2>6. Tally(f, n)
    BY <2>2, <2>3, <2>4, <2>5 DEF Tally
  <2>7. f.handler => f.pendingSignals = 0
    BY <2>3
  <2> QED
    BY <1>1, <1>2, <2>3, <2>6, <2>7 DEF Turning
<1> QED
  BY <1>3, <1>4, <1>5

(* All that was fed before a round has been handled after it, if there is  *)
(* a handler then.                                                         *)
Settled(e, n) == Tally(e, n) /\ (e.handler => e.pendingSignals = 0)

LEMMA RoundSettles ==
    ASSUME NEW e, NEW n, Tally(e, n)
    PROVE  Settled(ExecuteRound(Prog, e), n)
<1>1. PICK N \in Nat : N = Len(e.co) /\ DOMAIN e.co = 1 .. N
  BY TableIs DEF Tally, IsExecution
<1>2. PICK f : Rounds(f, e, N) /\ ExecuteRound(Prog, e) = f[N]
  BY <1>1, RoundRuns
<1>3. f[0] = e /\ \A k \in 1 .. N : f[k] = Turn(f[k - 1], k)
  BY <1>2 DEF Rounds
<1> DEFINE S == {k \in Nat : k <= N => Turning(f[k], n, k + 1, N)}
<1>4. 0 \in S
  <2>1. ASSUME e.handler PROVE \E p \in 1 .. N : PumpAt(e, p)
    BY <1>1, <2>1 DEF Tally, PumpAt
  <2>2. Turning(e, n, 1, N)
    BY <1>1, <2>1 DEF Turning
  <2> QED
    BY <1>3, <2>2
<1>5. ASSUME NEW k \in S \cap Nat PROVE k + 1 \in S
  <2> SUFFICES ASSUME k + 1 <= N PROVE Turning(f[k + 1], n, (k + 1) + 1, N)
    OBVIOUS
  <2>1. Turning(f[k], n, k + 1, N)
    BY <1>5
  <2>2. k + 1 \in 1 .. N /\ f[k + 1] = Turn(f[k], k + 1)
    BY <1>3
  <2> QED
    BY <2>1, <2>2, CoroutineTurns
<1> HIDE DEF S
<1>6. N \in S
  BY <1>4, <1>5, AllNaturals
<1>7. Turning(f[N], n, N + 1, N)
  BY <1>6 DEF S
<1>8. ~\E p \in N + 1 .. N : TRUE
  OBVIOUS
<1> QED
  BY <1>2, <1>7, <1>8 DEF Turning, Settled

-----------------------------------------------------------------------------
(* What an Execution is fed.                                               *)

IsSignal(ev) == ev.type = "WorkflowExecutionSignaled"

LEMMA ObserveTallies ==
    ASSUME NEW e, NEW n \in Nat, Tally(e, n), NEW ev
    PROVE  Tally(Observe(e, ev), IF IsSignal(ev) THEN n + 1 ELSE n)
<1>1. PICK f : f = Observe(e, ev)
  OBVIOUS
<1>2. /\ IsExecution(e) /\ e.handled \in Nat /\ e.pendingSignals \in Nat
      /\ e.handled + e.pendingSignals = n /\ (e.handler => e.pump)
      /\ (e.pump => \E p : PumpAt(e, p))
  BY DEF Tally
<1>3. /\ IsRecord(f) /\ f.co = e.co /\ f.pump = e.pump
      /\ f.handler = e.handler /\ f.handled = e.handled
      /\ f.pendingSignals = IF IsSignal(ev) THEN e.pendingSignals + 1 ELSE e.pendingSignals
  <2>1. CASE ev.type = "ActivityTaskCompleted"
    BY <1>1, <1>2, <2>1 DEF Observe, IsExecution, IsRecord, ExecutionFields, IsSignal
  <2>2. CASE ev.type = "ActivityTaskFailed"
    BY <1>1, <1>2, <2>2 DEF Observe, IsExecution, IsRecord, ExecutionFields, IsSignal
  <2>3. CASE ev.type = "TimerFired"
    BY <1>1, <1>2, <2>3 DEF Observe, IsExecution, IsRecord, ExecutionFields, IsSignal
  <2>4. CASE ev.type = "WorkflowExecutionCancelRequested"
    BY <1>1, <1>2, <2>4 DEF Observe, IsExecution, IsRecord, ExecutionFields, IsSignal
  <2>5. CASE ev.type = "WorkflowExecutionSignaled"
    BY <1>1, <1>2, <2>5 DEF Observe, IsExecution, IsRecord, ExecutionFields, IsSignal
  <2>6. CASE ev.type \notin {"ActivityTaskCompleted", "ActivityTaskFailed", "TimerFired",
                     "WorkflowExecutionCancelRequested", "WorkflowExecutionSignaled"}
    BY <1>1, <1>2, <2>6 DEF Observe, IsExecution, IsSignal
  <2> QED
    BY <2>1, <2>2, <2>3, <2>4, <2>5, <2>6
<1>4. IsExecution(f) /\ \A p : PumpAt(f, p) = PumpAt(e, p)
  BY <1>2, <1>3 DEF IsExecution, PumpAt
<1>5. /\ f.handled \in Nat /\ f.pendingSignals \in Nat
      /\ f.handled + f.pendingSignals = IF IsSignal(ev) THEN n + 1 ELSE n
  BY <1>2, <1>3
<1> QED
  BY <1>1, <1>2, <1>3, <1>4, <1>5 DEF Tally

LEMMA ScanTallies ==
    ASSUME NEW e, NEW n \in Nat, Tally(e, n), NEW ev
    PROVE  Tally(Scan(e, ev), IF IsSignal(ev) THEN n + 1 ELSE n)
<1>1. CASE ev.type \notin {"ActivityTaskScheduled", "TimerStarted"}
  <2>1. Scan(e, ev) = Observe(e, ev)
    BY <1>1 DEF Scan
  <2> QED
    BY <2>1, ObserveTallies
<1>2. CASE ev.type \in {"ActivityTaskScheduled", "TimerStarted"}
  <2>1. PICK f : f = Scan(e, ev)
    OBVIOUS
  <2>2. IsExecution(e)
    BY DEF Tally
  <2>3. IsRecord(f) /\ f.co = e.co /\ SameSignals(e, f)
    BY <1>2, <2>1, <2>2 DEF Scan, IsExecution, IsRecord, ExecutionFields, SameSignals
  <2>4. IsExecution(f) /\ \A p : PumpAt(f, p) = PumpAt(e, p)
    BY <2>2, <2>3 DEF IsExecution, PumpAt
  <2>5. ~IsSignal(ev)
    BY <1>2 DEF IsSignal
  <2>6. Tally(f, n)
    BY <2>3, <2>4 DEF Tally, SameSignals
  <2> QED
    BY <2>1, <2>5, <2>6
<1> QED
  BY <1>1, <1>2

-----------------------------------------------------------------------------
(* The signals among the first events of a history.                        *)

Signals(h, n) == Cardinality({i \in 1 .. n : IsSignal(h[i])})

LEMMA SignalsAreCounted ==
    ASSUME NEW h, NEW n \in Nat
    PROVE  /\ Signals(h, 0) = 0 /\ Signals(h, n) \in Nat
           /\ Signals(h, n + 1) = IF IsSignal(h[n + 1]) THEN Signals(h, n) + 1 ELSE Signals(h, n)
<1> DEFINE S == {i \in 1 .. n : IsSignal(h[i])}
           T == {i \in 1 .. (n + 1) : IsSignal(h[i])}
<1>1. IsFiniteSet(S) /\ Cardinality(S) \in Nat
  <2>1. IsFiniteSet(1 .. n)
    BY FS_Interval
  <2>2. S \subseteq 1 .. n
    OBVIOUS
  <2>3. IsFiniteSet(S)
    BY <2>1, <2>2, FS_Subset
  <2> QED
    BY <2>3, FS_CardinalityType
<1>2. Signals(h, 0) = 0
  <2>1. {i \in 1 .. 0 : IsSignal(h[i])} = {}
    OBVIOUS
  <2> QED
    BY <2>1, FS_EmptySet DEF Signals
<1>3. CASE IsSignal(h[n + 1])
  <2>1. T = S \cup {n + 1} /\ n + 1 \notin S
    BY <1>3
  <2>2. Cardinality(T) = Cardinality(S) + 1
    BY <1>1, <2>1, FS_AddElement
  <2> QED
    BY <1>1, <1>2, <1>3, <2>2 DEF Signals
<1>4. CASE ~IsSignal(h[n + 1])
  <2>1. T = S
    BY <1>4
  <2> QED
    BY <1>1, <1>2, <1>4, <2>1 DEF Signals
<1> QED
  BY <1>3, <1>4

LEMMA SameCount ==
    ASSUME NEW h, NEW g, NEW n \in Nat, \A i \in 1 .. n : g[i] = h[i]
    PROVE  Signals(g, n) = Signals(h, n)
<1>1. {i \in 1 .. n : IsSignal(g[i])} = {i \in 1 .. n : IsSignal(h[i])}
  BY DEF IsSignal
<1> QED
  BY <1>1 DEF Signals

(* ev is what h has behind its first `from' events.                        *)
Behind(ev, h, from) ==
    IsTable(ev) /\ from \in Nat /\ \A i \in 1 .. Len(ev) : ev[i] = h[from + i]

LEMMA CountBehind ==
    ASSUME NEW h, NEW ev, NEW from, Behind(ev, h, from), NEW i \in Nat, i + 1 <= Len(ev)
    PROVE  /\ Signals(h, from + i) \in Nat
           /\ Signals(h, from + (i + 1)) =
                 IF IsSignal(ev[i + 1]) THEN Signals(h, from + i) + 1 ELSE Signals(h, from + i)
<1>1. Len(ev) \in Nat /\ from \in Nat
  BY TableIs DEF Behind
<1>2. PICK m \in Nat : m = from + i
  BY <1>1
<1>3. ev[i + 1] = h[m + 1] /\ from + (i + 1) = m + 1
  BY <1>1, <1>2 DEF Behind
<1>4. /\ Signals(h, m) \in Nat
      /\ Signals(h, m + 1) = IF IsSignal(h[m + 1]) THEN Signals(h, m) + 1 ELSE Signals(h, m)
  BY SignalsAreCounted
<1> QED
  BY <1>2, <1>3, <1>4

LEMMA NewEventsTally ==
    ASSUME NEW h, NEW ev, NEW from, Behind(ev, h, from),
           NEW e, Tally(e, Signals(h, from))
    PROVE  Tally(LoadNewEvents(e, ev), Signals(h, from + Len(ev)))
<1>1. PICK N \in Nat : N = Len(ev)
  BY TableIs DEF Behind
<1>2. PICK f : Observations(f, e, ev, N) /\ LoadNewEvents(e, ev) = f[N]
  BY <1>1, NewEventsLoad
<1>3. f[0] = e /\ \A i \in 1 .. N : f[i] = Observe(f[i - 1], ev[i])
  BY <1>2 DEF Observations
<1> DEFINE S == {i \in Nat : i <= N => Tally(f[i], Signals(h, from + i))}
<1>4. 0 \in S
  BY <1>3 DEF Behind
<1>5. ASSUME NEW i \in S \cap Nat PROVE i + 1 \in S
  <2> SUFFICES ASSUME i + 1 <= N PROVE Tally(f[i + 1], Signals(h, from + (i + 1)))
    OBVIOUS
  <2>1. Tally(f[i], Signals(h, from + i)) /\ f[i + 1] = Observe(f[i], ev[i + 1])
    BY <1>3, <1>5
  <2>2. /\ Signals(h, from + i) \in Nat
        /\ Signals(h, from + (i + 1)) =
              IF IsSignal(ev[i + 1]) THEN Signals(h, from + i) + 1 ELSE Signals(h, from + i)
    BY <1>1, CountBehind
  <2> QED
    BY <2>1, <2>2, ObserveTallies
<1> HIDE DEF S
<1>6. N \in S
  BY <1>4, <1>5, AllNaturals
<1> QED
  BY <1>1, <1>2, <1>6 DEF S

LEMMA HistoryTallies ==
    ASSUME NEW h, NEW ev, NEW from, Behind(ev, h, from),
           NEW e, Tally(e, Signals(h, from))
    PROVE  Tally(LoadHistory(e, ev), Signals(h, from + Len(ev)))
<1>1. PICK N \in Nat : N = Len(ev)
  BY TableIs DEF Behind
<1>2. PICK f : Scans(f, e, ev, N) /\ LoadHistory(e, ev) = f[N]
  BY <1>1, HistoryLoads
<1>3. f[0] = e /\ \A i \in 1 .. N : f[i] = Scan(f[i - 1], ev[i])
  BY <1>2 DEF Scans
<1> DEFINE S == {i \in Nat : i <= N => Tally(f[i], Signals(h, from + i))}
<1>4. 0 \in S
  BY <1>3 DEF Behind
<1>5. ASSUME NEW i \in S \cap Nat PROVE i + 1 \in S
  <2> SUFFICES ASSUME i + 1 <= N PROVE Tally(f[i + 1], Signals(h, from + (i + 1)))
    OBVIOUS
  <2>1. Tally(f[i], Signals(h, from + i)) /\ f[i + 1] = Scan(f[i], ev[i + 1])
    BY <1>3, <1>5
  <2>2. /\ Signals(h, from + i) \in Nat
        /\ Signals(h, from + (i + 1)) =
              IF IsSignal(ev[i + 1]) THEN Signals(h, from + i) + 1 ELSE Signals(h, from + i)
    BY <1>1, CountBehind
  <2> QED
    BY <2>1, <2>2, ScanTallies
<1> HIDE DEF S
<1>6. N \in S
  BY <1>4, <1>5, AllNaturals
<1> QED
  BY <1>1, <1>2, <1>6 DEF S

-----------------------------------------------------------------------------
(* A replay, and a resumed Execution.                                      *)

LEMMA NewTallies == Tally(NewExecution, 0)
<1>1. IsTable(<< >>) /\ DOMAIN << >> = {}
  BY DEF IsTable
<1>2. IsExecution(NewExecution)
  BY <1>1 DEF NewExecution, IsExecution, IsRecord, ExecutionFields
<1> QED
  BY <1>2 DEF Tally, NewExecution

LEMMA ReplaySettles ==
    ASSUME NEW h, IsTable(h)
    PROVE  Settled(RunWorkflowFunc(Prog, h), Signals(h, Len(h)))
<1>1. Behind(h, h, 0) /\ Signals(h, 0) = 0
  <2>1. Len(h) \in Nat
    BY TableIs
  <2>2. \A i \in 1 .. Len(h) : h[i] = h[0 + i]
    BY <2>1
  <2> QED
    BY <2>2, SignalsAreCounted DEF Behind
<1>2. PICK e : e = LoadHistory(NewExecution, h)
  OBVIOUS
<1>3. Len(h) \in Nat /\ Tally(e, Signals(h, Len(h)))
  <2>1. Tally(e, Signals(h, 0 + Len(h)))
    BY <1>1, <1>2, NewTallies, HistoryTallies
  <2>2. Len(h) \in Nat
    BY TableIs
  <2> QED
    BY <2>1, <2>2
<1>4. PICK g : g = Go(e, 1)
  OBVIOUS
<1>5. 1 \in DOMAIN Prog
  BY WorkerAssumption DEF IsProgram
<1>6. Moves(e, g, 0) /\ SameSignals(e, g)
  BY <1>3, <1>4, <1>5, GoIs DEF Tally
<1>7. \A p : PumpAt(e, p) => PumpAt(g, p)
  <2>1. 0 \notin DOMAIN e.co
    BY <1>3, TableIs DEF Tally, IsExecution
  <2> QED
    BY <1>6, <2>1 DEF Moves, PumpAt
<1>8. Tally(g, Signals(h, Len(h)))
  BY <1>3, <1>6, <1>7 DEF Tally, SameSignals, Moves
<1> QED
  BY <1>2, <1>4, <1>8, RoundSettles DEF RunWorkflowFunc

LEMMA ResumedSettles ==
    ASSUME NEW h, IsTable(h), NEW c, c.last \in 0 .. Len(h),
           Settled(c.exec, Signals(h, c.last))
    PROVE  Settled(Resumed(c, h), Signals(h, Len(h)))
<1>1. PICK x, n : x = c.exec /\ n = c.last
  OBVIOUS
<1>2. n \in Nat /\ n <= Len(h) /\ Len(h) \in Nat
  BY <1>1, TableIs
<1>3. PICK ev : ev = EventsAfter(h, n)
  OBVIOUS
<1>4. Behind(ev, h, n) /\ n + Len(ev) = Len(h)
  <2>1. /\ Len(ev) = Len(h) - n /\ DOMAIN ev = 1 .. Len(ev)
        /\ \A i \in 1 .. Len(ev) : ev[i] = h[n + i]
    BY <1>2, <1>3 DEF EventsAfter, IsTable
  <2>2. IsTable(ev)
    BY <1>2, <1>3, PartIs DEF EventsAfter
  <2> QED
    BY <1>2, <2>1, <2>2 DEF Behind
<1>5. PICK e : e = ResetRoundOutput(x)
  OBVIOUS
<1>6. Tally(e, Signals(h, n))
  <2>1. Tally(x, Signals(h, n)) /\ IsExecution(x)
    BY <1>1 DEF Settled, Tally
  <2>2. IsTable(<< >>)
    BY DEF IsTable
  <2>3. IsRecord(e) /\ e.co = x.co /\ SameSignals(x, e)
    BY <1>5, <2>1, <2>2
       DEF ResetRoundOutput, IsExecution, IsRecord, ExecutionFields, SameSignals
  <2>4. IsExecution(e) /\ \A p : PumpAt(e, p) = PumpAt(x, p)
    BY <2>1, <2>3 DEF IsExecution, PumpAt
  <2> QED
    BY <2>1, <2>3, <2>4 DEF Tally, SameSignals
<1>7. Tally(LoadNewEvents(e, ev), Signals(h, Len(h)))
  <2>1. Tally(LoadNewEvents(e, ev), Signals(h, n + Len(ev)))
    BY <1>4, <1>6, NewEventsTally
  <2> QED
    BY <1>4, <2>1
<1>8. Resumed(c, h) = ExecuteRound(Prog, LoadNewEvents(e, ev))
  BY <1>1, <1>3, <1>5 DEF Resumed
<1> QED
  BY <1>7, <1>8, RoundSettles

-----------------------------------------------------------------------------
(* The state.                                                              *)

IsJob(j) ==
    \/ j = Idle
    \/ j.op = "fail" /\ DOMAIN j = {"op", "why", "lapsed"}
    \/ j.op = "respond" /\ DOMAIN j = {"op", "cmds", "seen", "pos", "lapsed"} /\ IsTable(j.cmds)

(* A cache entry has been fed a beginning of history h.                    *)
Fits(c, h) ==
    c.last \in 0 .. Len(h) /\ c.last <= MaxHistoryFetch /\ Settled(c.exec, Signals(h, c.last))

TypeInv ==
    /\ IsTable(history)
    /\ job = [w \in Worker |-> job[w]] /\ cache = [w \in Worker |-> cache[w]]
    /\ \A w \in Worker : IsJob(job[w])

CacheInv == \A w \in Worker : cache[w] # Miss => Fits(cache[w], history)

Extends(h, g) ==
    IsTable(g) /\ Len(h) <= Len(g) /\ \A i \in 1 .. Len(h) : g[i] = h[i]

LEMMA ExtendsByOne ==
    ASSUME NEW h, IsTable(h), NEW ev
    PROVE  Extends(h, Append(h, ev))
<1>1. Len(h) \in Nat
  BY TableIs
<1>2. /\ IsTable(Append(h, ev)) /\ Len(Append(h, ev)) = Len(h) + 1
      /\ \A i \in 1 .. Len(h) : Append(h, ev)[i] = h[i]
  BY TableAppend
<1> QED
  BY <1>1, <1>2 DEF Extends

LEMMA ExtendsBySome ==
    ASSUME NEW h, IsTable(h), NEW s, IsTable(s)
    PROVE  Extends(h, h \o s)
<1> DEFINE S == {h[i] : i \in DOMAIN h}
           T == {s[i] : i \in DOMAIN s}
           g == h \o s
<1>1. h \in Seq(S \cup T) /\ s \in Seq(S \cup T)
  BY SeqOfMore DEF IsTable
<1>2. Len(h) \in Nat /\ Len(s) \in Nat /\ DOMAIN h = 1 .. Len(h) /\ DOMAIN s = 1 .. Len(s)
  BY TableIs
<1> HIDE DEF S, T
<1>3. /\ g \in Seq(S \cup T) /\ Len(g) = Len(h) + Len(s) /\ DOMAIN g = 1 .. (Len(h) + Len(s))
      /\ \A i \in 1 .. Len(h) : g[i] = h[i]
      /\ \A i \in 1 .. Len(s) : g[Len(h) + i] = s[i]
  BY <1>1, <1>2
<1> HIDE DEF g
<1>4. \A x \in S \cup T : \E i \in DOMAIN g : g[i] = x
  <2> SUFFICES ASSUME NEW x \in S \cup T PROVE \E i \in DOMAIN g : g[i] = x
    OBVIOUS
  <2>1. CASE x \in S
    <3>1. PICK i \in DOMAIN h : x = h[i]
      BY <2>1 DEF S
    <3>2. i \in DOMAIN g /\ g[i] = x
      BY <1>2, <1>3, <3>1
    <3> QED
      BY <3>2
  <2>2. CASE x \in T
    <3>1. PICK i \in DOMAIN s : x = s[i]
      BY <2>2 DEF T
    <3>2. Len(h) + i \in DOMAIN g /\ g[Len(h) + i] = x
      BY <1>2, <1>3, <3>1
    <3> QED
      BY <3>2
  <2> QED
    BY <2>1, <2>2
<1>5. PICK R : R = {g[j] : j \in DOMAIN g}
  OBVIOUS
<1>6. g \in Seq({g[j] : j \in DOMAIN g})
  <2>1. \A i \in DOMAIN g : g[i] \in S \cup T
    BY <1>3
  <2>2. S \cup T = R
    BY <1>4, <1>5, <2>1
  <2> QED
    BY <1>3, <1>5, <2>2
<1>7. IsTable(g)
  BY <1>6 DEF IsTable
<1> QED
  BY <1>2, <1>3, <1>7 DEF Extends, g

LEMMA FitsOn ==
    ASSUME NEW h, NEW g, IsTable(h), Extends(h, g), NEW c, Fits(c, h)
    PROVE  Fits(c, g)
<1>1. Len(h) \in Nat /\ Len(g) \in Nat /\ Len(h) <= Len(g)
  BY TableIs DEF Extends
<1>2. PICK n : n = c.last
  OBVIOUS
<1>3. n \in Nat /\ n <= Len(h) /\ n \in 0 .. Len(g)
  BY <1>1, <1>2 DEF Fits
<1>4. \A i \in 1 .. n : g[i] = h[i]
  BY <1>1, <1>3 DEF Extends
<1>5. Signals(g, n) = Signals(h, n)
  BY <1>3, <1>4, SameCount
<1> QED
  BY <1>2, <1>3, <1>5 DEF Fits

(* The page that goes with a task is a beginning of the history.           *)
LEMMA PageIs ==
    ASSUME NEW h, IsTable(h), NEW p, p = Fetched(h)
    PROVE  /\ IsTable(p) /\ Len(p) \in Nat /\ Len(p) <= Len(h) /\ Len(p) <= MaxHistoryFetch
           /\ \A n \in Nat : n <= Len(h) /\ n <= MaxHistoryFetch => n <= Len(p)
           /\ \A i \in 1 .. Len(p) : p[i] = h[i]
<1>1. Len(h) \in Nat /\ MaxHistoryFetch \in Nat
  BY TableIs, WorkerAssumption
<1>2. PICK m \in Nat : /\ m = MinOf(Len(h), MaxHistoryFetch) /\ m <= Len(h)
                       /\ m <= MaxHistoryFetch /\ (m = Len(h) \/ m = MaxHistoryFetch)
  BY <1>1 DEF MinOf
<1>3. p = SubSeq(h, 1, m)
  BY <1>2 DEF Fetched, Prefix
<1>4. IsTable(p)
  BY <1>1, <1>2, <1>3, PartIs
<1>5. Len(p) = m /\ \A i \in 1 .. m : p[i] = h[i]
  BY <1>1, <1>2, <1>3 DEF IsTable
<1> QED
  BY <1>1, <1>2, <1>4, <1>5

(* What is cached of an Execution that has been fed the whole page.        *)
LEMMA KeptFits ==
    ASSUME NEW h, IsTable(h), NEW p, p = Fetched(h), NEW e, Settled(e, Signals(p, Len(p))),
           Kept(e, p) # Miss
    PROVE  Fits(Kept(e, p), h)
<1>1. /\ IsTable(p) /\ Len(p) \in Nat /\ Len(p) <= Len(h) /\ Len(p) <= MaxHistoryFetch
      /\ \A i \in 1 .. Len(p) : p[i] = h[i] /\ Len(h) \in Nat
  BY PageIs, TableIs
<1>2. Signals(h, Len(p)) = Signals(p, Len(p))
  BY <1>1, SameCount
<1>3. Kept(e, p).last = Len(p) /\ Kept(e, p).exec = e
  BY DEF Kept, Cached
<1>4. Len(p) \in 0 .. Len(h)
  BY <1>1, TableIs
<1> QED
  BY <1>1, <1>2, <1>3, <1>4 DEF Fits

LEMMA ProcessedSettles ==
    ASSUME NEW h, IsTable(h), NEW p, p = Fetched(h), NEW w \in Worker,
           cache[w] # Miss => Fits(cache[w], h)
    PROVE  Settled(Processed(w, p), Signals(p, Len(p)))
<1>1. /\ IsTable(p) /\ Len(p) \in Nat
      /\ \A n \in Nat : n <= Len(h) /\ n <= MaxHistoryFetch => n <= Len(p)
      /\ \A i \in 1 .. Len(p) : p[i] = h[i]
  BY PageIs
<1>2. CASE cache[w] = Miss
  BY <1>1, <1>2, ReplaySettles DEF Processed
<1>3. CASE cache[w] # Miss
  <2>1. PICK c : c = cache[w]
    OBVIOUS
  <2>2. PICK n : n = c.last
    OBVIOUS
  <2>3. n \in Nat /\ n <= Len(h) /\ n <= MaxHistoryFetch /\ Settled(c.exec, Signals(h, n))
    BY <1>3, <2>1, <2>2, TableIs DEF Fits
  <2>4. n \in 0 .. Len(p) /\ \A i \in 1 .. n : h[i] = p[i]
    BY <1>1, <2>3
  <2>5. Signals(h, n) = Signals(p, n)
    BY <2>3, <2>4, SameCount
  <2>6. Settled(Resumed(c, p), Signals(p, Len(p)))
    BY <1>1, <2>2, <2>3, <2>4, <2>5, ResumedSettles
  <2> QED
    BY <1>3, <2>1, <2>6 DEF Processed
<1> QED
  BY <1>2, <1>3

LEMMA InitHolds == Init => TypeInv /\ CacheInv
<1> SUFFICES ASSUME Init PROVE TypeInv /\ CacheInv
  OBVIOUS
<1>1. IsTable(history)
  <2>1. PICK a, b : history = <<a, b>>
    BY DEF Init
  <2>2. history \in Seq({a, b}) /\ {history[i] : i \in DOMAIN history} = {a, b}
    BY <2>1
  <2> QED
    BY <2>2 DEF IsTable
<1>2. job = [w \in Worker |-> job[w]] /\ cache = [w \in Worker |-> cache[w]]
  BY DEF Init
<1>3. \A w \in Worker : IsJob(job[w]) /\ cache[w] = Miss
  BY DEF Init, IsJob
<1> QED
  BY <1>1, <1>2, <1>3 DEF TypeInv, CacheInv

(* A step keeps the invariant if the history only grows and what it puts   *)
(* into the job and the cache of a worker is right.                        *)
LEMMA StateOn ==
    ASSUME TypeInv, CacheInv, history' = history \/ Extends(history, history'),
           NEW w \in Worker, NEW j, NEW c,
           job' = [job EXCEPT ![w] = j], IsJob(j),
           cache' = [cache EXCEPT ![w] = c], c \in {cache[w], Miss} \/ Fits(c, history')
    PROVE  TypeInv' /\ CacheInv'
<1>1. IsTable(history')
  BY DEF TypeInv, Extends
<1>2. job' = [v \in Worker |-> job'[v]] /\ cache' = [v \in Worker |-> cache'[v]]
  BY DEF TypeInv
<1>3. \A v \in Worker : IsJob(job[v]')
  BY DEF TypeInv
<1>4. ASSUME NEW v \in Worker, cache'[v] # Miss PROVE Fits(cache'[v], history')
  <2>1. PICK x : x = cache'[v]
    OBVIOUS
  <2>2. CASE x = cache[v]
    <3>1. Fits(x, history)
      BY <1>4, <2>1, <2>2 DEF CacheInv
    <3> QED
      BY <2>1, <3>1, FitsOn DEF TypeInv
  <2>3. CASE x # cache[v]
    BY <1>4, <2>1, <2>3 DEF TypeInv
  <2> QED
    BY <2>2, <2>3
<1> QED
  BY <1>1, <1>2, <1>3, <1>4 DEF TypeInv, CacheInv

(* The same, for a step that leaves the job, the cache or both alone.      *)
LEMMA SameEntry ==
    ASSUME TypeInv, NEW w \in Worker
    PROVE  job = [job EXCEPT ![w] = job[w]] /\ cache = [cache EXCEPT ![w] = cache[w]]
           /\ IsJob(job[w])
BY DEF TypeInv

LEMMA PollKeeps ==
    ASSUME TypeInv, CacheInv, NEW w \in Worker, PollWorkflowTask(w)
    PROVE  TypeInv' /\ CacheInv'
<1>1. Extends(history, history') /\ IsTable(history')
  BY ExtendsByOne DEF PollWorkflowTask, TypeInv, Extends
<1>2. PICK h, p, e : h = history' /\ p = Fetched(h) /\ e = Processed(w, p)
  OBVIOUS
<1>3. cache[w] # Miss => Fits(cache[w], h)
  BY <1>1, <1>2, FitsOn DEF TypeInv, CacheInv
<1>4. Settled(e, Signals(p, Len(p)))
  BY <1>1, <1>2, <1>3, ProcessedSettles
<1>5. CASE e.panicked
  <2>1. cache' = [cache EXCEPT ![w] = Miss] /\ job' = [job EXCEPT ![w] = FailJob("panic")]
    BY <1>2, <1>5 DEF PollWorkflowTask
  <2>2. IsJob(FailJob("panic"))
    BY DEF IsJob, FailJob
  <2> QED
    BY <1>1, <2>1, <2>2, StateOn
<1>6. CASE ~e.panicked
  <2>1. PICK j : j = [op |-> "respond", cmds |-> e.commands, seen |-> Len(p),
                      pos |-> Position(e), lapsed |-> FALSE]
    OBVIOUS
  <2>2. cache' = [cache EXCEPT ![w] = Kept(e, p)] /\ job' = [job EXCEPT ![w] = j]
    BY <1>2, <1>6, <2>1 DEF PollWorkflowTask
  <2>3. IsJob(j)
    BY <1>4, <2>1 DEF IsJob, Settled, Tally, IsExecution, IsRecord
  <2>4. Kept(e, p) = Miss \/ Fits(Kept(e, p), h)
    BY <1>1, <1>2, <1>4, KeptFits
  <2> QED
    BY <1>1, <1>2, <2>2, <2>3, <2>4, StateOn
<1> QED
  BY <1>5, <1>6

LEMMA QueryKeeps ==
    ASSUME TypeInv, CacheInv, NEW w \in Worker, ProcessQueryTask(w)
    PROVE  TypeInv' /\ CacheInv'
<1>1. history' = history /\ job' = job /\ IsTable(history)
  BY DEF ProcessQueryTask, TypeInv
<1>2. PICK h, p : h = history /\ p = Fetched(h)
  OBVIOUS
<1>3. \/ cache' = cache
      \/ cache' = [cache EXCEPT ![w] = Kept(RunWorkflowFunc(Prog, p), p)]
  BY <1>2 DEF ProcessQueryTask, FetchedForQuery
<1>4. PICK e : e = RunWorkflowFunc(Prog, p)
  OBVIOUS
<1>5. Settled(e, Signals(p, Len(p)))
  BY <1>1, <1>2, <1>4, PageIs, ReplaySettles
<1>6. Kept(e, p) = Miss \/ Fits(Kept(e, p), h)
  BY <1>1, <1>2, <1>5, KeptFits
<1>7. \/ cache' = [cache EXCEPT ![w] = cache[w]]
      \/ cache' = [cache EXCEPT ![w] = Kept(e, p)]
  BY <1>3, <1>4, SameEntry
<1>8. job' = [job EXCEPT ![w] = job[w]] /\ IsJob(job[w])
  BY <1>1, SameEntry
<1> QED
  BY <1>1, <1>2, <1>6, <1>7, <1>8, StateOn

LEMMA AcceptKeeps ==
    ASSUME TypeInv, CacheInv, NEW w \in Worker, NEW heard, Accept(w, heard)
    PROVE  TypeInv' /\ CacheInv'
<1>1. PICK cmds : cmds = job[w].cmds
  OBVIOUS
<1>2. IsTable(cmds)
  BY <1>1 DEF Accept, TypeInv, IsJob, Idle
<1>3. PICK a, b : a = <<Event("WorkflowTaskCompleted", 0, 0)>>
                  /\ b = [i \in DOMAIN cmds |-> CommandEvent(cmds[i])]
  OBVIOUS
<1>4. IsTable(a)
  BY <1>3 DEF IsTable
<1>5. IsTable(b)
  <2>1. Len(cmds) \in Nat /\ DOMAIN cmds = 1 .. Len(cmds)
    BY <1>2, TableIs
  <2>2. \A i \in 1 .. Len(cmds) : b[i] \in {b[x] : x \in DOMAIN b}
    BY <1>3, <2>1
  <2>3. b = [i \in 1 .. Len(cmds) |-> b[i]]
    BY <1>3, <2>1
  <2> QED
    BY <2>1, <2>2, <2>3 DEF IsTable
<1>6. history' = (history \o a) \o b
  BY <1>1, <1>3 DEF Accept
<1>7. Extends(history, history \o a)
  BY <1>4, ExtendsBySome DEF TypeInv
<1>8. Extends(history \o a, history')
  BY <1>5, <1>6, <1>7, ExtendsBySome DEF Extends
<1>9. Extends(history, history')
  <2>1. PICK g : g = history \o a
    OBVIOUS
  <2>2. Len(history) \in Nat /\ Len(g) \in Nat /\ Len(history') \in Nat
    BY <1>7, <1>8, <2>1, TableIs DEF Extends, TypeInv
  <2> QED
    BY <1>7, <1>8, <2>1, <2>2 DEF Extends
<1>10. job' = [job EXCEPT ![w] = Idle] /\ IsJob(Idle)
  BY DEF Accept, IsJob
<1>11. \/ cache' = [cache EXCEPT ![w] = cache[w]]
       \/ cache' = [cache EXCEPT ![w] = Miss]
  BY SameEntry DEF Accept
<1> QED
  BY <1>9, <1>10, <1>11, StateOn

LEMMA RestKeeps ==
    ASSUME TypeInv, CacheInv, NEW w \in Worker,
           \/ PollUnregistered(w) \/ Refuse(w) \/ RespondFailed(w) \/ LeaseLapses(w)
           \/ Evict(w) \/ Restart(w)
    PROVE  TypeInv' /\ CacheInv'
<1>1. IsJob(Idle) /\ \A why : IsJob(FailJob(why))
  BY DEF IsJob, FailJob
<1>2. job = [job EXCEPT ![w] = job[w]] /\ cache = [cache EXCEPT ![w] = cache[w]]
      /\ IsJob(job[w])
  BY SameEntry
<1>3. CASE PollUnregistered(w)
  <2>1. Extends(history, history') /\ cache' = cache
    BY <1>3, ExtendsByOne DEF PollUnregistered, TypeInv
  <2>2. job' = [job EXCEPT ![w] = FailJob("unregistered")]
    BY <1>3 DEF PollUnregistered
  <2>3. cache' = [cache EXCEPT ![w] = cache[w]] /\ IsJob(FailJob("unregistered"))
    BY <1>1, <1>2, <2>1
  <2> QED
    BY <2>1, <2>2, <2>3, StateOn
<1>4. CASE Refuse(w) \/ Restart(w)
  <2>1. /\ history' = history /\ job' = [job EXCEPT ![w] = Idle]
        /\ cache' = [cache EXCEPT ![w] = Miss]
    BY <1>4 DEF Refuse, Restart
  <2> QED
    BY <1>1, <2>1, StateOn
<1>5. CASE RespondFailed(w)
  <2>1. history' = history /\ job' = [job EXCEPT ![w] = Idle] /\ cache' = cache
    BY <1>5 DEF RespondFailed
  <2>2. cache' = [cache EXCEPT ![w] = cache[w]]
    BY <1>2, <2>1
  <2> QED
    BY <1>1, <2>1, <2>2, StateOn
<1>6. CASE LeaseLapses(w)
  <2>1. PICK j : j = [job[w] EXCEPT !.lapsed = TRUE]
    OBVIOUS
  <2>2. history' = history /\ cache' = cache /\ job' = [job EXCEPT ![w] = j] /\ job[w] # Idle
    BY <1>6, <2>1 DEF LeaseLapses
  <2>3. IsJob(j)
    BY <1>2, <2>1, <2>2 DEF IsJob
  <2>4. cache' = [cache EXCEPT ![w] = cache[w]]
    BY <1>2, <2>2
  <2> QED
    BY <2>2, <2>3, <2>4, StateOn
<1>7. CASE Evict(w)
  <2>1. history' = history /\ cache' = [cache EXCEPT ![w] = Miss] /\ job' = job
    BY <1>7 DEF Evict
  <2>2. job' = [job EXCEPT ![w] = job[w]]
    BY <1>2, <2>1
  <2> QED
    BY <1>2, <2>1, <2>2, StateOn
<1> QED
  BY <1>3, <1>4, <1>5, <1>6, <1>7

LEMMA WakeKeeps ==
    ASSUME TypeInv, CacheInv, NEW ev, Wake(ev)
    PROVE  TypeInv' /\ CacheInv'
<1>1. PICK a : a = <<ev, Event("WorkflowTaskScheduled", 0, 0)>>
  OBVIOUS
<1>2. IsTable(a)
  <2>1. PICK x : x = Event("WorkflowTaskScheduled", 0, 0)
    OBVIOUS
  <2>2. a \in Seq({ev, x}) /\ {a[i] : i \in DOMAIN a} = {ev, x}
    BY <1>1, <2>1
  <2> QED
    BY <2>2 DEF IsTable
<1>3. Extends(history, history') /\ job' = job /\ cache' = cache
  BY <1>1, <1>2, ExtendsBySome DEF Wake, TypeInv
<1>4. IsTable(history')
  BY <1>3 DEF Extends
<1>5. \A w \in Worker : cache[w] # Miss => Fits(cache[w], history')
  BY <1>3, FitsOn DEF TypeInv, CacheInv
<1> QED
  BY <1>3, <1>4, <1>5 DEF TypeInv, CacheInv

LEMMA NextKeeps ==
    ASSUME TypeInv, CacheInv, [Next]_vars
    PROVE  TypeInv' /\ CacheInv'
<1>1. CASE UNCHANGED vars
  BY <1>1 DEF vars, TypeInv, CacheInv
<1>2. CASE \E w \in Worker :
              \/ PollWorkflowTask(w) \/ PollUnregistered(w)
              \/ Accept(w, TRUE) \/ Accept(w, FALSE) \/ Refuse(w) \/ RespondFailed(w)
              \/ LeaseLapses(w) \/ Evict(w) \/ Restart(w) \/ ProcessQueryTask(w)
  BY <1>2, PollKeeps, AcceptKeeps, QueryKeeps, RestKeeps
<1>3. CASE \E ev : Wake(ev)
  BY <1>3, WakeKeeps
<1> QED
  BY <1>1, <1>2, <1>3 DEF Next, Outcome, ActivityFails, Request

(* A parked Execution with a signal handler has handled each signal of the *)
(* history it was fed exactly once, whatever the workflow function and its *)
(* coroutines do, and however it came to be cached (SetSignalHandler,      *)
(* drainSignals, processWorkflowTask, processQueryTask).                   *)
THEOREM SignalsAreHandledOnce == Spec => []SignalsHandledOnce
<1>1. Init => TypeInv /\ CacheInv
  BY InitHolds
<1>2. TypeInv /\ CacheInv /\ [Next]_vars => (TypeInv /\ CacheInv)'
  BY NextKeeps
<1>3. TypeInv /\ CacheInv => SignalsHandledOnce
  <2> SUFFICES ASSUME TypeInv, CacheInv, NEW w \in Worker, cache[w] # Miss,
                      cache[w].exec.handler
               PROVE  cache[w].exec.handled = SignalsIn(Prefix(history, cache[w].last))
    BY DEF SignalsHandledOnce
  <2>1. PICK e, n : e = cache[w].exec /\ n = cache[w].last
    OBVIOUS
  <2>2. Len(history) \in Nat /\ n \in 0 .. Len(history) /\ Settled(e, Signals(history, n))
    BY <2>1, TableIs DEF CacheInv, TypeInv, Fits
  <2>3. e.handled = Signals(history, n)
    BY <2>1, <2>2 DEF Settled, Tally
  <2>4. SignalsIn(Prefix(history, n)) = Signals(history, n)
    <3>1. PICK p : p = Prefix(history, n)
      OBVIOUS
    <3>2. DOMAIN p = 1 .. n /\ \A i \in 1 .. n : p[i] = history[i]
      BY <2>2, <3>1 DEF Prefix, TypeInv, IsTable
    <3>3. {i \in DOMAIN p : p[i].type = "WorkflowExecutionSignaled"}
             = {i \in 1 .. n : IsSignal(history[i])}
      BY <3>2 DEF IsSignal
    <3> QED
      BY <3>1, <3>3 DEF SignalsIn, Signals
  <2> QED
    BY <2>1, <2>3, <2>4
<1> QED
  BY <1>1, <1>2, <1>3, PTL DEF Spec

-----------------------------------------------------------------------------
(* Workflow functions whose course only depends on outcomes: they start no *)
(* coroutine and do not ask what has arrived so far.                       *)
Straight ==
    \A n \in DOMAIN Prog[1] :
        Prog[1][n].op \in {"activity", "get", "sleep", "handle"} \cup Return

(* How far such a function has come, what it has scheduled and all it has  *)
(* ever told the server.                                                   *)
Thread(pc, futures, timer, done, acts, tims, calls) ==
    [pc |-> pc, futures |-> futures, timer |-> timer, done |-> done,
     acts |-> acts, tims |-> tims, calls |-> calls]

Start == Thread(1, << >>, 0, FALSE, << >>, << >>, << >>)

(* With outcomes o and fired timers f it can go no further.                *)
Waits(o, f, s) ==
    \/ s.done
    \/ /\ s.pc <= Len(Prog[1])
       /\ \/ Prog[1][s.pc].op = "get" /\ s.futures[Prog[1][s.pc].arg] \notin DOMAIN o
          \/ Prog[1][s.pc].op = "sleep" /\ s.timer # 0 /\ s.timer \notin f

Further(s) ==
    Thread(s.pc + 1, s.futures, s.timer, FALSE, s.acts, s.tims, s.calls)

Woken(s) ==
    Thread(s.pc + 1, s.futures, 0, FALSE, s.acts, s.tims, s.calls)

Ended(s, how) ==
    Thread(s.pc, s.futures, s.timer, TRUE, s.acts, s.tims,
           Append(s.calls, Command(ReturnKind[how], 0, 0)))

Calling(s, type) ==
    LET id == Len(s.acts) + 1
    IN  Thread(s.pc + 1, Append(s.futures, id), s.timer, FALSE,
               Append(s.acts, [id |-> id, type |-> type]), s.tims,
               Append(s.calls, Command("ScheduleActivityTask", id, type)))

Sleeping(s) ==
    LET id == Len(s.tims) + 1
    IN  Thread(s.pc, s.futures, id, FALSE, s.acts, Append(s.tims, id),
               Append(s.calls, Command("StartTimer", id, 0)))

Forth(o, s) ==
    LET i == Prog[1][s.pc]
    IN  IF s.pc > Len(Prog[1]) THEN Ended(s, "complete")
        ELSE CASE i.op = "activity" -> Calling(s, i.arg)
               [] i.op = "get" -> IF o[s.futures[i.arg]] = "failure"
                                  THEN Ended(s, "fail") ELSE Further(s)
               [] i.op = "sleep" -> IF s.timer = 0 THEN Sleeping(s) ELSE Woken(s)
               [] i.op = "handle" -> Further(s)
               [] OTHER -> Ended(s, i.op)

Kinds == {"ScheduleActivityTask", "StartTimer"} \cup {ReturnKind[how] : how \in Return}

Record == [id : Nat, type : Nat]
Order == [kind : Kinds, id : Nat, type : Nat]

(* Nothing but these fields.                                               *)
Whole(s) == s = Thread(s.pc, s.futures, s.timer, s.done, s.acts, s.tims, s.calls)

Fields(pc, futures, timer, done, acts, tims, calls) ==
    /\ pc \in Nat /\ pc # 0 /\ pc <= Len(Prog[1]) + 1 /\ timer \in Nat /\ done \in BOOLEAN
    /\ futures \in Seq(Nat) /\ tims \in Seq(Nat)
    /\ acts \in Seq(Record) /\ calls \in Seq(Order)
    /\ timer # 0 => pc <= Len(Prog[1]) /\ Prog[1][pc].op = "sleep"
    /\ ~done => Len(calls) = Len(acts) + Len(tims)
    /\ done => Len(calls) = Len(acts) + Len(tims) + 1

IsThread(s) ==
    /\ Whole(s)
    /\ Fields(s.pc, s.futures, s.timer, s.done, s.acts, s.tims, s.calls)

Begins(a, b) == Len(a) <= Len(b) /\ \A i \in 1 .. Len(a) : a[i] = b[i]

(* t is as far as s.                                                       *)
Later(s, t) ==
    /\ s.pc <= t.pc
    /\ Begins(s.acts, t.acts) /\ Begins(s.tims, t.tims) /\ Begins(s.calls, t.calls)

(* Steps still to make, at most.                                           *)
Left(s) ==
    IF s.done THEN 0
    ELSE 2 * (Len(Prog[1]) + 1 - s.pc) + IF s.timer = 0 THEN 1 ELSE 0

LEMMA BodyIs ==
    /\ 1 \in DOMAIN Prog /\ Len(Prog[1]) \in Nat
    /\ \A n \in Nat \ {0} : n <= Len(Prog[1]) => Prog[1][n].arg \in Nat
    /\ Straight => \A n \in Nat \ {0} : n <= Len(Prog[1]) =>
          Prog[1][n].op \in {"activity", "get", "sleep", "handle"} \cup Return
<1>1. 1 \in DOMAIN Prog
  BY WorkerAssumption DEF IsProgram
<1>2. Prog[1] \in Seq(Instruction)
  BY <1>1, WorkerAssumption DEF IsProgram
<1> QED
  BY <1>1, <1>2, ProgramIs DEF Straight

(* The steps a thread can make.                                            *)
LEMMA ForthIs ==
    ASSUME Straight, NEW o, NEW f, NEW s, IsThread(s), ~Waits(o, f, s)
    PROVE  /\ ~s.done
           /\ \/ Forth(o, s) = Further(s) /\ s.pc <= Len(Prog[1]) /\ s.timer = 0
              \/ Forth(o, s) = Woken(s) /\ s.pc <= Len(Prog[1]) /\ s.timer # 0
              \/ /\ s.pc <= Len(Prog[1]) /\ s.timer = 0 /\ Prog[1][s.pc].arg \in Nat
                 /\ Forth(o, s) = Calling(s, Prog[1][s.pc].arg)
              \/ /\ Forth(o, s) = Sleeping(s) /\ s.pc <= Len(Prog[1]) /\ s.timer = 0
                 /\ Prog[1][s.pc].op = "sleep"
              \/ \E how \in Return : Forth(o, s) = Ended(s, how) /\ s.timer = 0
<1>1. ~s.done /\ s.pc \in Nat \ {0} /\ Len(Prog[1]) \in Nat /\ s.timer \in Nat
      /\ (s.timer # 0 => s.pc <= Len(Prog[1]) /\ Prog[1][s.pc].op = "sleep")
  BY BodyIs DEF Waits, IsThread, Fields
<1>2. CASE s.pc > Len(Prog[1])
  <2>1. Forth(o, s) = Ended(s, "complete") /\ "complete" \in Return
    BY <1>2 DEF Forth, Return
  <2>2. s.timer = 0
    BY <1>1, <1>2
  <2> QED
    BY <1>1, <2>1, <2>2
<1>3. CASE s.pc <= Len(Prog[1])
  <2>1. PICK i : i = Prog[1][s.pc]
    OBVIOUS
  <2>2. i.arg \in Nat /\ i.op \in {"activity", "get", "sleep", "handle"} \cup Return
    BY <1>1, <1>3, <2>1, BodyIs
  <2>3. ~(s.pc > Len(Prog[1])) /\ (s.timer # 0 => i.op = "sleep")
    BY <1>1, <1>3, <2>1
  <2>4. CASE i.op = "activity"
    BY <1>1, <1>3, <2>1, <2>2, <2>3, <2>4 DEF Forth
  <2>5. CASE i.op = "get"
    <3>1. Forth(o, s) \in {Ended(s, "fail"), Further(s)} /\ "fail" \in Return /\ s.timer = 0
      BY <2>1, <2>3, <2>5 DEF Forth, Return
    <3> QED
      BY <1>1, <1>3, <3>1
  <2>6. CASE i.op = "sleep"
    BY <1>1, <1>3, <2>1, <2>3, <2>6 DEF Forth
  <2>7. CASE i.op = "handle"
    BY <1>1, <1>3, <2>1, <2>3, <2>7 DEF Forth
  <2>8. CASE i.op \in Return
    <3>1. i.op \notin {"activity", "get", "sleep", "handle"} /\ s.timer = 0
      BY <2>3, <2>8 DEF Return
    <3>2. Forth(o, s) = Ended(s, i.op)
      BY <2>1, <2>3, <3>1 DEF Forth
    <3> QED
      BY <1>1, <2>8, <3>1, <3>2
  <2> QED
    BY <2>2, <2>4, <2>5, <2>6, <2>7, <2>8
<1> QED
  BY <1>1, <1>2, <1>3

LEMMA BeginsItself ==
    ASSUME NEW S, NEW a \in Seq(S), NEW x
    PROVE  /\ Begins(a, a) /\ Begins(a, Append(a, x)) /\ Len(a) \in Nat
           /\ Len(Append(a, x)) = Len(a) + 1
BY DEF Begins

(* The facts a step works with.                                            *)
LEMMA ThreadIs ==
    ASSUME NEW s, IsThread(s)
    PROVE  /\ s.pc \in Nat /\ s.pc # 0 /\ s.pc <= Len(Prog[1]) + 1 /\ s.timer \in Nat
           /\ s.done \in BOOLEAN
           /\ s.timer # 0 => s.pc <= Len(Prog[1]) /\ Prog[1][s.pc].op = "sleep"
           /\ ~s.done => Len(s.calls) = Len(s.acts) + Len(s.tims)
           /\ s.done => Len(s.calls) = Len(s.acts) + Len(s.tims) + 1
           /\ s.futures \in Seq(Nat) /\ s.tims \in Seq(Nat) /\ s.acts \in Seq(Record)
           /\ s.calls \in Seq(Order)
           /\ Len(s.acts) \in Nat /\ Len(s.tims) \in Nat /\ Len(s.calls) \in Nat
<1>1. s.tims \in Seq(Nat) /\ s.acts \in Seq(Record) /\ s.calls \in Seq(Order)
  BY DEF IsThread, Fields
<1>2. Len(s.acts) \in Nat /\ Len(s.tims) \in Nat /\ Len(s.calls) \in Nat
  BY <1>1
<1> QED
  BY <1>1, <1>2 DEF IsThread, Fields

LEMMA ThreadMade ==
    ASSUME NEW pc, NEW futures, NEW timer, NEW done, NEW acts, NEW tims, NEW calls,
           Fields(pc, futures, timer, done, acts, tims, calls),
           NEW t, t = Thread(pc, futures, timer, done, acts, tims, calls)
    PROVE  /\ IsThread(t) /\ t.pc = pc /\ t.futures = futures /\ t.timer = timer
           /\ t.done = done /\ t.acts = acts /\ t.tims = tims /\ t.calls = calls
<1>1. /\ t.pc = pc /\ t.futures = futures /\ t.timer = timer
      /\ t.done = done /\ t.acts = acts /\ t.tims = tims /\ t.calls = calls
  BY DEF Thread
<1>2. Whole(t)
  BY <1>1 DEF Whole
<1>3. Fields(t.pc, t.futures, t.timer, t.done, t.acts, t.tims, t.calls)
  BY <1>1
<1> QED
  BY <1>1, <1>2, <1>3 DEF IsThread

(* Place and timer after a step.                                           *)
Advances(s, pc, timer, done) ==
    /\ s.pc <= pc
    /\ \/ done /\ s.timer = 0
       \/ pc = s.pc + 1 /\ timer = 0
       \/ s.timer = 0 /\ timer # 0

Appends(s, acts, tims, calls) ==
    Begins(s.acts, acts) /\ Begins(s.tims, tims) /\ Begins(s.calls, calls)

(* A step of thread s makes thread t.                                      *)
LEMMA StepMade ==
    ASSUME NEW s, IsThread(s), ~s.done,
           NEW pc, NEW futures, NEW timer, NEW done, NEW acts, NEW tims, NEW calls,
           Fields(pc, futures, timer, done, acts, tims, calls),
           Advances(s, pc, timer, done), Appends(s, acts, tims, calls),
           NEW t, t = Thread(pc, futures, timer, done, acts, tims, calls)
    PROVE  IsThread(t) /\ Later(s, t) /\ Left(t) + 1 <= Left(s)
<1>1. PICK n \in Nat, m \in Nat, L \in Nat : n = s.pc /\ m = s.timer /\ L = Len(Prog[1])
  BY ThreadIs, BodyIs
<1>2. n # 0 /\ n <= L + 1 /\ pc \in Nat /\ pc <= L + 1 /\ timer \in Nat /\ done \in BOOLEAN
  BY <1>1, ThreadIs DEF Fields
<1>3. /\ n <= pc
      /\ \/ done /\ m = 0
         \/ pc = n + 1 /\ timer = 0
         \/ m = 0 /\ timer # 0
  BY <1>1 DEF Advances
<1>4. /\ IsThread(t) /\ t.pc = pc /\ t.timer = timer
      /\ t.done = done /\ t.acts = acts /\ t.tims = tims /\ t.calls = calls
  BY ThreadMade
<1>5. Later(s, t)
  BY <1>1, <1>3, <1>4 DEF Later, Appends
<1>6. Left(s) = 2 * (L + 1 - n) + IF m = 0 THEN 1 ELSE 0
  BY <1>1 DEF Left
<1>7. CASE done
  <2>1. Left(t) = 0
    BY <1>4, <1>7 DEF Left
  <2>2. m = 0 \/ n <= L
    BY <1>2, <1>3
  <2> QED
    BY <1>2, <1>4, <1>5, <1>6, <2>1, <2>2
<1>8. CASE ~done
  <2>1. Left(t) = 2 * (L + 1 - pc) + IF timer = 0 THEN 1 ELSE 0
    BY <1>1, <1>4, <1>8 DEF Left
  <2>2. CASE pc = n + 1 /\ timer = 0
    BY <1>2, <1>4, <1>5, <1>6, <2>1, <2>2
  <2>3. CASE m = 0 /\ timer # 0
    BY <1>2, <1>3, <1>4, <1>5, <1>6, <2>1, <2>3
  <2> QED
    BY <1>3, <1>8, <2>2, <2>3
<1> QED
  BY <1>2, <1>7, <1>8

LEMMA ForthKeeps ==
    ASSUME Straight, NEW o, NEW f, NEW s, IsThread(s), ~Waits(o, f, s)
    PROVE  /\ IsThread(Forth(o, s)) /\ Later(s, Forth(o, s))
           /\ Left(Forth(o, s)) + 1 <= Left(s)
<1>1. PICK t : t = Forth(o, s)
  OBVIOUS
<1>2. PICK n \in Nat, m \in Nat, L \in Nat : n = s.pc /\ m = s.timer /\ L = Len(Prog[1])
  BY ThreadIs, BodyIs
<1>3. PICK futures, acts, tims, calls :
         futures = s.futures /\ acts = s.acts /\ tims = s.tims /\ calls = s.calls
  OBVIOUS
<1>4. futures \in Seq(Nat) /\ tims \in Seq(Nat) /\ acts \in Seq(Record) /\ calls \in Seq(Order)
  BY <1>3, ThreadIs
<1>5. ~s.done /\ n # 0 /\ n <= L + 1 /\ Len(calls) = Len(acts) + Len(tims)
  BY <1>2, <1>3, ForthIs, ThreadIs
<1>6. /\ Begins(acts, acts) /\ Begins(tims, tims) /\ Begins(calls, calls)
      /\ Len(acts) \in Nat /\ Len(tims) \in Nat /\ Len(calls) \in Nat
  BY <1>4, BeginsItself
<1>7. CASE t = Thread(n + 1, futures, 0, FALSE, acts, tims, calls) /\ n <= L
  <2>1. Fields(n + 1, futures, 0, FALSE, acts, tims, calls)
    BY <1>2, <1>4, <1>5, <1>7 DEF Fields
  <2>2. Advances(s, n + 1, 0, FALSE) /\ Appends(s, acts, tims, calls)
    BY <1>2, <1>3, <1>6 DEF Advances, Appends
  <2> QED
    BY <1>1, <1>5, <1>7, <2>1, <2>2, StepMade
<1>8. CASE t = Further(s) /\ s.pc <= Len(Prog[1]) /\ s.timer = 0
  BY <1>2, <1>3, <1>7, <1>8 DEF Further
<1>9. CASE t = Woken(s) /\ s.pc <= Len(Prog[1]) /\ s.timer # 0
  BY <1>2, <1>3, <1>7, <1>9 DEF Woken
<1>10. CASE \E type \in Nat : t = Calling(s, type) /\ s.pc <= Len(Prog[1]) /\ s.timer = 0
  <2>1. PICK type \in Nat : t = Calling(s, type) /\ n <= L /\ m = 0
    BY <1>2, <1>10
  <2>2. PICK id \in Nat : id = Len(acts) + 1
    BY <1>6
  <2>3. PICK a \in Record, c \in Order :
           a = [id |-> id, type |-> type] /\ c = Command("ScheduleActivityTask", id, type)
    BY DEF Record, Order, Command, Kinds
  <2>4. PICK futures2, acts2, calls2 :
           /\ futures2 = Append(futures, id) /\ acts2 = Append(acts, a)
           /\ calls2 = Append(calls, c)
    OBVIOUS
  <2>5. futures2 \in Seq(Nat) /\ acts2 \in Seq(Record) /\ calls2 \in Seq(Order)
    BY <1>4, <2>4
  <2>6. /\ Len(acts2) = Len(acts) + 1 /\ Begins(acts, acts2)
        /\ Len(calls2) = Len(calls) + 1 /\ Begins(calls, calls2)
    BY <1>4, <2>4, BeginsItself
  <2>7. t = Thread(n + 1, futures2, 0, FALSE, acts2, tims, calls2)
    BY <1>2, <1>3, <2>1, <2>2, <2>3, <2>4 DEF Calling
  <2>8. Fields(n + 1, futures2, 0, FALSE, acts2, tims, calls2)
    BY <1>2, <1>4, <1>5, <1>6, <2>1, <2>5, <2>6, SMTT(30) DEF Fields
  <2>9. Advances(s, n + 1, 0, FALSE) /\ Appends(s, acts2, tims, calls2)
    BY <1>2, <1>3, <1>6, <2>6 DEF Advances, Appends
  <2> QED
    BY <1>1, <1>5, <2>7, <2>8, <2>9, StepMade
<1>11. CASE t = Sleeping(s) /\ s.pc <= Len(Prog[1]) /\ s.timer = 0 /\ Prog[1][s.pc].op = "sleep"
  <2>1. t = Sleeping(s) /\ n <= L /\ m = 0 /\ Prog[1][n].op = "sleep"
    BY <1>2, <1>11
  <2>2. PICK id \in Nat : id = Len(tims) + 1 /\ id # 0
    BY <1>6
  <2>3. PICK c \in Order : c = Command("StartTimer", id, 0)
    BY DEF Order, Command, Kinds
  <2>4. PICK tims2, calls2 : tims2 = Append(tims, id) /\ calls2 = Append(calls, c)
    OBVIOUS
  <2>5. tims2 \in Seq(Nat) /\ calls2 \in Seq(Order)
    BY <1>4, <2>4
  <2>6. /\ Len(tims2) = Len(tims) + 1 /\ Begins(tims, tims2)
        /\ Len(calls2) = Len(calls) + 1 /\ Begins(calls, calls2)
    BY <1>4, <2>4, BeginsItself
  <2>7. t = Thread(n, futures, id, FALSE, acts, tims2, calls2)
    BY <1>2, <1>3, <2>1, <2>2, <2>3, <2>4 DEF Sleeping
  <2>8. Fields(n, futures, id, FALSE, acts, tims2, calls2)
    BY <1>2, <1>4, <1>5, <1>6, <2>1, <2>5, <2>6 DEF Fields
  <2>9. Advances(s, n, id, FALSE) /\ Appends(s, acts, tims2, calls2)
    BY <1>2, <1>3, <1>6, <2>1, <2>2, <2>6 DEF Advances, Appends
  <2> QED
    BY <1>1, <1>5, <2>7, <2>8, <2>9, StepMade
<1>12. CASE \E how \in Return : t = Ended(s, how) /\ s.timer = 0
  <2>1. PICK how \in Return : t = Ended(s, how) /\ m = 0
    BY <1>2, <1>12
  <2>2. PICK c \in Order : c = Command(ReturnKind[how], 0, 0)
    BY DEF Order, Command, Kinds
  <2>3. PICK calls2 : calls2 = Append(calls, c)
    OBVIOUS
  <2>4. Len(calls2) = Len(calls) + 1 /\ Begins(calls, calls2) /\ calls2 \in Seq(Order)
    BY <1>4, <2>3, BeginsItself
  <2>5. t = Thread(n, futures, 0, TRUE, acts, tims, calls2)
    BY <1>2, <1>3, <2>1, <2>2, <2>3 DEF Ended
  <2>6. Fields(n, futures, 0, TRUE, acts, tims, calls2)
    BY <1>2, <1>4, <1>5, <1>6, <2>4 DEF Fields
  <2>7. Advances(s, n, 0, TRUE) /\ Appends(s, acts, tims, calls2)
    BY <1>2, <1>3, <1>6, <2>1, <2>4 DEF Advances, Appends
  <2> QED
    BY <1>1, <1>5, <2>5, <2>6, <2>7, StepMade
<1> QED
  BY <1>1, <1>8, <1>9, <1>10, <1>11, <1>12, ForthIs

-----------------------------------------------------------------------------
(* The courses a thread can take.                                          *)

(* Facts o2, f2 include o, f.                                              *)
More(o, f, o2, f2) ==
    /\ \A x \in DOMAIN o : x \in DOMAIN o2 /\ o2[x] = o[x]
    /\ f \subseteq f2

(* The first n steps with outcomes o and fired timers f.                   *)
Path(p, o, f, n) ==
    /\ p[0] = Start
    /\ \A k \in 1 .. n : ~Waits(o, f, p[k - 1]) /\ p[k] = Forth(o, p[k - 1])

Comes(o, f, s, n) == n \in Nat /\ \E p : Path(p, o, f, n) /\ p[n] = s

(* s is where it comes to rest, after n steps.                             *)
Rests(o, f, s, n) == Comes(o, f, s, n) /\ Waits(o, f, s)

LEMMA Starts ==
    ASSUME NEW o, NEW f
    PROVE  Comes(o, f, Start, 0)
<1>1. PICK p : p = [k \in 0 .. 0 |-> Start]
  OBVIOUS
<1>2. p[0] = Start /\ Path(p, o, f, 0)
  BY <1>1 DEF Path
<1> QED
  BY <1>2 DEF Comes

LEMMA GoesOn ==
    ASSUME NEW o, NEW f, NEW s, NEW n, Comes(o, f, s, n), ~Waits(o, f, s)
    PROVE  Comes(o, f, Forth(o, s), n + 1)
<1>1. n \in Nat
  BY DEF Comes
<1>2. PICK p : Path(p, o, f, n) /\ p[n] = s
  BY DEF Comes
<1>3. PICK t : t = Forth(o, s)
  OBVIOUS
<1>4. PICK q : q = [k \in 0 .. n + 1 |-> IF k <= n THEN p[k] ELSE t]
  OBVIOUS
<1>5. \A k \in 0 .. n : q[k] = p[k]
  BY <1>1, <1>4
<1>6. q[n + 1] = t /\ q[0] = Start
  BY <1>1, <1>2, <1>4, <1>5 DEF Path
<1>7. ASSUME NEW k \in 1 .. n + 1 PROVE ~Waits(o, f, q[k - 1]) /\ q[k] = Forth(o, q[k - 1])
  <2>1. CASE k \in 1 .. n
    <3>1. q[k] = p[k] /\ q[k - 1] = p[k - 1]
      BY <1>1, <1>5, <2>1
    <3>2. ~Waits(o, f, p[k - 1]) /\ p[k] = Forth(o, p[k - 1])
      BY <1>2, <2>1 DEF Path
    <3> QED
      BY <3>1, <3>2
  <2>2. CASE k = n + 1
    <3>1. q[k - 1] = s /\ q[k] = t
      BY <1>1, <1>2, <1>5, <1>6, <2>2
    <3> QED
      BY <1>3, <3>1
  <2> QED
    BY <1>1, <2>1, <2>2
<1>8. Path(q, o, f, n + 1)
  BY <1>6, <1>7 DEF Path
<1> QED
  BY <1>1, <1>3, <1>6, <1>8 DEF Comes

(* One step of a path.                                                     *)
LEMMA PathStep ==
    ASSUME NEW o, NEW f, NEW p, NEW n \in Nat, Path(p, o, f, n), NEW k \in Nat, k + 1 <= n
    PROVE  ~Waits(o, f, p[k]) /\ p[k + 1] = Forth(o, p[k])
<1>1. k + 1 \in 1 .. n /\ (k + 1) - 1 = k
  OBVIOUS
<1> QED
  BY <1>1 DEF Path

(* What is before its end is a path.                                       *)
LEMMA PathBefore ==
    ASSUME NEW o, NEW f, NEW p, NEW n \in Nat, Path(p, o, f, n), NEW k \in Nat, k <= n
    PROVE  Path(p, o, f, k) /\ Comes(o, f, p[k], k)
<1>1. 1 .. k \subseteq 1 .. n
  OBVIOUS
<1>2. Path(p, o, f, k)
  BY <1>1 DEF Path
<1> QED
  BY <1>2 DEF Comes

LEMMA StartIs == IsThread(Start) /\ Left(Start) = 2 * Len(Prog[1]) + 1 /\ ~Start.done
<1>1. Fields(1, << >>, 0, FALSE, << >>, << >>, << >>)
  BY BodyIs DEF Fields
<1>2. IsThread(Start) /\ Start.pc = 1 /\ Start.timer = 0 /\ Start.done = FALSE
  <2>1. PICK a, e, z, d : a = 1 /\ e = << >> /\ z = 0 /\ d = FALSE
    OBVIOUS
  <2>2. Fields(a, e, z, d, e, e, e)
    BY <1>1, <2>1
  <2>3. PICK t : t = Thread(a, e, z, d, e, e, e)
    OBVIOUS
  <2>4. IsThread(t) /\ t.pc = a /\ t.timer = z /\ t.done = d
    BY <2>2, <2>3, ThreadMade
  <2>5. t = Start
    BY <2>1, <2>3 DEF Start
  <2> QED
    BY <2>1, <2>4, <2>5
<1>3. Left(Start) = 2 * (Len(Prog[1]) + 1 - 1) + 1
  BY <1>2 DEF Left
<1> QED
  BY <1>2, <1>3, BodyIs

LEMMA LeftIs ==
    ASSUME NEW s, IsThread(s)
    PROVE  Left(s) \in Nat
<1>1. PICK n, m, L : n = s.pc /\ m = s.timer /\ L = Len(Prog[1])
  OBVIOUS
<1>2. n \in Nat /\ n # 0 /\ n <= L + 1 /\ L \in Nat
  BY <1>1, ThreadIs, BodyIs
<1>3. CASE s.done
  BY <1>3 DEF Left
<1>4. CASE ~s.done
  <2>1. Left(s) = 2 * (L + 1 - n) + IF m = 0 THEN 1 ELSE 0
    BY <1>1, <1>4 DEF Left
  <2> QED
    BY <1>2, <2>1
<1> QED
  BY <1>3, <1>4

LEMMA LaterItself ==
    ASSUME NEW s, IsThread(s)
    PROVE  Later(s, s)
<1>1. /\ s.pc \in Nat /\ s.acts \in Seq(Record) /\ s.tims \in Seq(Nat)
      /\ s.calls \in Seq(Order)
  BY ThreadIs
<1>2. Begins(s.acts, s.acts) /\ Begins(s.tims, s.tims) /\ Begins(s.calls, s.calls)
  BY <1>1, BeginsItself
<1> QED
  BY <1>1, <1>2 DEF Later

LEMMA BeginsOn ==
    ASSUME NEW a, NEW b, NEW c, Len(a) \in Nat, Len(b) \in Nat, Len(c) \in Nat,
           Begins(a, b), Begins(b, c)
    PROVE  Begins(a, c)
BY DEF Begins

LEMMA LaterOn ==
    ASSUME NEW s, NEW t, NEW u, IsThread(s), IsThread(t), IsThread(u),
           Later(s, t), Later(t, u)
    PROVE  Later(s, u)
<1>1. /\ s.pc \in Nat /\ t.pc \in Nat /\ u.pc \in Nat
      /\ Len(s.acts) \in Nat /\ Len(t.acts) \in Nat /\ Len(u.acts) \in Nat
      /\ Len(s.tims) \in Nat /\ Len(t.tims) \in Nat /\ Len(u.tims) \in Nat
      /\ Len(s.calls) \in Nat /\ Len(t.calls) \in Nat /\ Len(u.calls) \in Nat
  BY ThreadIs
<1>2. s.pc <= u.pc
  BY <1>1 DEF Later
<1>3. Begins(s.acts, u.acts) /\ Begins(s.tims, u.tims) /\ Begins(s.calls, u.calls)
  BY <1>1, BeginsOn DEF Later
<1> QED
  BY <1>2, <1>3 DEF Later

(* A path is made of threads, and is no longer than a turn.                *)
LEMMA PathIs ==
    ASSUME Straight, NEW o, NEW f, NEW p, NEW n \in Nat, Path(p, o, f, n)
    PROVE  \A k \in 0 .. n : IsThread(p[k]) /\ k + Left(p[k]) <= 2 * Len(Prog[1]) + 1
<1>1. PICK M \in Nat : M = 2 * Len(Prog[1]) + 1
  BY BodyIs
<1> DEFINE S == {k \in Nat : k <= n => IsThread(p[k]) /\ k + Left(p[k]) <= M}
<1>2. 0 \in S
  <2>1. p[0] = Start
    BY DEF Path
  <2>2. IsThread(p[0]) /\ Left(p[0]) = M
    BY <1>1, <2>1, StartIs
  <2> QED
    BY <2>2
<1>3. ASSUME NEW k \in S \cap Nat PROVE k + 1 \in S
  <2> SUFFICES ASSUME k + 1 <= n PROVE IsThread(p[k + 1]) /\ k + 1 + Left(p[k + 1]) <= M
    OBVIOUS
  <2>1. IsThread(p[k]) /\ k + Left(p[k]) <= M
    BY <1>3
  <2>2. ~Waits(o, f, p[k]) /\ p[k + 1] = Forth(o, p[k])
    BY PathStep
  <2>3. IsThread(p[k + 1]) /\ Left(p[k + 1]) + 1 <= Left(p[k])
    BY <2>1, <2>2, ForthKeeps
  <2>4. Left(p[k]) \in Nat /\ Left(p[k + 1]) \in Nat
    BY <2>1, <2>3, LeftIs
  <2> QED
    BY <2>1, <2>3, <2>4
<1> HIDE DEF S
<1>4. Nat \subseteq S
  BY <1>2, <1>3, AllNaturals
<1> QED
  BY <1>1, <1>4 DEF S

LEMMA ComesIs ==
    ASSUME Straight, NEW o, NEW f, NEW s, NEW n, Comes(o, f, s, n)
    PROVE  IsThread(s) /\ n \in Nat /\ n <= 2 * Len(Prog[1]) + 1
<1>1. n \in Nat
  BY DEF Comes
<1>2. PICK p : Path(p, o, f, n) /\ p[n] = s
  BY DEF Comes
<1>3. IsThread(s) /\ n + Left(s) <= 2 * Len(Prog[1]) + 1
  BY <1>1, <1>2, PathIs
<1>4. Left(s) \in Nat /\ Len(Prog[1]) \in Nat
  BY <1>3, LeftIs, BodyIs
<1> QED
  BY <1>1, <1>3, <1>4

LEMMA PathGrows ==
    ASSUME Straight, NEW o, NEW f, NEW p, NEW n \in Nat, Path(p, o, f, n),
           NEW j \in Nat, j <= n
    PROVE  \A k \in j .. n : Later(p[j], p[k])
<1>1. \A k \in 0 .. n : IsThread(p[k])
  BY PathIs
<1> DEFINE S == {d \in Nat : j + d <= n => Later(p[j], p[j + d])}
<1>2. 0 \in S
  BY <1>1, LaterItself
<1>3. ASSUME NEW d \in S \cap Nat PROVE d + 1 \in S
  <2> SUFFICES ASSUME j + (d + 1) <= n PROVE Later(p[j], p[j + (d + 1)])
    OBVIOUS
  <2>1. PICK k \in Nat : k = j + d
    OBVIOUS
  <2>2. k + 1 = j + (d + 1) /\ k + 1 <= n /\ Later(p[j], p[k])
    BY <1>3, <2>1
  <2>3. ~Waits(o, f, p[k]) /\ p[k + 1] = Forth(o, p[k])
    BY <2>2, PathStep
  <2>4. IsThread(p[j]) /\ IsThread(p[k]) /\ IsThread(p[k + 1])
    BY <1>1, <2>2
  <2>5. Later(p[k], p[k + 1])
    BY <2>3, <2>4, ForthKeeps
  <2>6. Later(p[j], p[k + 1])
    BY <2>2, <2>4, <2>5, LaterOn
  <2> QED
    BY <2>2, <2>6
<1> HIDE DEF S
<1>4. Nat \subseteq S
  BY <1>2, <1>3, AllNaturals
<1> SUFFICES ASSUME NEW k \in j .. n PROVE Later(p[j], p[k])
  OBVIOUS
<1>5. k - j \in Nat /\ j + (k - j) = k /\ k <= n
  OBVIOUS
<1>6. k - j \in S
  BY <1>4, <1>5
<1> QED
  BY <1>5, <1>6 DEF S

(* There is one way to go.                                                 *)
LEMMA PathsAgree ==
    ASSUME NEW o, NEW f, NEW p, NEW q, NEW n \in Nat, NEW m \in Nat,
           Path(p, o, f, n), Path(q, o, f, m)
    PROVE  \A k \in Nat : k <= n /\ k <= m => p[k] = q[k]
<1> DEFINE S == {k \in Nat : k <= n /\ k <= m => p[k] = q[k]}
<1>1. 0 \in S
  BY DEF Path
<1>2. ASSUME NEW k \in S \cap Nat PROVE k + 1 \in S
  <2> SUFFICES ASSUME k + 1 <= n, k + 1 <= m PROVE p[k + 1] = q[k + 1]
    OBVIOUS
  <2>1. p[k] = q[k]
    BY <1>2
  <2>2. p[k + 1] = Forth(o, p[k]) /\ q[k + 1] = Forth(o, q[k])
    BY PathStep
  <2> QED
    BY <2>1, <2>2
<1> HIDE DEF S
<1>3. Nat \subseteq S
  BY <1>1, <1>2, AllNaturals
<1> QED
  BY <1>3 DEF S

(* All a thread comes by is on the path to where it rests.                 *)
LEMMA BeforeRest ==
    ASSUME NEW o, NEW f, NEW p, NEW N \in Nat, Path(p, o, f, N), Waits(o, f, p[N]),
           NEW s, NEW n, Comes(o, f, s, n)
    PROVE  n \in Nat /\ n <= N /\ s = p[n]
<1>1. n \in Nat
  BY DEF Comes
<1>2. PICK q : Path(q, o, f, n) /\ q[n] = s
  BY DEF Comes
<1>3. CASE n <= N
  <2>1. p[n] = q[n]
    BY <1>1, <1>2, <1>3, PathsAgree
  <2> QED
    BY <1>1, <1>2, <1>3, <2>1
<1>4. CASE N + 1 <= n
  <2>1. p[N] = q[N]
    BY <1>1, <1>2, <1>4, PathsAgree
  <2>2. ~Waits(o, f, q[N])
    BY <1>1, <1>2, <1>4, PathStep
  <2> QED
    BY <2>1, <2>2
<1> QED
  BY <1>1, <1>3, <1>4

LEMMA OneRest ==
    ASSUME NEW o, NEW f, NEW s, NEW n, NEW t, NEW m, Rests(o, f, s, n), Rests(o, f, t, m)
    PROVE  s = t /\ n = m
<1>1. n \in Nat /\ m \in Nat
  BY DEF Rests, Comes
<1>2. PICK p : Path(p, o, f, n) /\ p[n] = s /\ Waits(o, f, p[n])
  BY DEF Rests, Comes
<1>3. PICK q : Path(q, o, f, m) /\ q[m] = t /\ Waits(o, f, q[m])
  BY DEF Rests, Comes
<1>4. m <= n /\ t = p[m]
  BY <1>1, <1>2, BeforeRest DEF Rests
<1>5. n <= m
  BY <1>1, <1>3, BeforeRest DEF Rests
<1> QED
  BY <1>1, <1>2, <1>4, <1>5

LEMMA ThereIsRest ==
    ASSUME Straight, NEW o, NEW f
    PROVE  \E s, n : Rests(o, f, s, n)
<1> DEFINE S == {n \in Nat : \E s : Comes(o, f, s, n)}
<1> SUFFICES ASSUME \A s, n : ~Rests(o, f, s, n) PROVE FALSE
  OBVIOUS
<1>1. 0 \in S
  BY Starts
<1>2. ASSUME NEW n \in S \cap Nat PROVE n + 1 \in S
  <2>1. PICK s : Comes(o, f, s, n)
    BY <1>2
  <2>2. ~Waits(o, f, s)
    BY <2>1 DEF Rests
  <2>3. Comes(o, f, Forth(o, s), n + 1)
    BY <2>1, <2>2, GoesOn
  <2> QED
    BY <2>3
<1>3. PICK M \in Nat : M = 2 * Len(Prog[1]) + 1
  BY BodyIs
<1>4. \A n, s : Comes(o, f, s, n) => n <= M
  BY <1>3, ComesIs
<1> HIDE DEF S
<1>5. M + 1 \in S
  BY <1>1, <1>2, AllNaturals
<1>6. PICK s : Comes(o, f, s, M + 1)
  BY <1>5 DEF S
<1> QED
  BY <1>4, <1>6

(* With more facts it goes the same way.                                   *)
LEMMA ForthAlso ==
    ASSUME NEW o, NEW f, NEW o2, NEW f2, More(o, f, o2, f2),
           NEW t, IsThread(t), ~Waits(o, f, t)
    PROVE  ~Waits(o2, f2, t) /\ Forth(o2, t) = Forth(o, t)
<1>0. PICK n \in Nat, L \in Nat : n = t.pc /\ L = Len(Prog[1])
  BY ThreadIs, BodyIs
<1>1. PICK i, g : i = Prog[1][n] /\ g = t.futures[i.arg] /\ n = t.pc /\ L = Len(Prog[1])
  BY <1>0
<1>2. ~Waits(o2, f2, t)
  BY DEF Waits, More
<1>3. CASE n > L
  <2>1. t.pc > Len(Prog[1])
    BY <1>1, <1>3
  <2> QED
    BY <1>2, <2>1 DEF Forth
<1>4. CASE n <= L /\ i.op # "get"
  <2>1. ~(t.pc > Len(Prog[1])) /\ Prog[1][t.pc].op # "get"
    BY <1>1, <1>4
  <2> QED
    BY <1>2, <2>1 DEF Forth
<1>5. CASE n <= L /\ i.op = "get"
  <2>1. g \in DOMAIN o
    BY <1>1, <1>5 DEF Waits
  <2>2. o2[g] = o[g]
    BY <2>1 DEF More
  <2>3. ~(t.pc > Len(Prog[1])) /\ Prog[1][t.pc] = i
    BY <1>1, <1>5
  <2>4. Forth(o, t) = IF o[g] = "failure" THEN Ended(t, "fail") ELSE Further(t)
    BY <1>1, <1>5, <2>3 DEF Forth
  <2>5. Forth(o2, t) = IF o2[g] = "failure" THEN Ended(t, "fail") ELSE Further(t)
    BY <1>1, <1>5, <2>3 DEF Forth
  <2> QED
    BY <1>2, <2>2, <2>4, <2>5
<1> QED
  BY <1>0, <1>3, <1>4, <1>5

LEMMA ComesAlso ==
    ASSUME Straight, NEW o, NEW f, NEW o2, NEW f2, More(o, f, o2, f2),
           NEW s, NEW n, Comes(o, f, s, n)
    PROVE  Comes(o2, f2, s, n)
<1>1. n \in Nat
  BY DEF Comes
<1>2. PICK p : Path(p, o, f, n) /\ p[n] = s
  BY DEF Comes
<1>3. ASSUME NEW k \in 1 .. n
      PROVE  ~Waits(o2, f2, p[k - 1]) /\ p[k] = Forth(o2, p[k - 1])
  <2>1. IsThread(p[k - 1])
    BY <1>1, <1>2, PathIs
  <2>2. ~Waits(o, f, p[k - 1]) /\ p[k] = Forth(o, p[k - 1])
    BY <1>2 DEF Path
  <2> QED
    BY <2>1, <2>2, ForthAlso
<1>4. Path(p, o2, f2, n)
  BY <1>2, <1>3 DEF Path
<1> QED
  BY <1>1, <1>2, <1>4 DEF Comes

-----------------------------------------------------------------------------
(* An Execution that is a thread.                                          *)

(* The workflow function and pumps, nothing else.                          *)
Sole(e) ==
    /\ IsExecution(e) /\ 1 \in DOMAIN e.co /\ e.co[1].body = 1
    /\ \A j \in DOMAIN e.co : j # 1 => e.co[j].body = Pump
    /\ e.handled \in Nat /\ e.pendingSignals \in Nat

(* What it has been told by history.                                       *)
SameFacts(e, f) ==
    /\ f.outcomes = e.outcomes /\ f.fired = e.fired
    /\ f.scheduledActivities = e.scheduledActivities
    /\ f.scheduledTimers = e.scheduledTimers

SameOutput(e, f) ==
    f.commands = e.commands /\ f.returned = e.returned /\ f.panicked = e.panicked

SameBooks(e, f) ==
    /\ SameFacts(e, f) /\ SameOutput(e, f)
    /\ f.nextActivity = e.nextActivity /\ f.nextTimer = e.nextTimer

LEMMA SoleMoves ==
    ASSUME NEW e, Sole(e), NEW c, IsCoroutine(c), c.body = 1,
           NEW f, IsRecord(f), f.co = [e.co EXCEPT ![1] = c], SameSignals(e, f)
    PROVE  Sole(f) /\ f.co[1] = c
<1>1. IsExecution(e) /\ 1 \in DOMAIN e.co /\ e.co[1].body = 1
  BY DEF Sole
<1>2. Moves(e, f, 1) /\ f.co[1] = c /\ DOMAIN f.co = DOMAIN e.co
  BY <1>1, CoroutineMoves
<1> QED
  BY <1>1, <1>2 DEF Sole, Moves, SameSignals

LEMMA SoleFields ==
    ASSUME NEW e, Sole(e), NEW f, IsRecord(f), f.co = e.co,
           f.handled \in Nat, f.pendingSignals \in Nat
    PROVE  Sole(f)
BY DEF Sole, IsExecution

Placed(e, f, n) ==
    Sole(f) /\ f.co[1] = [e.co[1] EXCEPT !.pc = n] /\ SameBooks(e, f)

(* The function goes on at n.                                              *)
LEMMA PlaceIs ==
    ASSUME NEW e, Sole(e), NEW n \in Nat \ {0}, NEW f, f = [e EXCEPT !.co[1].pc = n]
    PROVE  Placed(e, f, n)
<1>1. PICK c : c = [e.co[1] EXCEPT !.pc = n]
  OBVIOUS
<1>2. IsCoroutine(c) /\ c.body = 1
  BY <1>1 DEF Sole, IsExecution, IsCoroutine
<1>3. IsRecord(f) /\ f.co = [e.co EXCEPT ![1] = c] /\ SameSignals(e, f)
  BY <1>1 DEF Sole, IsExecution, IsRecord, ExecutionFields, SameSignals
<1>4. SameBooks(e, f)
  BY DEF Sole, IsExecution, IsRecord, ExecutionFields, SameBooks, SameFacts, SameOutput
<1> QED
  <2>1. Sole(f) /\ f.co[1] = c
    BY <1>2, <1>3, SoleMoves, ZenonT(30)
  <2> QED
    BY <1>1, <1>4, <2>1 DEF Placed

LEMMA WakeIs ==
    ASSUME NEW e, Sole(e), NEW f, f = [e EXCEPT !.co[1].timer = 0]
    PROVE  Sole(f) /\ f.co[1] = [e.co[1] EXCEPT !.timer = 0] /\ SameBooks(e, f)
<1>1. PICK c : c = [e.co[1] EXCEPT !.timer = 0]
  OBVIOUS
<1>2. IsCoroutine(c) /\ c.body = 1
  BY <1>1 DEF Sole, IsExecution, IsCoroutine
<1>3. IsRecord(f) /\ f.co = [e.co EXCEPT ![1] = c] /\ SameSignals(e, f)
  BY <1>1 DEF Sole, IsExecution, IsRecord, ExecutionFields, SameSignals
<1>4. SameBooks(e, f)
  BY DEF Sole, IsExecution, IsRecord, ExecutionFields, SameBooks, SameFacts, SameOutput
<1> QED
  <2>1. Sole(f) /\ f.co[1] = c
    BY <1>2, <1>3, SoleMoves, ZenonT(30)
  <2> QED
    BY <1>1, <1>4, <2>1

LEMMA EmitIs ==
    ASSUME NEW e, Sole(e), NEW c, NEW f, f = Emit(e, c)
    PROVE  /\ Sole(f) /\ f.co = e.co /\ SameFacts(e, f)
           /\ f.nextActivity = e.nextActivity /\ f.nextTimer = e.nextTimer
           /\ f.commands = Append(e.commands, c)
           /\ f.returned = e.returned /\ f.panicked = e.panicked
<1>1. IsTable(Append(e.commands, c))
  BY TableAppend DEF Sole, IsExecution, IsRecord
<1>2. /\ DOMAIN f = ExecutionFields /\ f.co = e.co /\ f.commands = Append(e.commands, c)
      /\ f.handled = e.handled /\ f.pendingSignals = e.pendingSignals
  BY DEF Emit, Sole, IsExecution, IsRecord, ExecutionFields
<1>3. /\ SameFacts(e, f) /\ f.nextActivity = e.nextActivity /\ f.nextTimer = e.nextTimer
      /\ f.returned = e.returned /\ f.panicked = e.panicked
  BY DEF Emit, Sole, IsExecution, IsRecord, ExecutionFields, SameFacts
<1>4. IsRecord(f)
  BY <1>1, <1>2 DEF IsRecord
<1>5. f.handled \in Nat /\ f.pendingSignals \in Nat
  BY <1>2 DEF Sole
<1>6. Sole(f)
  BY <1>2, <1>4, <1>5, SoleFields
<1> QED
  BY <1>2, <1>3, <1>6

Scheduled(e, f, id, type) ==
    /\ Sole(f) /\ SameFacts(e, f) /\ f.nextActivity = id /\ f.nextTimer = e.nextTimer
    /\ f.co[1] = [e.co[1] EXCEPT !.futures = Append(@, id)]
    /\ f.returned = e.returned /\ f.panicked = e.panicked
    /\ id <= Len(e.scheduledActivities) => f.commands = e.commands
    /\ ~(id <= Len(e.scheduledActivities))
          => f.commands = Append(e.commands, Command("ScheduleActivityTask", id, type))

(* A call that agrees with what history has recorded, or is not recorded.  *)
LEMMA ScheduleIs ==
    ASSUME NEW e, Sole(e), NEW type, NEW id, id = e.nextActivity + 1,
           id <= Len(e.scheduledActivities)
              => e.scheduledActivities[id] = [id |-> id, type |-> type],
           NEW f, f = ScheduleActivity(e, 1, type)
    PROVE  Scheduled(e, f, id, type)
<1>1. PICK c : c = [e.co[1] EXCEPT !.futures = Append(@, id)]
  OBVIOUS
<1>2. IsCoroutine(c) /\ c.body = 1
  BY <1>1 DEF Sole, IsExecution, IsCoroutine
<1>3. PICK g : g = [e EXCEPT !.nextActivity = id, !.co[1].futures = Append(@, id)]
  OBVIOUS
<1>4. IsRecord(g) /\ g.co = [e.co EXCEPT ![1] = c] /\ SameSignals(e, g)
  BY <1>1, <1>3 DEF Sole, IsExecution, IsRecord, ExecutionFields, SameSignals
<1>5. Sole(g) /\ g.co[1] = c
  BY <1>2, <1>4, SoleMoves, ZenonT(60)
<1>6. SameFacts(e, g) /\ SameOutput(e, g) /\ g.nextActivity = id /\ g.nextTimer = e.nextTimer
  BY <1>3 DEF Sole, IsExecution, IsRecord, ExecutionFields, SameFacts, SameOutput
<1>7. CASE id <= Len(e.scheduledActivities)
  <2>1. f = g
    BY <1>3, <1>7 DEF ScheduleActivity
  <2> QED
    BY <1>1, <1>5, <1>6, <1>7, <2>1 DEF SameOutput, Scheduled
<1>8. CASE ~(id <= Len(e.scheduledActivities))
  <2>1. f = Emit(g, Command("ScheduleActivityTask", id, type))
    BY <1>3, <1>8 DEF ScheduleActivity
  <2>2. /\ Sole(f) /\ f.co = g.co /\ SameFacts(g, f)
        /\ f.nextActivity = g.nextActivity /\ f.nextTimer = g.nextTimer
        /\ f.commands = Append(g.commands, Command("ScheduleActivityTask", id, type))
        /\ f.returned = g.returned /\ f.panicked = g.panicked
    BY <1>5, <2>1, EmitIs
  <2> QED
    BY <1>1, <1>5, <1>6, <1>8, <2>2 DEF SameOutput, SameFacts, Scheduled
<1> QED
  BY <1>7, <1>8 DEF Scheduled

Slept(e, f, id) ==
    /\ Sole(f) /\ SameFacts(e, f) /\ f.nextActivity = e.nextActivity /\ f.nextTimer = id
    /\ f.co[1] = [e.co[1] EXCEPT !.timer = id]
    /\ f.returned = e.returned /\ f.panicked = e.panicked
    /\ id <= Len(e.scheduledTimers) => f.commands = e.commands
    /\ ~(id <= Len(e.scheduledTimers))
          => f.commands = Append(e.commands, Command("StartTimer", id, 0))

LEMMA SleepIs ==
    ASSUME NEW e, Sole(e), NEW id, id = e.nextTimer + 1,
           id <= Len(e.scheduledTimers) => e.scheduledTimers[id] = id,
           NEW f, f = ScheduleTimer(e, 1)
    PROVE  Slept(e, f, id)
<1>1. PICK c : c = [e.co[1] EXCEPT !.timer = id]
  OBVIOUS
<1>2. IsCoroutine(c) /\ c.body = 1
  BY <1>1 DEF Sole, IsExecution, IsCoroutine
<1>3. PICK g : g = [e EXCEPT !.nextTimer = id, !.co[1].timer = id]
  OBVIOUS
<1>4. IsRecord(g) /\ g.co = [e.co EXCEPT ![1] = c] /\ SameSignals(e, g)
  BY <1>1, <1>3 DEF Sole, IsExecution, IsRecord, ExecutionFields, SameSignals
<1>5. Sole(g) /\ g.co[1] = c
  BY <1>2, <1>4, SoleMoves, ZenonT(60)
<1>6. SameFacts(e, g) /\ SameOutput(e, g) /\ g.nextTimer = id /\ g.nextActivity = e.nextActivity
  BY <1>3 DEF Sole, IsExecution, IsRecord, ExecutionFields, SameFacts, SameOutput
<1>7. CASE id <= Len(e.scheduledTimers)
  <2>1. f = g
    BY <1>3, <1>7 DEF ScheduleTimer
  <2> QED
    BY <1>1, <1>5, <1>6, <1>7, <2>1 DEF SameOutput, Slept
<1>8. CASE ~(id <= Len(e.scheduledTimers))
  <2>1. f = Emit(g, Command("StartTimer", id, 0))
    BY <1>3, <1>8 DEF ScheduleTimer
  <2>2. /\ Sole(f) /\ f.co = g.co /\ SameFacts(g, f)
        /\ f.nextActivity = g.nextActivity /\ f.nextTimer = g.nextTimer
        /\ f.commands = Append(g.commands, Command("StartTimer", id, 0))
        /\ f.returned = g.returned /\ f.panicked = g.panicked
    BY <1>5, <2>1, EmitIs
  <2> QED
    BY <1>1, <1>5, <1>6, <1>8, <2>2 DEF SameOutput, SameFacts, Slept
<1> QED
  BY <1>7, <1>8 DEF Slept

Finished(e, f, how) ==
    /\ Sole(f) /\ SameFacts(e, f)
    /\ f.nextActivity = e.nextActivity /\ f.nextTimer = e.nextTimer
    /\ f.co[1] = [e.co[1] EXCEPT !.done = TRUE]
    /\ f.returned = TRUE /\ f.panicked = e.panicked
    /\ f.commands = Append(e.commands, Command(ReturnKind[how], 0, 0))

LEMMA FinishIs ==
    ASSUME NEW e, Sole(e), NEW how, NEW f, f = Finish(e, 1, how)
    PROVE  Finished(e, f, how)
<1>1. PICK c : c = [e.co[1] EXCEPT !.done = TRUE]
  OBVIOUS
<1>2. IsCoroutine(c) /\ c.body = 1
  BY <1>1 DEF Sole, IsExecution, IsCoroutine
<1>3. PICK g : g = [e EXCEPT !.co[1].done = TRUE]
  OBVIOUS
<1>4. IsRecord(g) /\ g.co = [e.co EXCEPT ![1] = c] /\ SameSignals(e, g)
  BY <1>1, <1>3 DEF Sole, IsExecution, IsRecord, ExecutionFields, SameSignals
<1>5. Sole(g) /\ g.co[1] = c
  BY <1>2, <1>4, SoleMoves, ZenonT(60)
<1>6. SameBooks(e, g)
  BY <1>3 DEF Sole, IsExecution, IsRecord, ExecutionFields, SameBooks, SameFacts, SameOutput
<1>7. PICK r : r = [g EXCEPT !.returned = TRUE]
  OBVIOUS
<1>8. /\ IsRecord(r) /\ r.co = g.co /\ r.handled = g.handled
      /\ r.pendingSignals = g.pendingSignals
  BY <1>5, <1>7 DEF Sole, IsExecution, IsRecord, ExecutionFields
<1>9. Sole(r)
  <2>1. r.handled \in Nat /\ r.pendingSignals \in Nat
    BY <1>5, <1>8 DEF Sole
  <2> QED
    BY <1>5, <1>8, <2>1, SoleFields
<1>10. /\ SameFacts(g, r) /\ r.nextActivity = g.nextActivity /\ r.nextTimer = g.nextTimer
       /\ r.returned = TRUE /\ r.commands = g.commands /\ r.panicked = g.panicked
  BY <1>5, <1>7 DEF Sole, IsExecution, IsRecord, ExecutionFields, SameFacts
<1>11. f = Emit(r, Command(ReturnKind[how], 0, 0))
  <2>1. e.co[1].body = 1
    BY DEF Sole
  <2> QED
    BY <1>3, <1>7, <2>1 DEF Finish
<1>12. /\ Sole(f) /\ f.co = r.co /\ SameFacts(r, f)
       /\ f.nextActivity = r.nextActivity /\ f.nextTimer = r.nextTimer
       /\ f.commands = Append(r.commands, Command(ReturnKind[how], 0, 0))
       /\ f.returned = r.returned /\ f.panicked = r.panicked
  BY <1>9, <1>11, EmitIs
<1>13. SameFacts(e, f)
  BY <1>6, <1>10, <1>12 DEF SameFacts, SameBooks
<1> QED
  BY <1>1, <1>5, <1>6, <1>8, <1>10, <1>12, <1>13 DEF SameBooks, SameOutput, Finished

LEMMA DrainKeeps ==
    ASSUME NEW e, Sole(e), NEW f, f = DrainSignals(e)
    PROVE  Sole(f) /\ f.co = e.co /\ SameBooks(e, f)
<1>1. IsExecution(e) /\ e.handled \in Nat /\ e.pendingSignals \in Nat
  BY DEF Sole
<1>2. CASE e.handler
  <2>1. f = [e EXCEPT !.handled = @ + e.pendingSignals, !.pendingSignals = 0]
    BY <1>2 DEF DrainSignals
  <2>2. /\ IsRecord(f) /\ f.co = e.co /\ f.handled = e.handled + e.pendingSignals
        /\ f.pendingSignals = 0
    BY <1>1, <2>1 DEF IsExecution, IsRecord, ExecutionFields
  <2>3. SameBooks(e, f)
    BY <1>1, <2>1
       DEF IsExecution, IsRecord, ExecutionFields, SameBooks, SameFacts, SameOutput
  <2>4. f.handled \in Nat /\ f.pendingSignals \in Nat
    BY <1>1, <2>2
  <2> QED
    BY <2>2, <2>3, <2>4, SoleFields
<1>3. CASE ~e.handler
  <2>1. f = e
    BY <1>3 DEF DrainSignals
  <2> QED
    BY <2>1 DEF SameBooks, SameFacts, SameOutput
<1> QED
  BY <1>2, <1>3

LEMMA PumpIs ==
    ASSUME NEW e, Sole(e), NEW f, f = Go(e, Pump)
    PROVE  Sole(f) /\ f.co[1] = e.co[1] /\ SameBooks(e, f)
<1>1. IsExecution(e) /\ IsTable(e.co) /\ 1 \in DOMAIN e.co
  BY DEF Sole, IsExecution
<1>2. Moves(e, f, 0) /\ SameSignals(e, f) /\ f.co[Len(e.co) + 1] = Coroutine(Pump)
  BY <1>1, GoIs
<1>3. f.co = Append(e.co, Coroutine(Pump)) /\ SameBooks(e, f)
  BY <1>1 DEF Go, IsExecution, IsRecord, ExecutionFields, SameBooks, SameFacts, SameOutput
<1>4. Len(f.co) = Len(e.co) + 1 /\ Len(e.co) \in Nat /\ DOMAIN e.co = 1 .. Len(e.co)
  BY <1>1, <1>3, TableAppend, TableIs
<1>5. IsTable(f.co)
  BY <1>2 DEF Moves, IsExecution
<1>6. DOMAIN f.co = 1 .. (Len(e.co) + 1)
  BY <1>4, <1>5, TableIs
<1>7. \A j \in DOMAIN f.co : j # 1 => f.co[j].body = Pump
  <2> SUFFICES ASSUME NEW j \in DOMAIN f.co, j # 1 PROVE f.co[j].body = Pump
    OBVIOUS
  <2>1. CASE j = Len(e.co) + 1
    BY <1>2, <2>1 DEF Coroutine
  <2>2. CASE j \in DOMAIN e.co
    BY <1>2, <2>2 DEF Moves, Sole
  <2> QED
    BY <1>4, <1>6, <2>1, <2>2
<1>8. f.co[1] = e.co[1]
  BY <1>1, <1>2 DEF Moves
<1> QED
  BY <1>1, <1>2, <1>3, <1>7, <1>8 DEF Sole, Moves, SameSignals

LEMMA SameBooksOn ==
    ASSUME NEW e, NEW f, NEW g, SameBooks(e, f), SameBooks(f, g)
    PROVE  SameBooks(e, g)
BY DEF SameBooks, SameFacts, SameOutput

LEMMA HandleIs ==
    ASSUME NEW e, Sole(e), NEW f, f = SetSignalHandler(e)
    PROVE  Sole(f) /\ f.co[1] = e.co[1] /\ SameBooks(e, f)
<1>1. PICK a : a = [e EXCEPT !.handler = TRUE]
  OBVIOUS
<1>2. Sole(a) /\ a.co = e.co /\ SameBooks(e, a)
  <2>1. /\ IsRecord(a) /\ a.co = e.co /\ a.handled = e.handled
        /\ a.pendingSignals = e.pendingSignals
    BY <1>1 DEF Sole, IsExecution, IsRecord, ExecutionFields
  <2>2. SameBooks(e, a)
    BY <1>1
       DEF Sole, IsExecution, IsRecord, ExecutionFields, SameBooks, SameFacts, SameOutput
  <2>3. a.handled \in Nat /\ a.pendingSignals \in Nat
    BY <2>1 DEF Sole
  <2> QED
    BY <2>1, <2>2, <2>3, SoleFields
<1>3. PICK d : d = DrainSignals(a)
  OBVIOUS
<1>4. Sole(d) /\ d.co = e.co /\ SameBooks(a, d)
  BY <1>2, <1>3, DrainKeeps
<1>5. SameBooks(e, d)
  BY <1>2, <1>4, SameBooksOn
<1>6. PICK b : b = [d EXCEPT !.pump = TRUE]
  OBVIOUS
<1>7. Sole(b) /\ b.co = d.co /\ SameBooks(d, b)
  <2>1. /\ IsRecord(b) /\ b.co = d.co /\ b.handled = d.handled
        /\ b.pendingSignals = d.pendingSignals
    BY <1>4, <1>6 DEF Sole, IsExecution, IsRecord, ExecutionFields
  <2>2. SameBooks(d, b)
    BY <1>4, <1>6
       DEF Sole, IsExecution, IsRecord, ExecutionFields, SameBooks, SameFacts, SameOutput
  <2>3. b.handled \in Nat /\ b.pendingSignals \in Nat
    BY <1>4, <2>1 DEF Sole
  <2> QED
    BY <1>4, <2>1, <2>2, <2>3, SoleFields
<1>8. PICK g : g = Go(b, Pump)
  OBVIOUS
<1>9. Sole(g) /\ g.co[1] = b.co[1] /\ SameBooks(b, g)
  BY <1>7, <1>8, PumpIs
<1>10. f = d \/ f = g
  BY <1>1, <1>3, <1>6, <1>8 DEF SetSignalHandler
<1>11. SameBooks(e, g)
  BY <1>5, <1>7, <1>9, SameBooksOn
<1> QED
  BY <1>4, <1>5, <1>7, <1>9, <1>10, <1>11

-----------------------------------------------------------------------------
(* An Execution follows a thread, step by step.                            *)

(* Behind the first m.                                                     *)
Beyond(c, m) == SubSeq(c, m + 1, Len(c))

OfThread(c, s) ==
    c.pc = s.pc /\ c.futures = s.futures /\ c.timer = s.timer /\ c.done = s.done

(* Execution x has been told K by history: outcomes, timers that fired,    *)
(* what was scheduled, and so how many calls the server has heard of.      *)
Knows(x, K) ==
    /\ x.outcomes = K.outs /\ x.fired = K.fired
    /\ x.scheduledActivities = K.acts /\ x.scheduledTimers = K.tims

(* It has come as far as thread s, and answers with what is new.           *)
Follows(x, s, K) ==
    /\ Sole(x) /\ OfThread(x.co[1], s) /\ Knows(x, K)
    /\ x.nextActivity = Len(s.acts) /\ x.nextTimer = Len(s.tims)
    /\ x.commands = Beyond(s.calls, K.told)
    /\ x.returned = s.done /\ x.panicked = FALSE

(* The step from s to t only repeats what is recorded, or nothing of it.   *)
Repeats(K, t) ==
    /\ Begins(t.acts, K.acts) /\ Begins(t.tims, K.tims) /\ Len(t.calls) <= K.told
    /\ ~t.done
Adds(K, s) == Len(K.acts) <= Len(s.acts) /\ Len(K.tims) <= Len(s.tims) /\ K.told <= Len(s.calls)
Tells(K, s, t) == Repeats(K, t) \/ Adds(K, s)

IsKnown(K) == K.told \in Nat /\ Len(K.acts) \in Nat /\ Len(K.tims) \in Nat

LEMMA BeyondIs ==
    ASSUME NEW S, NEW c \in Seq(S), NEW x \in S, NEW m \in Nat
    PROVE  /\ m <= Len(c) => Beyond(Append(c, x), m) = Append(Beyond(c, m), x)
           /\ Len(c) <= m => Beyond(c, m) = << >>
<1>1. CASE m <= Len(c)
  <2>1. PICK d : d = Append(c, x)
    OBVIOUS
  <2>2. d \in Seq(S) /\ Len(d) = Len(c) + 1 /\ (\A i \in 1 .. Len(c) : d[i] = c[i])
        /\ d[Len(c) + 1] = x
    BY <2>1
  <2>3. PICK a, b : a = Beyond(d, m) /\ b = Beyond(c, m)
    OBVIOUS
  <2>4. a \in Seq(S) /\ Len(a) = Len(c) + 1 - m /\ \A i \in 1 .. Len(a) : a[i] = d[m + i]
    BY <1>1, <2>2, <2>3 DEF Beyond
  <2>5. b \in Seq(S) /\ Len(b) = Len(c) - m /\ \A i \in 1 .. Len(b) : b[i] = c[m + i]
    BY <1>1, <2>3 DEF Beyond
  <2>6. PICK g : g = Append(b, x)
    OBVIOUS
  <2>7. g \in Seq(S) /\ Len(g) = Len(b) + 1 /\ (\A i \in 1 .. Len(b) : g[i] = b[i])
        /\ g[Len(b) + 1] = x
    BY <2>5, <2>6
  <2>8. Len(a) = Len(g)
    BY <1>1, <2>4, <2>5, <2>7
  <2>9. \A i \in 1 .. Len(a) : a[i] = g[i]
    <3> SUFFICES ASSUME NEW i \in 1 .. Len(a) PROVE a[i] = g[i]
      OBVIOUS
    <3>1. a[i] = d[m + i] /\ Len(c) \in Nat
      BY <2>4
    <3>2. CASE i = Len(b) + 1
      <4>1. m + i = Len(c) + 1
        BY <1>1, <2>5, <3>1, <3>2
      <4> QED
        BY <2>2, <2>7, <3>1, <3>2, <4>1
    <3>3. CASE i \in 1 .. Len(b)
      <4>1. m + i \in 1 .. Len(c)
        BY <1>1, <2>5, <3>1, <3>3
      <4> QED
        BY <2>2, <2>5, <2>7, <3>1, <3>3, <4>1
    <3> QED
      BY <1>1, <2>4, <2>5, <3>1, <3>2, <3>3
  <2>10. a = g
    BY <2>4, <2>7, <2>8, <2>9
  <2>11. Len(c) <= m => Beyond(c, m) = << >>
    BY <1>1 DEF Beyond
  <2> QED
    BY <2>1, <2>3, <2>6, <2>10, <2>11
<1>2. CASE ~(m <= Len(c))
  <2>1. m + 1 > Len(c) /\ Len(c) \in Nat
    BY <1>2
  <2>2. SubSeq(c, m + 1, Len(c)) = << >>
    BY <2>1
  <2> QED
    BY <1>2, <2>2 DEF Beyond
<1> QED
  BY <1>1, <1>2

(* The commands after a call.                                              *)
LEMMA CallIs ==
    ASSUME NEW K, IsKnown(K), NEW calls \in Seq(Order), NEW c \in Order, NEW calls2,
           calls2 = Append(calls, c)
    PROVE  /\ K.told <= Len(calls) => Beyond(calls2, K.told) = Append(Beyond(calls, K.told), c)
           /\ Len(calls2) <= K.told => Beyond(calls2, K.told) = Beyond(calls, K.told)
<1>1. PICK m \in Nat : m = K.told
  BY DEF IsKnown
<1>2. calls2 \in Seq(Order) /\ Len(calls2) = Len(calls) + 1 /\ Len(calls) \in Nat
  OBVIOUS
<1>3. m <= Len(calls) => Beyond(calls2, m) = Append(Beyond(calls, m), c)
  BY BeyondIs
<1>4. Len(calls2) <= m => Beyond(calls2, m) = << >> /\ Beyond(calls, m) = << >>
  <2> SUFFICES ASSUME Len(calls2) <= m PROVE Beyond(calls2, m) = << >> /\ Beyond(calls, m) = << >>
    OBVIOUS
  <2>1. Len(calls) <= m
    BY <1>2
  <2> QED
    BY <1>2, <2>1, BeyondIs
<1> QED
  BY <1>1, <1>3, <1>4

LEMMA ParkedIs ==
    ASSUME NEW x, NEW s, NEW K, Follows(x, s, K), IsThread(s)
    PROVE  Parked(Prog, x, 1) <=> Waits(K.outs, K.fired, s)
<1>1. PICK c, i : c = x.co[1] /\ i = Prog[1][s.pc]
  OBVIOUS
<1>2. /\ c.body = 1 /\ c.pc = s.pc /\ c.futures = s.futures /\ c.timer = s.timer
      /\ c.done = s.done /\ x.outcomes = K.outs /\ x.fired = K.fired
  BY <1>1 DEF Follows, Sole, OfThread, Knows
<1>3. Prog[c.body] = Prog[1] /\ Prog[c.body][c.pc] = i
  BY <1>1, <1>2
<1> QED
  BY <1>1, <1>2, <1>3 DEF Parked, Waits

LEMMA KnowsStill ==
    ASSUME NEW x, NEW y, NEW K, Knows(x, K), SameFacts(x, y)
    PROVE  Knows(y, K)
BY DEF Knows, SameFacts

(* Going on, the books as they are.                                        *)
LEMMA FurtherFollows ==
    ASSUME NEW x, NEW s, NEW K, Follows(x, s, K), NEW y, Sole(y), SameBooks(x, y),
           NEW t, OfThread(y.co[1], t), t.acts = s.acts, t.tims = s.tims, t.calls = s.calls,
           t.done = s.done
    PROVE  Follows(y, t, K)
<1>1. SameFacts(x, y)
  BY DEF SameBooks
<1>2. Knows(y, K)
  BY <1>1, KnowsStill DEF Follows
<1> QED
  BY <1>2 DEF Follows, SameBooks, SameOutput

LEMMA StepFollows ==
    ASSUME Straight, NEW x, NEW s, NEW K, IsKnown(K), Follows(x, s, K), IsThread(s),
           ~Waits(K.outs, K.fired, s), Tells(K, s, Forth(K.outs, s))
    PROVE  Follows(Step(Prog, x, 1), Forth(K.outs, s), K)
<1>1. PICK y, t : y = Step(Prog, x, 1) /\ t = Forth(K.outs, s)
  OBVIOUS
<1>2. /\ Sole(x) /\ OfThread(x.co[1], s) /\ Knows(x, K)
      /\ x.nextActivity = Len(s.acts) /\ x.nextTimer = Len(s.tims)
      /\ x.commands = Beyond(s.calls, K.told)
      /\ x.returned = s.done /\ x.panicked = FALSE
  BY DEF Follows
<1>3. PICK n \in Nat, m \in Nat, L \in Nat : n = s.pc /\ m = s.timer /\ L = Len(Prog[1])
  BY ThreadIs, BodyIs
<1>4. PICK c, i : c = x.co[1] /\ i = Prog[1][n]
  OBVIOUS
<1>5. /\ c.body = 1 /\ c.pc = n /\ c.futures = s.futures /\ c.timer = m /\ c.done = s.done
      /\ DOMAIN c = {"body", "pc", "futures", "timer", "done"}
  BY <1>2, <1>3, <1>4 DEF Sole, OfThread, IsExecution, IsCoroutine
<1>6. /\ s.calls \in Seq(Order) /\ s.acts \in Seq(Record) /\ s.tims \in Seq(Nat)
      /\ Len(s.acts) \in Nat /\ Len(s.tims) \in Nat
  BY ThreadIs
<1>7. s.done = FALSE
  BY ThreadIs DEF Waits
<1>8. Later(s, t)
  BY <1>1, ForthKeeps
<1>9. ASSUME NEW how \in Return, y = Finish(x, 1, how), t = Ended(s, how)
      PROVE  Follows(y, t, K)
  <2>1. /\ Sole(y) /\ SameFacts(x, y)
        /\ y.nextActivity = x.nextActivity /\ y.nextTimer = x.nextTimer
        /\ y.co[1] = [c EXCEPT !.done = TRUE]
        /\ y.returned = TRUE /\ y.panicked = x.panicked
        /\ y.commands = Append(x.commands, Command(ReturnKind[how], 0, 0))
    <3>1. PICK h : h = how
      OBVIOUS
    <3>2. y = Finish(x, 1, h)
      BY <1>9, <3>1
    <3> QED
      <4>1. Finished(x, y, h)
        BY <1>2, <3>2, FinishIs
      <4> QED
        BY <1>4, <3>1, <4>1 DEF Finished
  <2>2. PICK call \in Order : call = Command(ReturnKind[how], 0, 0)
    BY DEF Order, Command, Kinds
  <2>3. /\ t.pc = s.pc /\ t.futures = s.futures /\ t.timer = s.timer /\ t.done = TRUE
        /\ t.acts = s.acts /\ t.tims = s.tims /\ t.calls = Append(s.calls, call)
    BY <1>9, <2>2 DEF Ended, Thread
  <2>4. OfThread(y.co[1], t)
    BY <1>3, <1>5, <2>1, <2>3 DEF OfThread
  <2>5. K.told <= Len(s.calls)
    BY <1>1, <2>3 DEF Tells, Adds, Repeats
  <2>6. Beyond(t.calls, K.told) = Append(Beyond(s.calls, K.told), call)
    BY <1>6, <2>3, <2>5, CallIs
  <2>7. y.commands = Beyond(t.calls, K.told)
    BY <1>2, <2>1, <2>2, <2>6
  <2>8. Knows(y, K)
    BY <1>2, <2>1, KnowsStill
  <2>9. y.nextActivity = Len(t.acts) /\ y.nextTimer = Len(t.tims)
    BY <1>2, <2>1, <2>3
  <2> QED
    BY <1>2, <2>1, <2>3, <2>4, <2>7, <2>8, <2>9 DEF Follows
<1>10. CASE n > L
  <2>1. y = Finish(x, 1, "complete") /\ t = Ended(s, "complete") /\ "complete" \in Return
    <3>1. x.co[1].pc > Len(Prog[x.co[1].body]) /\ s.pc > Len(Prog[1])
      BY <1>3, <1>4, <1>5, <1>10
    <3> QED
      BY <1>1, <3>1 DEF Step, Forth, Return
  <2> QED
    BY <1>1, <1>9, <2>1
<1>11. CASE n <= L
  <2>1. /\ ~(x.co[1].pc > Len(Prog[x.co[1].body])) /\ Prog[x.co[1].body][x.co[1].pc] = i
        /\ ~(s.pc > Len(Prog[1])) /\ Prog[1][s.pc] = i
    BY <1>3, <1>4, <1>5, <1>11
  <2>2. i.arg \in Nat /\ i.op \in {"activity", "get", "sleep", "handle"} \cup Return
    BY <1>4, <1>11, BodyIs, ThreadIs, <1>3
  <2>3. PICK next : next = [x EXCEPT !.co[1].pc = @ + 1]
    OBVIOUS
  <2>4. Sole(next) /\ next.co[1] = [c EXCEPT !.pc = n + 1] /\ SameBooks(x, next)
    <3>1. next = [x EXCEPT !.co[1].pc = n + 1]
      BY <1>4, <1>5, <2>3
    <3>2. n + 1 \in Nat \ {0}
      OBVIOUS
    <3> QED
      <4>1. Placed(x, next, n + 1)
        BY <1>2, <3>1, <3>2, PlaceIs
      <4> QED
        BY <1>4, <4>1 DEF Placed
  <2>5. PICK nc : nc = next.co[1]
    OBVIOUS
  <2>6. /\ nc.pc = n + 1 /\ nc.futures = s.futures /\ nc.timer = m /\ nc.done = s.done
        /\ DOMAIN nc = {"body", "pc", "futures", "timer", "done"}
    BY <1>5, <2>4, <2>5
  <2>7. ASSUME y = next, t = Further(s)
        PROVE  Follows(y, t, K)
    <3>1. /\ t.pc = n + 1 /\ t.futures = s.futures /\ t.timer = m /\ t.done = s.done
          /\ t.acts = s.acts /\ t.tims = s.tims /\ t.calls = s.calls
      BY <1>3, <1>7, <2>7 DEF Further, Thread
    <3>2. OfThread(y.co[1], t)
      BY <2>5, <2>6, <2>7, <3>1 DEF OfThread
    <3> QED
      BY <2>4, <2>7, <3>1, <3>2, FurtherFollows
  <2>8. CASE i.op = "activity"
    <3>1. y = ScheduleActivity(next, 1, i.arg)
      BY <1>1, <2>1, <2>3, <2>8 DEF Step
    <3>2. t = Calling(s, i.arg)
      BY <1>1, <2>1, <2>8 DEF Forth
    <3>3. PICK id \in Nat, type \in Nat : id = Len(s.acts) + 1 /\ type = i.arg
      BY <1>6, <2>2
    <3>4. PICK a \in Record, call \in Order :
             /\ a = [id |-> id, type |-> type]
             /\ call = Command("ScheduleActivityTask", id, type)
      BY DEF Record, Order, Command, Kinds
    <3>5. /\ t.pc = n + 1 /\ t.futures = Append(s.futures, id) /\ t.timer = m
          /\ t.acts = Append(s.acts, a) /\ t.tims = s.tims /\ t.calls = Append(s.calls, call)
      BY <1>3, <3>2, <3>3, <3>4 DEF Calling, Thread
    <3>6. t.done = s.done
      BY <1>7, <3>2 DEF Calling, Thread
    <3>7. /\ Len(t.acts) = id /\ t.acts[id] = a
          /\ Len(t.calls) = Len(s.calls) + 1 /\ Len(s.calls) \in Nat
      BY <1>6, <3>3, <3>5, SMTT(30)
    <3>8. id = next.nextActivity + 1
      BY <1>2, <2>4, <3>3 DEF SameBooks
    <3>9. PICK A, N : A = K.acts /\ N = Len(A) /\ N \in Nat /\ next.scheduledActivities = A
      BY <1>2, <2>4 DEF SameBooks, SameFacts, Knows, IsKnown
    <3>10. \/ id <= N /\ A[id] = a /\ Len(t.calls) <= K.told
           \/ ~(id <= N) /\ K.told <= Len(s.calls)
      <4>1. CASE Repeats(K, t)
        BY <3>3, <3>7, <3>9, <4>1, SMTT(30) DEF Repeats, Begins
      <4>2. CASE Adds(K, s)
        BY <1>6, <3>3, <3>9, <4>2 DEF Adds
      <4> QED
        BY <1>1, <4>1, <4>2 DEF Tells
    <3>11. id <= Len(next.scheduledActivities)
              => next.scheduledActivities[id] = [id |-> id, type |-> type]
      BY <3>4, <3>9, <3>10
    <3>12. y = ScheduleActivity(next, 1, type)
      BY <3>1, <3>3
    <3>13. /\ Sole(y) /\ SameFacts(next, y) /\ y.nextActivity = id
           /\ y.nextTimer = next.nextTimer
           /\ y.co[1] = [next.co[1] EXCEPT !.futures = Append(@, id)]
           /\ y.returned = next.returned /\ y.panicked = next.panicked
           /\ id <= Len(next.scheduledActivities) => y.commands = next.commands
           /\ ~(id <= Len(next.scheduledActivities))
                 => y.commands = Append(next.commands, Command("ScheduleActivityTask", id, type))
      <4>1. Scheduled(next, y, id, type)
        BY <2>4, <3>8, <3>11, <3>12, ScheduleIs
      <4> QED
        BY <4>1 DEF Scheduled
    <3>14. /\ K.told <= Len(s.calls)
                 => Beyond(t.calls, K.told) = Append(Beyond(s.calls, K.told), call)
           /\ Len(t.calls) <= K.told => Beyond(t.calls, K.told) = Beyond(s.calls, K.told)
      BY <1>6, <3>5, CallIs
    <3>15. next.commands = Beyond(s.calls, K.told)
      BY <1>2, <2>4 DEF SameBooks, SameOutput
    <3>16. y.commands = Beyond(t.calls, K.told)
      BY <3>4, <3>9, <3>10, <3>13, <3>14, <3>15
    <3>17. OfThread(y.co[1], t)
      BY <2>5, <2>6, <3>5, <3>6, <3>13 DEF OfThread
    <3>18. Knows(y, K)
      BY <1>2, <2>4, <3>13, KnowsStill DEF SameBooks
    <3>19. y.nextActivity = Len(t.acts) /\ y.nextTimer = Len(t.tims)
      BY <1>2, <2>4, <3>5, <3>7, <3>13 DEF SameBooks
    <3>20. y.returned = t.done /\ y.panicked = FALSE
      BY <1>2, <2>4, <3>6, <3>13 DEF SameBooks, SameOutput
    <3> QED
      BY <1>1, <3>13, <3>16, <3>17, <3>18, <3>19, <3>20 DEF Follows
  <2>9. CASE i.op = "get"
    <3>1. PICK g : g = s.futures[i.arg]
      OBVIOUS
    <3>2. x.outcomes[x.co[1].futures[i.arg]] = K.outs[g]
      BY <1>2, <1>4, <1>5, <3>1 DEF Knows
    <3>3. y = IF K.outs[g] = "failure" THEN Finish(x, 1, "fail") ELSE next
      BY <1>1, <2>1, <2>3, <2>9, <3>2 DEF Step
    <3>4. t = IF K.outs[g] = "failure" THEN Ended(s, "fail") ELSE Further(s)
      BY <1>1, <2>1, <2>9, <3>1 DEF Forth
    <3>5. "fail" \in Return
      BY DEF Return
    <3>6. CASE K.outs[g] = "failure"
      BY <1>1, <1>9, <3>3, <3>4, <3>5, <3>6
    <3>7. CASE K.outs[g] # "failure"
      BY <1>1, <2>7, <3>3, <3>4, <3>7
    <3> QED
      BY <3>6, <3>7
  <2>10. CASE i.op = "sleep" /\ m = 0
    <3>1. y = ScheduleTimer(x, 1)
      BY <1>1, <1>4, <1>5, <2>1, <2>10 DEF Step
    <3>2. t = Sleeping(s)
      BY <1>1, <1>3, <2>1, <2>10 DEF Forth
    <3>3. PICK id \in Nat : id = Len(s.tims) + 1
      BY <1>6
    <3>4. PICK call \in Order : call = Command("StartTimer", id, 0)
      BY DEF Order, Command, Kinds
    <3>5. /\ t.pc = n /\ t.futures = s.futures /\ t.timer = id
          /\ t.acts = s.acts /\ t.tims = Append(s.tims, id) /\ t.calls = Append(s.calls, call)
      BY <1>3, <3>2, <3>3, <3>4 DEF Sleeping, Thread
    <3>6. t.done = s.done
      BY <1>7, <3>2 DEF Sleeping, Thread
    <3>7. /\ Len(t.tims) = id /\ t.tims[id] = id
          /\ Len(t.calls) = Len(s.calls) + 1 /\ Len(s.calls) \in Nat
      BY <1>6, <3>3, <3>5
    <3>8. id = x.nextTimer + 1
      BY <1>2, <3>3
    <3>9. PICK T, N : T = K.tims /\ N = Len(T) /\ N \in Nat /\ x.scheduledTimers = T
      BY <1>2 DEF Knows, IsKnown
    <3>10. \/ id <= N /\ T[id] = id /\ Len(t.calls) <= K.told
           \/ ~(id <= N) /\ K.told <= Len(s.calls)
      <4>1. CASE Repeats(K, t)
        BY <3>3, <3>7, <3>9, <4>1 DEF Repeats, Begins
      <4>2. CASE Adds(K, s)
        BY <1>6, <3>3, <3>9, <4>2 DEF Adds
      <4> QED
        BY <1>1, <4>1, <4>2 DEF Tells
    <3>11. id <= Len(x.scheduledTimers) => x.scheduledTimers[id] = id
      BY <3>9, <3>10
    <3>12. /\ Sole(y) /\ SameFacts(x, y) /\ y.nextActivity = x.nextActivity
           /\ y.nextTimer = id
           /\ y.co[1] = [x.co[1] EXCEPT !.timer = id]
           /\ y.returned = x.returned /\ y.panicked = x.panicked
           /\ id <= Len(x.scheduledTimers) => y.commands = x.commands
           /\ ~(id <= Len(x.scheduledTimers))
                 => y.commands = Append(x.commands, Command("StartTimer", id, 0))
      <4>1. Slept(x, y, id)
        BY <1>2, <3>1, <3>8, <3>11, SleepIs
      <4> QED
        BY <4>1 DEF Slept
    <3>13. /\ K.told <= Len(s.calls)
                 => Beyond(t.calls, K.told) = Append(Beyond(s.calls, K.told), call)
           /\ Len(t.calls) <= K.told => Beyond(t.calls, K.told) = Beyond(s.calls, K.told)
      BY <1>6, <3>5, CallIs
    <3>14. y.commands = Beyond(t.calls, K.told)
      BY <1>2, <3>4, <3>9, <3>10, <3>12, <3>13
    <3>15. OfThread(y.co[1], t)
      BY <1>4, <1>5, <3>5, <3>6, <3>12 DEF OfThread
    <3>16. Knows(y, K)
      BY <1>2, <3>12, KnowsStill
    <3>17. y.nextActivity = Len(t.acts) /\ y.nextTimer = Len(t.tims)
      BY <1>2, <3>5, <3>7, <3>12
    <3>18. y.returned = t.done /\ y.panicked = FALSE
      BY <1>2, <3>6, <3>12
    <3> QED
      BY <1>1, <3>12, <3>14, <3>15, <3>16, <3>17, <3>18 DEF Follows
  <2>11. CASE i.op = "sleep" /\ m # 0
    <3>1. y = [next EXCEPT !.co[1].timer = 0]
      BY <1>1, <1>4, <1>5, <2>1, <2>3, <2>11 DEF Step
    <3>2. t = Woken(s)
      BY <1>1, <1>3, <2>1, <2>11 DEF Forth
    <3>3. Sole(y) /\ y.co[1] = [next.co[1] EXCEPT !.timer = 0] /\ SameBooks(next, y)
      BY <2>4, <3>1, WakeIs
    <3>4. /\ t.pc = n + 1 /\ t.futures = s.futures /\ t.timer = 0
          /\ t.acts = s.acts /\ t.tims = s.tims /\ t.calls = s.calls
      BY <1>3, <3>2 DEF Woken, Thread
    <3>5. t.done = s.done
      BY <1>7, <3>2 DEF Woken, Thread
    <3>6. OfThread(y.co[1], t)
      BY <2>5, <2>6, <3>3, <3>4, <3>5 DEF OfThread
    <3>7. SameBooks(x, y)
      BY <2>4, <3>3, SameBooksOn
    <3> QED
      BY <1>1, <3>3, <3>4, <3>5, <3>6, <3>7, FurtherFollows
  <2>12. CASE i.op = "handle"
    <3>1. y = SetSignalHandler(next)
      BY <1>1, <2>1, <2>3, <2>12 DEF Step
    <3>2. t = Further(s)
      BY <1>1, <2>1, <2>12 DEF Forth
    <3>3. Sole(y) /\ y.co[1] = next.co[1] /\ SameBooks(next, y)
      BY <2>4, <3>1, HandleIs
    <3>4. /\ t.pc = n + 1 /\ t.futures = s.futures /\ t.timer = m /\ t.done = s.done
          /\ t.acts = s.acts /\ t.tims = s.tims /\ t.calls = s.calls
      BY <1>3, <1>7, <3>2 DEF Further, Thread
    <3>5. OfThread(y.co[1], t)
      BY <2>5, <2>6, <3>3, <3>4 DEF OfThread
    <3>6. SameBooks(x, y)
      BY <2>4, <3>3, SameBooksOn
    <3> QED
      BY <1>1, <3>3, <3>4, <3>5, <3>6, FurtherFollows
  <2>13. CASE i.op \in Return
    <3>1. i.op \notin {"activity", "get", "sleep", "go", "handle", "onsignal", "oncancel"}
      BY <2>13 DEF Return
    <3>2. y = Finish(x, 1, i.op)
      BY <1>1, <2>1, <3>1 DEF Step
    <3>3. t = Ended(s, i.op)
      BY <1>1, <2>1, <3>1 DEF Forth
    <3> QED
      BY <1>1, <1>9, <2>13, <3>2, <3>3
  <2> QED
    BY <1>1, <2>2, <2>8, <2>9, <2>10, <2>11, <2>12, <2>13
<1> QED
  BY <1>1, <1>3, <1>10, <1>11

-----------------------------------------------------------------------------
(* A turn, and a round, that follow a thread to where it rests.            *)

(* What is left of path q, from step j on, agrees with what is known.      *)
Guided(K, q, j, N) == \A k \in Nat : j <= k /\ k + 1 <= N => Tells(K, q[k], q[k + 1])

(* The path of a function that comes to rest after N steps.                *)
Course(q, K, N) ==
    N \in Nat /\ Path(q, K.outs, K.fired, N) /\ Waits(K.outs, K.fired, q[N])

LEMMA SoleWorks ==
    ASSUME NEW x, Sole(x)
    PROVE  /\ Worked(x, 1) /\ Most(x, 1) = 2 * Len(Prog[1]) + 1
           /\ DOMAIN x.co \subseteq DOMAIN Step(Prog, x, 1).co
<1>1. Worked(x, 1) /\ x.handled \in Nat /\ x.pendingSignals \in Nat /\ x.co[1].body = 1
  BY DEF Sole, Worked, Pump
<1>2. Quiet(x, Step(Prog, x, 1), 1) \/ Moves(x, Step(Prog, x, 1), 1)
  BY <1>1, StepIs
<1>3. Moves(x, Step(Prog, x, 1), 1)
  BY <1>2 DEF Quiet
<1>4. Most(x, 1) = 2 * Len(Prog[1]) + 1
  BY <1>1 DEF Most
<1> QED
  BY <1>1, <1>3, <1>4 DEF Moves

LEMMA TurnRests ==
    ASSUME Straight, NEW K, IsKnown(K), NEW q, NEW N, Course(q, K, N),
           NEW j \in Nat, j <= N, Guided(K, q, j, N),
           NEW x, Follows(x, q[j], K)
    PROVE  /\ Follows(Turn(x, 1), q[N], K)
           /\ DOMAIN x.co \subseteq DOMAIN Turn(x, 1).co
<1>1. PICK o, f : o = K.outs /\ f = K.fired
  OBVIOUS
<1>2. N \in Nat /\ Path(q, o, f, N) /\ Waits(o, f, q[N])
  BY <1>1 DEF Course
<1>3. \A k \in 0 .. N : IsThread(q[k])
  BY <1>2, PathIs
<1>4. CASE x.co[1].done
  <2>1. q[j].done
    BY <1>4 DEF Follows, OfThread
  <2>2. Waits(o, f, q[j])
    BY <2>1 DEF Waits
  <2>3. j = N
    <3>1. CASE j + 1 <= N
      BY <1>2, <2>2, <3>1, PathStep
    <3> QED
      BY <1>2, <3>1
  <2>4. Turn(x, 1) = x
    BY <1>4 DEF Turn
  <2> QED
    BY <2>3, <2>4
<1>5. CASE ~x.co[1].done
  <2>1. Sole(x)
    BY DEF Follows
  <2>2. PICK M \in Nat : M = 2 * Len(Prog[1]) + 1 /\ Most(x, 1) = M /\ N <= M
    <3>1. PICK L \in Nat : L = Len(Prog[1])
      BY BodyIs
    <3>2. IsThread(q[N]) /\ N + Left(q[N]) <= 2 * L + 1
      BY <1>2, <3>1, PathIs
    <3>3. Left(q[N]) \in Nat
      BY <3>2, LeftIs
    <3>4. Most(x, 1) = 2 * L + 1
      BY <2>1, <3>1, SoleWorks
    <3> QED
      BY <1>2, <3>1, <3>2, <3>3, <3>4
  <2>3. PICK r : Runs(r, x, 1, M) /\ Resume(Prog, x, 1) = r[M]
    <3>1. x.co[1].body # Pump
      BY <2>1 DEF Sole, Pump
    <3> QED
      BY <2>2, <3>1, CoroutineRuns
  <2>4. r[0] = x /\ \A i \in 1 .. M : r[i] = Onward(r[i - 1], 1)
    BY <2>3 DEF Runs
  <2> DEFINE At(i, k) == /\ k \in Nat /\ k <= N /\ j <= k /\ (k = N \/ k = j + i)
                         /\ Follows(r[i], q[k], K) /\ DOMAIN x.co \subseteq DOMAIN r[i].co
             S == {i \in Nat : i <= M => \E k : At(i, k)}
  <2>5. 0 \in S
    <3>1. At(0, j)
      BY <1>2, <2>4
    <3> QED
      BY <3>1
  <2>6. ASSUME NEW i \in S \cap Nat PROVE i + 1 \in S
    <3> SUFFICES ASSUME i + 1 <= M PROVE \E k : At(i + 1, k)
      OBVIOUS
    <3>1. PICK k : At(i, k)
      BY <2>6
    <3>2. PICK y : y = r[i]
      OBVIOUS
    <3>3. r[i + 1] = Onward(y, 1)
      BY <2>4, <3>2
    <3>4. /\ k \in Nat /\ k <= N /\ j <= k /\ (k = N \/ k = j + i)
          /\ Follows(y, q[k], K) /\ DOMAIN x.co \subseteq DOMAIN y.co
      BY <3>1, <3>2
    <3>5. IsThread(q[k])
      BY <1>2, <1>3, <3>4
    <3>6. CASE k = N
      <4>1. Parked(Prog, y, 1)
        BY <1>1, <1>2, <3>4, <3>5, <3>6, ParkedIs
      <4>2. r[i + 1] = y
        BY <3>3, <4>1 DEF Onward
      <4>3. At(i + 1, N)
        BY <1>2, <3>4, <3>6, <4>2
      <4> QED
        BY <4>3
    <3>7. CASE k + 1 <= N
      <4>1. ~Waits(o, f, q[k]) /\ q[k + 1] = Forth(o, q[k])
        BY <1>2, <3>4, <3>7, PathStep
      <4>2. ~Parked(Prog, y, 1)
        BY <1>1, <3>4, <3>5, <4>1, ParkedIs
      <4>3. r[i + 1] = Step(Prog, y, 1)
        BY <3>3, <4>2 DEF Onward
      <4>4. Tells(K, q[k], q[k + 1])
        BY <3>4, <3>7 DEF Guided
      <4>5. Follows(Step(Prog, y, 1), q[k + 1], K)
        BY <1>1, <3>4, <3>5, <4>1, <4>4, StepFollows
      <4>6. Sole(y)
        BY <3>4 DEF Follows
      <4>7. DOMAIN x.co \subseteq DOMAIN Step(Prog, y, 1).co
        BY <3>4, <4>6, SoleWorks
      <4>8. k + 1 \in Nat /\ j <= k + 1 /\ k + 1 = j + (i + 1)
        BY <1>2, <3>4, <3>7
      <4>9. At(i + 1, k + 1)
        BY <3>7, <4>3, <4>5, <4>7, <4>8
      <4> QED
        BY <4>9
    <3> QED
      BY <1>2, <3>4, <3>6, <3>7
  <2> HIDE DEF S
  <2>7. M \in S
    BY <2>5, <2>6, AllNaturals
  <2>8. PICK k : At(M, k)
    BY <2>7 DEF S
  <2>9. k = N
    BY <1>2, <2>2, <2>8
  <2>10. Turn(x, 1) = r[M]
    BY <1>5, <2>3 DEF Turn
  <2> QED
    BY <2>8, <2>9, <2>10
<1> QED
  BY <1>4, <1>5

LEMMA PumpTurn ==
    ASSUME NEW K, NEW s, NEW x, Follows(x, s, K), NEW k \in DOMAIN x.co, k # 1
    PROVE  Follows(Turn(x, k), s, K) /\ Turn(x, k).co = x.co
<1>1. Sole(x) /\ x.co[k].body = Pump
  BY DEF Follows, Sole
<1>2. CASE x.co[k].done
  BY <1>2 DEF Turn
<1>3. CASE ~x.co[k].done
  <2>1. PICK y : y = DrainSignals(x)
    OBVIOUS
  <2>2. Turn(x, k) = y
    BY <1>1, <1>3, <2>1 DEF Turn, Resume
  <2>3. Sole(y) /\ y.co = x.co /\ SameBooks(x, y)
    BY <1>1, <2>1, DrainKeeps
  <2>4. OfThread(y.co[1], s)
    BY <2>3 DEF Follows
  <2>5. Follows(y, s, K)
    BY <2>3, <2>4, FurtherFollows
  <2> QED
    BY <2>2, <2>3, <2>5
<1> QED
  BY <1>2, <1>3

LEMMA RoundRests ==
    ASSUME Straight, NEW K, IsKnown(K), NEW q, NEW N, Course(q, K, N),
           NEW j \in Nat, j <= N, Guided(K, q, j, N),
           NEW x, Follows(x, q[j], K)
    PROVE  Follows(ExecuteRound(Prog, x), q[N], K)
<1>1. IsTable(x.co) /\ 1 \in DOMAIN x.co
  BY DEF Follows, Sole, IsExecution
<1>2. PICK C \in Nat : C = Len(x.co) /\ DOMAIN x.co = 1 .. C /\ 1 <= C
  BY <1>1, TableIs
<1>3. PICK r : Rounds(r, x, C) /\ ExecuteRound(Prog, x) = r[C]
  BY <1>2, RoundRuns
<1>4. r[0] = x /\ \A i \in 1 .. C : r[i] = Turn(r[i - 1], i)
  BY <1>3 DEF Rounds
<1> DEFINE S == {i \in Nat : i + 1 <= C => /\ Follows(r[i + 1], q[N], K)
                                           /\ DOMAIN x.co \subseteq DOMAIN r[i + 1].co}
<1>5. 0 \in S
  <2>1. r[1] = Turn(x, 1)
    BY <1>2, <1>4
  <2>2. Follows(r[1], q[N], K) /\ DOMAIN x.co \subseteq DOMAIN r[1].co
    BY <2>1, TurnRests
  <2> QED
    BY <2>2
<1>6. ASSUME NEW i \in S \cap Nat PROVE i + 1 \in S
  <2> SUFFICES ASSUME i + 2 <= C
               PROVE  Follows(r[i + 2], q[N], K) /\ DOMAIN x.co \subseteq DOMAIN r[i + 2].co
    OBVIOUS
  <2>1. PICK y, k : y = r[i + 1] /\ k = i + 2
    OBVIOUS
  <2>2. Follows(y, q[N], K) /\ DOMAIN x.co \subseteq DOMAIN y.co
    BY <1>6, <2>1
  <2>3. k \in DOMAIN y.co /\ k # 1
    BY <1>2, <2>1, <2>2
  <2>4. r[i + 2] = Turn(y, k)
    BY <1>4, <2>1
  <2>5. Follows(Turn(y, k), q[N], K) /\ Turn(y, k).co = y.co
    BY <2>2, <2>3, PumpTurn
  <2> QED
    BY <2>2, <2>4, <2>5
<1> HIDE DEF S
<1>7. Nat \subseteq S
  BY <1>5, <1>6, AllNaturals
<1>8. PICK i \in Nat : C = i + 1
  BY <1>2
<1>9. Follows(r[C], q[N], K)
  BY <1>7, <1>8 DEF S
<1> QED
  BY <1>3, <1>9

-----------------------------------------------------------------------------
(* What the first n events of history h tell.                              *)

Fed(h, n) == LoadHistory(NewExecution, Prefix(h, n))

OutcomesOn(o, ev) ==
    CASE ev.type = "ActivityTaskCompleted" -> Put(o, ev.id, "result")
      [] ev.type = "ActivityTaskFailed" -> Put(o, ev.id, "failure")
      [] OTHER -> o
FiredOn(f, ev) == IF ev.type = "TimerFired" THEN f \cup {ev.id} ELSE f
ActsOn(a, ev) ==
    IF ev.type = "ActivityTaskScheduled" THEN Append(a, [id |-> ev.id, type |-> ev.ref]) ELSE a
TimsOn(a, ev) == IF ev.type = "TimerStarted" THEN Append(a, ev.id) ELSE a

(* Events only tell: the coroutines stay, and so does what they have done. *)
Unmoved(e, f) ==
    /\ f.co = e.co /\ f.nextActivity = e.nextActivity /\ f.nextTimer = e.nextTimer
    /\ SameOutput(e, f)

LEMMA ObserveIs ==
    ASSUME NEW e, IsExecution(e), NEW ev, NEW f, f = Observe(e, ev)
    PROVE  /\ Unmoved(e, f) /\ DOMAIN f = DOMAIN e
           /\ f.outcomes = OutcomesOn(e.outcomes, ev) /\ f.fired = FiredOn(e.fired, ev)
           /\ f.scheduledActivities = e.scheduledActivities
           /\ f.scheduledTimers = e.scheduledTimers
           /\ f.handled = e.handled
           /\ \/ f.pendingSignals = e.pendingSignals
              \/ f.pendingSignals = e.pendingSignals + 1
<1>0. DOMAIN e = ExecutionFields
  BY DEF IsExecution, IsRecord
<1>1. CASE ev.type = "ActivityTaskCompleted"
  <2>1. f = [e EXCEPT !.outcomes = Put(@, ev.id, "result")]
    BY <1>1 DEF Observe
  <2> QED
    BY <1>0, <1>1, <2>1 DEF ExecutionFields, Unmoved, SameOutput, OutcomesOn, FiredOn
<1>2. CASE ev.type = "ActivityTaskFailed"
  <2>1. f = [e EXCEPT !.outcomes = Put(@, ev.id, "failure")]
    BY <1>2 DEF Observe
  <2> QED
    BY <1>0, <1>2, <2>1 DEF ExecutionFields, Unmoved, SameOutput, OutcomesOn, FiredOn
<1>3. CASE ev.type = "TimerFired"
  <2>1. f = [e EXCEPT !.fired = @ \cup {ev.id}]
    BY <1>3 DEF Observe
  <2> QED
    BY <1>0, <1>3, <2>1 DEF ExecutionFields, Unmoved, SameOutput, OutcomesOn, FiredOn
<1>4. CASE ev.type = "WorkflowExecutionCancelRequested"
  <2>1. f = [e EXCEPT !.cancelRequested = TRUE]
    BY <1>4 DEF Observe
  <2> QED
    BY <1>0, <1>4, <2>1 DEF ExecutionFields, Unmoved, SameOutput, OutcomesOn, FiredOn
<1>5. CASE ev.type = "WorkflowExecutionSignaled"
  <2>1. f = [e EXCEPT !.pendingSignals = @ + 1]
    BY <1>5 DEF Observe
  <2> QED
    BY <1>0, <1>5, <2>1 DEF ExecutionFields, Unmoved, SameOutput, OutcomesOn, FiredOn
<1>6. CASE ev.type \notin {"ActivityTaskCompleted", "ActivityTaskFailed", "TimerFired",
                           "WorkflowExecutionCancelRequested", "WorkflowExecutionSignaled"}
  <2>1. f = e
    BY <1>6 DEF Observe
  <2> QED
    BY <1>6, <2>1 DEF Unmoved, SameOutput, OutcomesOn, FiredOn
<1> QED
  BY <1>1, <1>2, <1>3, <1>4, <1>5, <1>6

LEMMA ScanIs ==
    ASSUME NEW e, IsExecution(e), NEW ev, NEW f, f = Scan(e, ev)
    PROVE  /\ Unmoved(e, f) /\ DOMAIN f = DOMAIN e
           /\ f.outcomes = OutcomesOn(e.outcomes, ev) /\ f.fired = FiredOn(e.fired, ev)
           /\ f.scheduledActivities = ActsOn(e.scheduledActivities, ev)
           /\ f.scheduledTimers = TimsOn(e.scheduledTimers, ev)
<1>0. DOMAIN e = ExecutionFields
  BY DEF IsExecution, IsRecord
<1>1. CASE ev.type = "ActivityTaskScheduled"
  <2>1. f = [e EXCEPT !.scheduledActivities = Append(@, [id |-> ev.id, type |-> ev.ref])]
    BY <1>1 DEF Scan
  <2> QED
    BY <1>0, <1>1, <2>1
       DEF ExecutionFields, Unmoved, SameOutput, OutcomesOn, FiredOn, ActsOn, TimsOn
<1>2. CASE ev.type = "TimerStarted"
  <2>1. f = [e EXCEPT !.scheduledTimers = Append(@, ev.id)]
    BY <1>2 DEF Scan
  <2> QED
    BY <1>0, <1>2, <2>1
       DEF ExecutionFields, Unmoved, SameOutput, OutcomesOn, FiredOn, ActsOn, TimsOn
<1>3. CASE ev.type \notin {"ActivityTaskScheduled", "TimerStarted"}
  <2>1. f = Observe(e, ev)
    BY <1>3 DEF Scan
  <2>2. /\ Unmoved(e, f) /\ DOMAIN f = DOMAIN e
        /\ f.outcomes = OutcomesOn(e.outcomes, ev) /\ f.fired = FiredOn(e.fired, ev)
        /\ f.scheduledActivities = e.scheduledActivities
        /\ f.scheduledTimers = e.scheduledTimers
    BY <2>1, ObserveIs
  <2> QED
    BY <1>3, <2>2 DEF ActsOn, TimsOn
<1> QED
  BY <1>1, <1>2, <1>3

(* Prefixes.                                                               *)
LEMMA PrefixIs ==
    ASSUME NEW h, IsTable(h), NEW n \in Nat, n <= Len(h), NEW p, p = Prefix(h, n)
    PROVE  IsTable(p) /\ Len(p) = n /\ \A i \in 1 .. n : p[i] = h[i]
<1>1. Len(h) \in Nat
  BY TableIs
<1>2. IsTable(p)
  BY <1>1, PartIs DEF Prefix
<1>3. Len(p) = n /\ \A i \in 1 .. n : p[i] = h[i]
  BY <1>1 DEF IsTable, Prefix
<1> QED
  BY <1>2, <1>3

LEMMA TablesSame ==
    ASSUME NEW a, NEW b, IsTable(a), IsTable(b), Len(a) = Len(b),
           \A i \in 1 .. Len(a) : a[i] = b[i]
    PROVE  a = b
<1>1. a \in Seq({a[i] : i \in DOMAIN a}) /\ b \in Seq({b[i] : i \in DOMAIN b})
  BY DEF IsTable
<1>2. a = [i \in 1 .. Len(a) |-> a[i]] /\ b = [i \in 1 .. Len(b) |-> b[i]]
  BY <1>1
<1> QED
  BY <1>2

LEMMA FedWhole ==
    ASSUME NEW h, IsTable(h)
    PROVE  Prefix(h, Len(h)) = h /\ Fed(h, Len(h)) = LoadHistory(NewExecution, h)
<1>1. Len(h) \in Nat
  BY TableIs
<1>2. PICK p : p = Prefix(h, Len(h))
  OBVIOUS
<1>3. IsTable(p) /\ Len(p) = Len(h) /\ \A i \in 1 .. Len(h) : p[i] = h[i]
  BY <1>1, <1>2, PrefixIs
<1>4. p = h
  BY <1>3, TablesSame
<1> QED
  BY <1>2, <1>4 DEF Fed

LEMMA FedSame ==
    ASSUME NEW h, IsTable(h), NEW g, Extends(h, g), NEW n \in Nat, n <= Len(h)
    PROVE  Prefix(g, n) = Prefix(h, n) /\ Fed(g, n) = Fed(h, n)
<1>1. PICK p, q : p = Prefix(h, n) /\ q = Prefix(g, n)
  OBVIOUS
<1>2. IsTable(g) /\ n <= Len(g) /\ Len(g) \in Nat /\ Len(h) \in Nat
  BY TableIs DEF Extends
<1>3. IsTable(p) /\ Len(p) = n /\ \A i \in 1 .. n : p[i] = h[i]
  BY <1>1, PrefixIs
<1>4. IsTable(q) /\ Len(q) = n /\ \A i \in 1 .. n : q[i] = g[i]
  BY <1>1, <1>2, PrefixIs
<1>5. \A i \in 1 .. Len(p) : p[i] = q[i]
  BY <1>2, <1>3, <1>4 DEF Extends
<1>6. p = q
  BY <1>3, <1>4, <1>5, TablesSame
<1> QED
  BY <1>1, <1>6 DEF Fed

LEMMA FedOn ==
    ASSUME NEW h, IsTable(h), NEW n \in Nat, n + 1 <= Len(h)
    PROVE  Fed(h, n + 1) = Scan(Fed(h, n), h[n + 1])
<1>1. PICK p, q : p = Prefix(h, n) /\ q = Prefix(h, n + 1)
  OBVIOUS
<1>2. Len(h) \in Nat /\ n <= Len(h)
  BY TableIs
<1>3. IsTable(p) /\ Len(p) = n /\ \A i \in 1 .. n : p[i] = h[i]
  BY <1>1, <1>2, PrefixIs
<1>4. IsTable(q) /\ Len(q) = n + 1 /\ \A i \in 1 .. n + 1 : q[i] = h[i]
  BY <1>1, PrefixIs
<1>5. PICK f : Scans(f, NewExecution, p, n) /\ Fed(h, n) = f[n]
  BY <1>1, <1>3, HistoryLoads DEF Fed
<1>6. PICK g : Scans(g, NewExecution, q, n + 1) /\ Fed(h, n + 1) = g[n + 1]
  BY <1>1, <1>4, HistoryLoads DEF Fed
<1>7. f[0] = NewExecution /\ \A i \in 1 .. n : f[i] = Scan(f[i - 1], p[i])
  BY <1>5 DEF Scans
<1>8. g[0] = NewExecution /\ \A i \in 1 .. n + 1 : g[i] = Scan(g[i - 1], q[i])
  BY <1>6 DEF Scans
<1> DEFINE S == {i \in Nat : i <= n => f[i] = g[i]}
<1>9. 0 \in S
  BY <1>7, <1>8
<1>10. ASSUME NEW i \in S \cap Nat PROVE i + 1 \in S
  <2> SUFFICES ASSUME i + 1 <= n PROVE f[i + 1] = g[i + 1]
    OBVIOUS
  <2>1. f[i] = g[i] /\ p[i + 1] = q[i + 1]
    BY <1>3, <1>4, <1>10
  <2>2. f[i + 1] = Scan(f[i], p[i + 1]) /\ g[i + 1] = Scan(g[i], q[i + 1])
    BY <1>7, <1>8
  <2> QED
    BY <2>1, <2>2
<1> HIDE DEF S
<1>11. Nat \subseteq S
  BY <1>9, <1>10, AllNaturals
<1>12. f[n] = g[n]
  BY <1>11 DEF S
<1>13. g[n + 1] = Scan(g[n], h[n + 1])
  BY <1>4, <1>8
<1> QED
  BY <1>5, <1>6, <1>12, <1>13

(* A fresh Execution, before its function is started.                      *)
Fresh(e) ==
    /\ IsExecution(e) /\ e.handled \in Nat /\ e.pendingSignals \in Nat /\ e.co = << >>
    /\ e.nextActivity = 0 /\ e.nextTimer = 0
    /\ e.commands = << >> /\ e.returned = FALSE /\ e.panicked = FALSE

LEMMA FedIsFresh ==
    ASSUME NEW h, IsTable(h), NEW n \in Nat, n <= Len(h)
    PROVE  Fresh(Fed(h, n))
<1> DEFINE S == {i \in Nat : i <= Len(h) => Fresh(Fed(h, i))}
<1>0. Len(h) \in Nat
  BY TableIs
<1>3. \A i \in Nat : i <= Len(h) => \E m : Tally(Fed(h, i), m)
  <2> SUFFICES ASSUME NEW i \in Nat, i <= Len(h) PROVE \E m : Tally(Fed(h, i), m)
    OBVIOUS
  <2>1. PICK p : p = Prefix(h, i)
    OBVIOUS
  <2>2. IsTable(p) /\ Len(p) \in Nat
    BY <2>1, PrefixIs, TableIs
  <2>3. Behind(p, p, 0) /\ Signals(p, 0) = 0
    BY <2>2, SignalsAreCounted DEF Behind
  <2>4. Tally(LoadHistory(NewExecution, p), Signals(p, 0 + Len(p)))
    BY <2>3, NewTallies, HistoryTallies
  <2> QED
    BY <2>1, <2>4 DEF Fed
<1>1. 0 \in S
  <2>1. PICK p : p = Prefix(h, 0)
    OBVIOUS
  <2>2. Len(p) = 0
    BY <1>0, <2>1, PrefixIs
  <2>3. PICK f : Scans(f, NewExecution, p, 0) /\ Fed(h, 0) = f[0]
    BY <2>1, <2>2, HistoryLoads DEF Fed
  <2>4. Fed(h, 0) = NewExecution
    BY <2>3 DEF Scans
  <2>5. IsExecution(NewExecution)
    BY NewTallies DEF Tally
  <2>6. Fresh(NewExecution)
    BY <2>5 DEF Fresh, NewExecution
  <2> QED
    BY <2>4, <2>6
<1>2. ASSUME NEW i \in S \cap Nat PROVE i + 1 \in S
  <2> SUFFICES ASSUME i + 1 <= Len(h) PROVE Fresh(Fed(h, i + 1))
    OBVIOUS
  <2>1. PICK e, ev, f : e = Fed(h, i) /\ ev = h[i + 1] /\ f = Scan(e, ev)
    OBVIOUS
  <2>2. Fed(h, i + 1) = f
    BY <2>1, FedOn
  <2>3. Fresh(e)
    BY <1>0, <1>2, <2>1
  <2>4. Unmoved(e, f)
    BY <2>1, <2>3, ScanIs DEF Fresh
  <2>5. IsExecution(f) /\ f.handled \in Nat /\ f.pendingSignals \in Nat
    BY <1>3, <2>2 DEF Tally
  <2> QED
    BY <2>2, <2>3, <2>4, <2>5 DEF Fresh, Unmoved, SameOutput
<1> HIDE DEF S
<1>4. n \in S
  BY <1>1, <1>2, AllNaturals
<1> QED
  BY <1>4 DEF S

-----------------------------------------------------------------------------
(* What a replay answers, and a parked Execution.                          *)

(* All of history h.                                                       *)
Now(h) == Fed(h, Len(h))

Facts(e, a, b) ==
    [outs |-> e.outcomes, fired |-> e.fired, acts |-> a, tims |-> b,
     told |-> Len(e.scheduledActivities) + Len(e.scheduledTimers)]

(* What a replay of h is told.                                             *)
Known(h) == Facts(Now(h), Now(h).scheduledActivities, Now(h).scheduledTimers)

(* The function is at s after n steps with the outcomes of h.              *)
At(h, s, n) == Comes(Now(h).outcomes, Now(h).fired, s, n)
Done(h, s, n) == Rests(Now(h).outcomes, Now(h).fired, s, n)

(* It had come to s when h was last told what it had scheduled.            *)
Marked(h, s, n) ==
    /\ At(h, s, n) /\ ~s.done
    /\ s.acts = Now(h).scheduledActivities /\ s.tims = Now(h).scheduledTimers

(* x is a parked Execution at s that has been fed the first n events of h. *)
Entry(x, s, h, n) ==
    /\ Sole(x) /\ OfThread(x.co[1], s) /\ ~s.done
    /\ x.outcomes = Fed(h, n).outcomes /\ x.fired = Fed(h, n).fired
    /\ x.nextActivity = Len(s.acts) /\ x.nextTimer = Len(s.tims)
    /\ Len(x.scheduledActivities) \in Nat /\ Len(x.scheduledTimers) \in Nat
    /\ Len(x.scheduledActivities) <= Len(s.acts)
    /\ Len(x.scheduledTimers) <= Len(s.tims) /\ x.panicked = FALSE

(* x has answered a task that carried h, and is at s.                      *)
Answer(x, s, h) ==
    /\ Sole(x) /\ OfThread(x.co[1], s) /\ x.outcomes = Now(h).outcomes /\ x.fired = Now(h).fired
    /\ x.nextActivity = Len(s.acts) /\ x.nextTimer = Len(s.tims)
    /\ Len(x.scheduledActivities) \in Nat /\ Len(x.scheduledTimers) \in Nat
    /\ Len(x.scheduledActivities) <= Len(s.acts)
    /\ Len(x.scheduledTimers) <= Len(s.tims)
    /\ x.commands = Beyond(s.calls, Known(h).told)
    /\ x.returned = s.done /\ x.panicked = FALSE

LEMMA MarkedIs ==
    ASSUME Straight, NEW h, NEW s, NEW n, Marked(h, s, n)
    PROVE  /\ IsThread(s) /\ IsKnown(Known(h)) /\ Known(h).told = Len(s.calls)
           /\ Known(h).acts = s.acts /\ Known(h).tims = s.tims
           /\ Known(h).outs = Now(h).outcomes /\ Known(h).fired = Now(h).fired
           /\ n \in Nat
<1>1. IsThread(s) /\ n \in Nat
  BY ComesIs DEF Marked, At
<1>2. /\ Known(h).told = Len(s.acts) + Len(s.tims) /\ Known(h).acts = s.acts
      /\ Known(h).tims = s.tims
      /\ Known(h).outs = Now(h).outcomes /\ Known(h).fired = Now(h).fired
  BY DEF Marked, Known, Facts
<1>3. Len(s.calls) = Len(s.acts) + Len(s.tims) /\ Len(s.acts) \in Nat /\ Len(s.tims) \in Nat
      /\ Len(s.calls) \in Nat
  BY <1>1, ThreadIs DEF Marked
<1> QED
  BY <1>1, <1>2, <1>3 DEF IsKnown

(* A path to rest, by way of a mark.                                       *)
LEMMA CourseIs ==
    ASSUME Straight, NEW h, NEW s, NEW n, Marked(h, s, n), NEW t, NEW N, Done(h, t, N),
           NEW K, K.outs = Now(h).outcomes, K.fired = Now(h).fired
    PROVE  \E q : /\ Course(q, K, N) /\ q[N] = t /\ q[n] = s /\ n <= N
                  /\ \A u, k : At(h, u, k) => k \in Nat /\ k <= N /\ q[k] = u
<1>1. PICK o, f : o = Now(h).outcomes /\ f = Now(h).fired
  OBVIOUS
<1>2. N \in Nat /\ Waits(o, f, t)
  BY <1>1 DEF Done, Rests, Comes
<1>3. PICK q : Path(q, o, f, N) /\ q[N] = t
  BY <1>1 DEF Done, Rests, Comes
<1>4. \A u, k : Comes(o, f, u, k) => k \in Nat /\ k <= N /\ q[k] = u
  BY <1>2, <1>3, BeforeRest
<1>5. Course(q, K, N)
  BY <1>1, <1>2, <1>3 DEF Course
<1> QED
  BY <1>1, <1>3, <1>4, <1>5 DEF At, Marked

(* What is at most a part is at most the whole.                            *)
LEMMA AtMostOn ==
    ASSUME NEW a \in Nat, NEW b \in Nat, NEW c \in Nat, a <= b, b <= c
    PROVE  a <= c
OBVIOUS

(* From the mark on all calls are new.                                     *)
LEMMA GuidedOn ==
    ASSUME Straight, NEW K, NEW q, NEW N, Course(q, K, N),
           NEW j \in Nat, j <= N, Adds(K, q[j]), IsKnown(K)
    PROVE  Guided(K, q, j, N)
<1>1. PICK o, f : o = K.outs /\ f = K.fired
  OBVIOUS
<1>2. N \in Nat /\ Path(q, o, f, N)
  BY <1>1 DEF Course
<1>3. \A k \in 0 .. N : IsThread(q[k])
  BY <1>2, PathIs
<1>4. ASSUME NEW k \in Nat, j <= k, k + 1 <= N PROVE Tells(K, q[k], q[k + 1])
  <2>1. Later(q[j], q[k]) /\ IsThread(q[j]) /\ IsThread(q[k])
    BY <1>2, <1>3, <1>4, PathGrows
  <2>2. PICK s, t : s = q[j] /\ t = q[k]
    OBVIOUS
  <2>3. /\ Len(s.acts) <= Len(t.acts) /\ Len(s.tims) <= Len(t.tims)
        /\ Len(s.calls) <= Len(t.calls)
    BY <2>1, <2>2 DEF Later, Begins
  <2>4. /\ Len(s.acts) \in Nat /\ Len(t.acts) \in Nat /\ Len(s.tims) \in Nat
        /\ Len(t.tims) \in Nat /\ Len(s.calls) \in Nat /\ Len(t.calls) \in Nat
    BY <2>1, <2>2, ThreadIs
  <2>5. Adds(K, t)
    <3>1. PICK a, b, c : a = Len(K.acts) /\ b = Len(K.tims) /\ c = K.told
      OBVIOUS
    <3>2. a \in Nat /\ b \in Nat /\ c \in Nat
      BY <3>1 DEF IsKnown
    <3>3. a <= Len(s.acts) /\ b <= Len(s.tims) /\ c <= Len(s.calls)
      BY <2>2, <3>1 DEF Adds
    <3>4. a <= Len(t.acts)
      BY <2>3, <2>4, <3>2, <3>3, AtMostOn
    <3>5. b <= Len(t.tims)
      BY <2>3, <2>4, <3>2, <3>3, AtMostOn
    <3>6. c <= Len(t.calls)
      BY <2>3, <2>4, <3>2, <3>3, AtMostOn
    <3> QED
      BY <3>1, <3>4, <3>5, <3>6 DEF Adds
  <2> QED
    BY <2>2, <2>5 DEF Tells
<1> QED
  BY <1>4 DEF Guided

(* Up to the mark all are recorded.                                        *)
LEMMA GuidedThrough ==
    ASSUME Straight, NEW K, NEW q, NEW N, Course(q, K, N), NEW n \in Nat, n <= N,
           IsKnown(K), NEW s, s = q[n], ~s.done, K.acts = s.acts, K.tims = s.tims,
           K.told = Len(s.calls)
    PROVE  Guided(K, q, 0, N)
<1>1. PICK o, f : o = K.outs /\ f = K.fired
  OBVIOUS
<1>2. N \in Nat /\ Path(q, o, f, N)
  BY <1>1 DEF Course
<1>3. \A k \in 0 .. N : IsThread(q[k])
  BY <1>2, PathIs
<1>4. IsThread(s) /\ Len(s.acts) \in Nat /\ Len(s.tims) \in Nat /\ Len(s.calls) \in Nat
  BY <1>2, <1>3, ThreadIs
<1>5. Adds(K, q[n])
  BY <1>4 DEF Adds
<1>6. Guided(K, q, n, N)
  BY <1>5, GuidedOn
<1>7. ASSUME NEW k \in Nat, k + 1 <= N PROVE Tells(K, q[k], q[k + 1])
  <2>1. CASE n <= k
    BY <1>6, <1>7, <2>1 DEF Guided
  <2>2. CASE k + 1 <= n
    <3>1. PICK u : u = q[k + 1]
      OBVIOUS
    <3>2. Later(u, s)
      <4>1. k + 1 \in Nat /\ n \in (k + 1) .. N
        BY <1>2, <2>2
      <4> QED
        BY <1>2, <1>7, <3>1, <4>1, PathGrows
    <3>3. ~u.done
      <4>1. CASE k + 1 = n
        BY <3>1, <4>1
      <4>2. CASE k + 2 <= n
        <5>1. ~Waits(o, f, q[k + 1])
          BY <1>2, <4>2, PathStep
        <5> QED
          BY <3>1, <5>1 DEF Waits
      <4> QED
        BY <2>2, <4>1, <4>2
    <3>4. Repeats(K, u)
      BY <3>2, <3>3 DEF Repeats, Later, Begins
    <3> QED
      BY <3>1, <3>4 DEF Tells
  <2> QED
    BY <2>1, <2>2
<1> QED
  BY <1>7 DEF Guided

LEMMA FollowsAnswers ==
    ASSUME NEW h, NEW x, NEW t, NEW K, Follows(x, t, K), IsKnown(K), IsThread(t),
           K.outs = Now(h).outcomes, K.fired = Now(h).fired, K.told = Known(h).told,
           Len(K.acts) <= Len(t.acts), Len(K.tims) <= Len(t.tims)
    PROVE  Answer(x, t, h)
<1>1. /\ x.scheduledActivities = K.acts /\ x.scheduledTimers = K.tims
      /\ x.outcomes = K.outs /\ x.fired = K.fired
  BY DEF Follows, Knows
<1>2. Len(K.acts) \in Nat /\ Len(K.tims) \in Nat
  BY DEF IsKnown
<1> QED
  BY <1>1, <1>2 DEF Answer, Follows

(* A replay.                                                               *)
LEMMA GoStarts ==
    ASSUME NEW e, Fresh(e), NEW K, Knows(e, K), IsKnown(K), NEW x, x = Go(e, 1)
    PROVE  Follows(x, Start, K)
<1>1. IsExecution(e) /\ e.co = << >> /\ 1 \in DOMAIN Prog /\ DOMAIN e = ExecutionFields
  BY BodyIs DEF Fresh, IsExecution, IsRecord
<1>2. Moves(e, x, 0) /\ SameSignals(e, x)
  BY <1>1, GoIs
<1>3. x.co = <<Coroutine(1)>>
  BY <1>1 DEF Go, ExecutionFields
<1>4. SameBooks(e, x)
  BY <1>1 DEF Go, ExecutionFields, SameBooks, SameFacts, SameOutput
<1>5. Sole(x)
  <2>1. DOMAIN x.co = {1} /\ x.co[1].body = 1
    BY <1>3 DEF Coroutine
  <2> QED
    BY <1>2, <2>1 DEF Sole, Moves, SameSignals, Fresh
<1>6. OfThread(x.co[1], Start)
  <2>1. PICK c : c = x.co[1]
    OBVIOUS
  <2>2. c.pc = 1 /\ c.futures = << >> /\ c.timer = 0 /\ c.done = FALSE
    BY <1>3, <2>1 DEF Coroutine
  <2>3. Start.pc = 1 /\ Start.futures = << >> /\ Start.timer = 0 /\ Start.done = FALSE
    BY DEF Start, Thread
  <2> QED
    BY <2>1, <2>2, <2>3 DEF OfThread
<1>7. Knows(x, K)
  BY <1>4, KnowsStill DEF SameBooks
<1>8. /\ Len(Start.acts) = 0 /\ Len(Start.tims) = 0 /\ Start.calls = << >> /\ Start.done = FALSE
  BY DEF Start, Thread
<1>9. Beyond(Start.calls, K.told) = << >>
  <2>1. PICK m \in Nat : m = K.told
    BY DEF IsKnown
  <2>2. SubSeq(<< >>, m + 1, 0) = << >>
    BY <2>1
  <2>3. Len(<< >>) = 0
    OBVIOUS
  <2> QED
    BY <1>8, <2>1, <2>2, <2>3 DEF Beyond
<1>10. x.nextActivity = 0 /\ x.nextTimer = 0 /\ x.commands = << >>
       /\ x.returned = FALSE /\ x.panicked = FALSE
  BY <1>4 DEF SameBooks, SameOutput, Fresh
<1> QED
  BY <1>5, <1>6, <1>7, <1>8, <1>9, <1>10 DEF Follows

LEMMA ReplayAnswers ==
    ASSUME Straight, NEW h, IsTable(h), NEW s, NEW n, Marked(h, s, n),
           NEW t, NEW N, Done(h, t, N)
    PROVE  Answer(RunWorkflowFunc(Prog, h), t, h)
<1>1. PICK K, e, x : K = Known(h) /\ e = Now(h) /\ x = Go(e, 1)
  OBVIOUS
<1>2. /\ IsThread(s) /\ IsKnown(K) /\ K.told = Len(s.calls) /\ K.acts = s.acts
      /\ K.tims = s.tims /\ K.outs = Now(h).outcomes /\ K.fired = Now(h).fired /\ n \in Nat
  BY <1>1, MarkedIs
<1>3. PICK q : Course(q, K, N) /\ q[N] = t /\ q[n] = s /\ n <= N
  BY <1>2, CourseIs
<1>4. Guided(K, q, 0, N)
  BY <1>2, <1>3, GuidedThrough DEF Marked
<1>5. Fresh(e)
  BY <1>1, FedIsFresh, TableIs DEF Now
<1>6. Knows(e, K)
  BY <1>1 DEF Knows, Known, Facts
<1>7. Follows(x, Start, K)
  BY <1>1, <1>2, <1>5, <1>6, GoStarts
<1>8. q[0] = Start /\ N \in Nat /\ Path(q, K.outs, K.fired, N)
  BY <1>3 DEF Course, Path
<1>9. Follows(ExecuteRound(Prog, x), t, K)
  <2>1. 0 \in Nat /\ 0 <= N /\ Follows(x, q[0], K)
    BY <1>7, <1>8
  <2> QED
    BY <1>2, <1>3, <1>4, <2>1, RoundRests
<1>10. RunWorkflowFunc(Prog, h) = ExecuteRound(Prog, x)
  <2>1. e = LoadHistory(NewExecution, h)
    BY <1>1, FedWhole DEF Now
  <2> QED
    BY <1>1, <2>1 DEF RunWorkflowFunc
<1>11. IsThread(t) /\ Later(s, t)
  <2>1. IsThread(q[N])
    BY <1>8, PathIs
  <2>2. Later(q[n], q[N])
    BY <1>2, <1>3, <1>8, PathGrows
  <2> QED
    BY <1>3, <2>1, <2>2
<1>12. Len(K.acts) <= Len(t.acts) /\ Len(K.tims) <= Len(t.tims)
  BY <1>2, <1>11 DEF Later, Begins
<1> QED
  BY <1>1, <1>2, <1>9, <1>10, <1>11, <1>12, FollowsAnswers

(* A parked Execution that is told the rest of h.                          *)
LEMMA ToldMore ==
    ASSUME NEW h, NEW ev, NEW from, Behind(ev, h, from), IsTable(h),
           from + Len(ev) = Len(h),
           NEW e, Sole(e), e.outcomes = Fed(h, from).outcomes, e.fired = Fed(h, from).fired,
           NEW y, y = LoadNewEvents(e, ev)
    PROVE  /\ Sole(y) /\ Unmoved(e, y)
           /\ y.outcomes = Now(h).outcomes /\ y.fired = Now(h).fired
           /\ y.scheduledActivities = e.scheduledActivities
           /\ y.scheduledTimers = e.scheduledTimers
<1>1. PICK N \in Nat, a \in Nat : N = Len(ev) /\ a = from /\ a + N = Len(h)
  BY TableIs DEF Behind
<1>2. PICK f : Observations(f, e, ev, N) /\ y = f[N]
  BY <1>1, NewEventsLoad
<1>3. f[0] = e /\ \A i \in 1 .. N : f[i] = Observe(f[i - 1], ev[i])
  BY <1>2 DEF Observations
<1> DEFINE Is(g, i) == /\ Sole(g) /\ Unmoved(e, g)
                       /\ g.outcomes = Fed(h, a + i).outcomes /\ g.fired = Fed(h, a + i).fired
                       /\ g.scheduledActivities = e.scheduledActivities
                       /\ g.scheduledTimers = e.scheduledTimers
           S == {i \in Nat : i <= N => Is(f[i], i)}
<1>4. 0 \in S
  <2>1. Unmoved(e, e)
    BY DEF Unmoved, SameOutput
  <2>2. Is(e, 0)
    BY <1>1, <2>1
  <2> QED
    BY <1>3, <2>2
<1>5. ASSUME NEW i \in S \cap Nat PROVE i + 1 \in S
  <2> SUFFICES ASSUME i + 1 <= N PROVE Is(f[i + 1], i + 1)
    OBVIOUS
  <2>1. PICK g, v, k : g = f[i] /\ v = ev[i + 1] /\ k = a + i
    OBVIOUS
  <2>2. Is(g, i)
    BY <1>5, <2>1
  <2>3. PICK z : z = Observe(g, v)
    OBVIOUS
  <2>4. f[i + 1] = z
    BY <1>3, <2>1, <2>3
  <2>5. IsExecution(g) /\ Sole(g)
    BY <2>2 DEF Sole
  <2>6. /\ Unmoved(g, z) /\ DOMAIN z = DOMAIN g
        /\ z.outcomes = OutcomesOn(g.outcomes, v) /\ z.fired = FiredOn(g.fired, v)
        /\ z.scheduledActivities = g.scheduledActivities
        /\ z.scheduledTimers = g.scheduledTimers
        /\ z.handled = g.handled
        /\ \/ z.pendingSignals = g.pendingSignals
           \/ z.pendingSignals = g.pendingSignals + 1
    BY <2>3, <2>5, ObserveIs
  <2>7. Sole(z)
    <3>1. IsRecord(z) /\ z.co = g.co
      BY <2>5, <2>6 DEF Unmoved, SameOutput, IsExecution, IsRecord
    <3>2. z.handled \in Nat /\ z.pendingSignals \in Nat
      BY <2>5, <2>6 DEF Sole
    <3> QED
      BY <2>5, <3>1, <3>2, SoleFields
  <2>8. Unmoved(e, z)
    BY <2>2, <2>6 DEF Unmoved, SameOutput
  <2>9. k \in Nat /\ k + 1 <= Len(h) /\ h[k + 1] = v /\ a + (i + 1) = k + 1 /\ k <= Len(h)
    <3>1. ev[i + 1] = h[a + (i + 1)]
      BY <1>1 DEF Behind
    <3> QED
      BY <1>1, <2>1, <3>1
  <2>10. PICK u, w : u = Fed(h, k) /\ w = Fed(h, k + 1)
    OBVIOUS
  <2>11. w = Scan(u, v) /\ IsExecution(u)
    BY <2>9, <2>10, FedOn, FedIsFresh DEF Fresh
  <2>12. w.outcomes = OutcomesOn(u.outcomes, v) /\ w.fired = FiredOn(u.fired, v)
    BY <2>11, ScanIs
  <2>13. g.outcomes = u.outcomes /\ g.fired = u.fired
    BY <2>1, <2>2, <2>10
  <2>14. z.outcomes = w.outcomes /\ z.fired = w.fired
    BY <2>6, <2>12, <2>13
  <2>15. z.scheduledActivities = e.scheduledActivities /\ z.scheduledTimers = e.scheduledTimers
    BY <2>2, <2>6
  <2> QED
    BY <2>4, <2>7, <2>8, <2>9, <2>10, <2>14, <2>15
<1> HIDE DEF S
<1>6. N \in S
  BY <1>4, <1>5, AllNaturals
<1>7. Is(f[N], N)
  BY <1>6 DEF S
<1> QED
  BY <1>1, <1>2, <1>7 DEF Now

LEMMA ResetIs ==
    ASSUME NEW x, Sole(x), NEW e, e = ResetRoundOutput(x)
    PROVE  /\ Sole(e) /\ e.co = x.co /\ SameFacts(x, e)
           /\ e.nextActivity = x.nextActivity /\ e.nextTimer = x.nextTimer
           /\ e.commands = << >> /\ e.returned = FALSE /\ e.panicked = x.panicked
<1>1. IsTable(<< >>) /\ DOMAIN x = ExecutionFields
  BY DEF IsTable, Sole, IsExecution, IsRecord
<1>2. /\ DOMAIN e = ExecutionFields /\ e.commands = << >> /\ e.co = x.co
      /\ e.handled = x.handled /\ e.pendingSignals = x.pendingSignals
  BY <1>1 DEF ResetRoundOutput, ExecutionFields
<1>3. /\ SameFacts(x, e) /\ e.nextActivity = x.nextActivity /\ e.nextTimer = x.nextTimer
      /\ e.returned = FALSE /\ e.panicked = x.panicked
  BY <1>1 DEF ResetRoundOutput, ExecutionFields, SameFacts
<1>4. IsRecord(e)
  BY <1>1, <1>2 DEF IsRecord
<1>5. e.handled \in Nat /\ e.pendingSignals \in Nat
  BY <1>2 DEF Sole
<1>6. Sole(e)
  BY <1>2, <1>4, <1>5, SoleFields
<1> QED
  BY <1>2, <1>3, <1>6

LEMMA BehindLast ==
    ASSUME NEW h, IsTable(h), NEW n \in 0 .. Len(h), NEW ev, ev = EventsAfter(h, n)
    PROVE  Behind(ev, h, n) /\ n + Len(ev) = Len(h)
<1>1. n \in Nat /\ n <= Len(h) /\ Len(h) \in Nat
  BY TableIs
<1>2. /\ Len(ev) = Len(h) - n /\ \A i \in 1 .. Len(ev) : ev[i] = h[n + i]
  BY <1>1 DEF EventsAfter, IsTable
<1>3. IsTable(ev)
  BY <1>1, PartIs DEF EventsAfter
<1> QED
  BY <1>1, <1>2, <1>3 DEF Behind

LEMMA ResumeAnswers ==
    ASSUME Straight, NEW h, IsTable(h), NEW s, NEW n, Marked(h, s, n),
           NEW c, c.last \in 0 .. Len(h), Entry(c.exec, s, h, c.last),
           NEW t, NEW N, Done(h, t, N)
    PROVE  Answer(Resumed(c, h), t, h)
<1>1. PICK x, e, ev, y : /\ x = c.exec /\ e = ResetRoundOutput(x) /\ ev = EventsAfter(h, c.last)
                         /\ y = LoadNewEvents(e, ev)
  OBVIOUS
<1>2. Entry(x, s, h, c.last)
  BY <1>1
<1>3. Sole(x)
  BY <1>2 DEF Entry
<1>4. /\ Sole(e) /\ e.co = x.co /\ SameFacts(x, e)
      /\ e.nextActivity = x.nextActivity /\ e.nextTimer = x.nextTimer
      /\ e.commands = << >> /\ e.returned = FALSE /\ e.panicked = x.panicked
  BY <1>1, <1>3, ResetIs
<1>5. Behind(ev, h, c.last) /\ c.last + Len(ev) = Len(h)
  BY <1>1, BehindLast
<1>6. e.outcomes = Fed(h, c.last).outcomes /\ e.fired = Fed(h, c.last).fired
  BY <1>2, <1>4 DEF Entry, SameFacts
<1>7. /\ Sole(y) /\ Unmoved(e, y)
      /\ y.outcomes = Now(h).outcomes /\ y.fired = Now(h).fired
      /\ y.scheduledActivities = e.scheduledActivities
      /\ y.scheduledTimers = e.scheduledTimers
  BY <1>1, <1>4, <1>5, <1>6, ToldMore
<1>8. /\ IsThread(s) /\ IsKnown(Known(h)) /\ Known(h).told = Len(s.calls) /\ n \in Nat
  BY MarkedIs
<1>9. PICK K : K = [outs |-> y.outcomes, fired |-> y.fired, acts |-> y.scheduledActivities,
                    tims |-> y.scheduledTimers, told |-> Known(h).told]
  OBVIOUS
<1>10. /\ K.outs = Now(h).outcomes /\ K.fired = Now(h).fired
       /\ K.acts = x.scheduledActivities /\ K.tims = x.scheduledTimers
       /\ K.told = Known(h).told /\ Knows(y, K)
  BY <1>4, <1>7, <1>9 DEF SameFacts, Knows
<1>11. IsKnown(K) /\ Adds(K, s)
  BY <1>2, <1>8, <1>10, ThreadIs DEF IsKnown, Adds, Entry
<1>12. Follows(y, s, K)
  <2>1. y.co = x.co /\ y.nextActivity = Len(s.acts) /\ y.nextTimer = Len(s.tims)
        /\ y.commands = << >> /\ y.returned = FALSE /\ y.panicked = FALSE
    BY <1>2, <1>4, <1>7 DEF Unmoved, SameOutput, Entry
  <2>2. Beyond(s.calls, K.told) = << >>
    <3>1. PICK m \in Nat : m = Len(s.calls)
      BY <1>8, ThreadIs
    <3>2. s.calls \in Seq(Order)
      BY <1>8, ThreadIs
    <3>3. SubSeq(s.calls, m + 1, m) = << >>
      BY <3>1, <3>2
    <3> QED
      BY <1>8, <1>10, <3>1, <3>3 DEF Beyond
  <2>3. OfThread(y.co[1], s)
    BY <1>2, <2>1 DEF Entry
  <2>4. s.done = FALSE
    BY <1>8, ThreadIs DEF Marked
  <2> QED
    BY <1>7, <1>10, <2>1, <2>2, <2>3, <2>4 DEF Follows
<1>13. PICK q : Course(q, K, N) /\ q[N] = t /\ q[n] = s /\ n <= N
  BY <1>10, CourseIs
<1>14. Guided(K, q, n, N)
  BY <1>8, <1>11, <1>13, GuidedOn
<1>15. Follows(ExecuteRound(Prog, y), t, K)
  BY <1>8, <1>11, <1>12, <1>13, <1>14, RoundRests
<1>16. Resumed(c, h) = ExecuteRound(Prog, y)
  BY <1>1 DEF Resumed
<1>17. IsThread(t) /\ Later(s, t)
  <2>1. N \in Nat /\ Path(q, K.outs, K.fired, N)
    BY <1>13 DEF Course
  <2>2. IsThread(q[N])
    BY <2>1, PathIs
  <2>3. Later(q[n], q[N])
    BY <1>8, <1>13, <2>1, PathGrows
  <2> QED
    BY <1>13, <2>2, <2>3
<1>18. Len(K.acts) <= Len(t.acts) /\ Len(K.tims) <= Len(t.tims)
  <2>1. /\ Len(s.acts) <= Len(t.acts) /\ Len(s.tims) <= Len(t.tims)
        /\ Len(s.acts) \in Nat /\ Len(t.acts) \in Nat /\ Len(s.tims) \in Nat
        /\ Len(t.tims) \in Nat
    BY <1>8, <1>17, ThreadIs DEF Later, Begins
  <2>2. PICK a \in Nat, b \in Nat : a = Len(K.acts) /\ b = Len(K.tims)
    BY <1>11 DEF IsKnown
  <2>3. a <= Len(s.acts) /\ b <= Len(s.tims)
    BY <1>11, <2>2 DEF Adds
  <2> QED
    BY <2>1, <2>2, <2>3
<1> QED
  BY <1>10, <1>11, <1>15, <1>16, <1>17, <1>18, FollowsAnswers

-----------------------------------------------------------------------------
(* A history that grows.                                                   *)

IsSchedule(ev) == ev.type = "ActivityTaskScheduled"
IsOutcome(ev) == ev.type \in {"ActivityTaskCompleted", "ActivityTaskFailed"}

(* Each activity has a number of its own, and an outcome answers one.      *)
Numbered(h, n) ==
    /\ Len(Fed(h, n).scheduledActivities) \in Nat
    /\ \A i \in 1 .. n : IsSchedule(h[i]) =>
          h[i].id \in Nat /\ h[i].id <= Len(Fed(h, n).scheduledActivities)
    /\ \A i, j \in 1 .. n :
          IsSchedule(h[i]) /\ IsSchedule(h[j]) /\ h[i].id = h[j].id => i = j
    /\ \A x \in DOMAIN Fed(h, n).outcomes : \E i, j \in 1 .. n :
          IsSchedule(h[i]) /\ h[i].id = x /\ IsOutcome(h[j]) /\ h[j].ref = i

LEMMA EventTells ==
    ASSUME NEW h, IsTable(h), NEW n \in Nat, n + 1 <= Len(h), NEW ev, ev = h[n + 1]
    PROVE  /\ Fed(h, n + 1).outcomes = OutcomesOn(Fed(h, n).outcomes, ev)
           /\ Fed(h, n + 1).fired = FiredOn(Fed(h, n).fired, ev)
           /\ Fed(h, n + 1).scheduledActivities = ActsOn(Fed(h, n).scheduledActivities, ev)
           /\ Fed(h, n + 1).scheduledTimers = TimsOn(Fed(h, n).scheduledTimers, ev)
<1>1. PICK e, f : e = Fed(h, n) /\ f = Fed(h, n + 1)
  OBVIOUS
<1>2. n <= Len(h) /\ Len(h) \in Nat
  BY TableIs
<1>3. f = Scan(e, ev) /\ IsExecution(e)
  BY <1>1, <1>2, FedOn, FedIsFresh DEF Fresh
<1> QED
  BY <1>1, <1>3, ScanIs

(* Neither schedules, nor answers, nor fires.                              *)
IsNeutral(ev) ==
    ~IsSchedule(ev) /\ ~IsOutcome(ev) /\ ev.type # "TimerStarted" /\ ev.type # "TimerFired"

LEMMA OthersNumber ==
    ASSUME NEW h, IsTable(h), NEW n \in Nat, n + 1 <= Len(h), Numbered(h, n),
           ~IsSchedule(h[n + 1]), ~IsOutcome(h[n + 1])
    PROVE  Numbered(h, n + 1)
<1>1. PICK ev, e, f : ev = h[n + 1] /\ e = Fed(h, n) /\ f = Fed(h, n + 1)
  OBVIOUS
<1>2. /\ f.outcomes = OutcomesOn(e.outcomes, ev)
      /\ f.scheduledActivities = ActsOn(e.scheduledActivities, ev)
  BY <1>1, EventTells
<1>3. f.outcomes = e.outcomes /\ f.scheduledActivities = e.scheduledActivities
  BY <1>1, <1>2 DEF OutcomesOn, ActsOn, IsSchedule, IsOutcome
<1>4. \A i \in 1 .. n + 1 : i \in 1 .. n \/ i = n + 1
  OBVIOUS
<1>5. 1 .. n \subseteq 1 .. n + 1
  OBVIOUS
<1> QED
  BY <1>1, <1>3, <1>4, <1>5, SMTT(30) DEF Numbered

LEMMA ScheduleNumbers ==
    ASSUME NEW h, IsTable(h), NEW n \in Nat, n + 1 <= Len(h), Numbered(h, n),
           IsSchedule(h[n + 1]), IsTable(Fed(h, n).scheduledActivities),
           h[n + 1].id = Len(Fed(h, n).scheduledActivities) + 1
    PROVE  Numbered(h, n + 1)
<1>1. PICK ev, e, f, a, b : /\ ev = h[n + 1] /\ e = Fed(h, n) /\ f = Fed(h, n + 1)
                            /\ a = e.scheduledActivities /\ b = f.scheduledActivities
  OBVIOUS
<1>2. f.outcomes = OutcomesOn(e.outcomes, ev) /\ b = ActsOn(a, ev)
  BY <1>1, EventTells
<1>3. f.outcomes = e.outcomes
  BY <1>1, <1>2 DEF OutcomesOn, IsSchedule
<1>4. PICK m \in Nat : m = Len(a) /\ Len(b) = m + 1
  <2>1. Len(b) = Len(a) + 1 /\ Len(a) \in Nat
    BY <1>1, <1>2, TableAppend, TableIs DEF ActsOn, IsSchedule
  <2> QED
    BY <2>1
<1>5. ev.id = m + 1
  BY <1>1, <1>4
<1>6. \A i \in 1 .. n : IsSchedule(h[i]) => h[i].id \in Nat /\ h[i].id <= m
  BY <1>1, <1>4 DEF Numbered
<1>7. \A i \in 1 .. n + 1 : i \in 1 .. n \/ i = n + 1
  OBVIOUS
<1>8. 1 .. n \subseteq 1 .. n + 1
  OBVIOUS
<1>9. \A i \in 1 .. n + 1 : IsSchedule(h[i]) => h[i].id \in Nat /\ h[i].id <= m + 1
  BY <1>1, <1>5, <1>6, <1>7
<1>10. \A i, j \in 1 .. n + 1 :
          IsSchedule(h[i]) /\ IsSchedule(h[j]) /\ h[i].id = h[j].id => i = j
  <2> SUFFICES ASSUME NEW i \in 1 .. n + 1, NEW j \in 1 .. n + 1,
                      IsSchedule(h[i]), IsSchedule(h[j]), h[i].id = h[j].id
               PROVE  i = j
    OBVIOUS
  <2>1. CASE i \in 1 .. n /\ j \in 1 .. n
    BY <2>1 DEF Numbered
  <2>2. CASE i = n + 1 /\ j \in 1 .. n
    <3>1. h[j].id \in Nat /\ h[j].id <= m /\ h[j].id = m + 1
      BY <1>1, <1>5, <1>6, <2>2
    <3> QED
      BY <3>1
  <2>3. CASE j = n + 1 /\ i \in 1 .. n
    <3>1. h[i].id \in Nat /\ h[i].id <= m /\ h[i].id = m + 1
      BY <1>1, <1>5, <1>6, <2>3
    <3> QED
      BY <3>1
  <2> QED
    BY <1>7, <2>1, <2>2, <2>3
<1>11. \A x \in DOMAIN f.outcomes : \E i, j \in 1 .. n + 1 :
          IsSchedule(h[i]) /\ h[i].id = x /\ IsOutcome(h[j]) /\ h[j].ref = i
  <2> SUFFICES ASSUME NEW x \in DOMAIN f.outcomes
               PROVE  \E i, j \in 1 .. n + 1 :
                         IsSchedule(h[i]) /\ h[i].id = x /\ IsOutcome(h[j]) /\ h[j].ref = i
    OBVIOUS
  <2>1. x \in DOMAIN Fed(h, n).outcomes
    BY <1>1, <1>3
  <2>2. PICK i \in 1 .. n, j \in 1 .. n :
           IsSchedule(h[i]) /\ h[i].id = x /\ IsOutcome(h[j]) /\ h[j].ref = i
    BY <2>1 DEF Numbered
  <2> QED
    BY <1>8, <2>2
<1>12. Len(b) \in Nat
  BY <1>4
<1> QED
  BY <1>1, <1>4, <1>9, <1>10, <1>11, <1>12, SMTT(30) DEF Numbered

(* An activity that has no outcome yet gets one.                           *)
LEMMA OutcomeNumbers ==
    ASSUME NEW h, IsTable(h), NEW n \in Nat, n + 1 <= Len(h), Numbered(h, n),
           IsOutcome(h[n + 1]), NEW i \in 1 .. n, IsSchedule(h[i]),
           h[n + 1].id = h[i].id, h[n + 1].ref = i,
           \A j \in 1 .. n : ~(IsOutcome(h[j]) /\ h[j].ref = i)
    PROVE  /\ Numbered(h, n + 1)
           /\ More(Fed(h, n).outcomes, Fed(h, n).fired, Fed(h, n + 1).outcomes,
                   Fed(h, n + 1).fired)
<1>1. PICK ev, e, f : ev = h[n + 1] /\ e = Fed(h, n) /\ f = Fed(h, n + 1)
  OBVIOUS
<1>2. /\ f.outcomes = OutcomesOn(e.outcomes, ev) /\ f.fired = FiredOn(e.fired, ev)
      /\ f.scheduledActivities = ActsOn(e.scheduledActivities, ev)
  BY <1>1, EventTells
<1>3. f.scheduledActivities = e.scheduledActivities /\ e.fired \subseteq f.fired
      /\ ~IsSchedule(ev)
  BY <1>1, <1>2 DEF ActsOn, FiredOn, IsOutcome, IsSchedule
<1>4. PICK v : f.outcomes = Put(e.outcomes, ev.id, v)
  BY <1>1, <1>2 DEF OutcomesOn, IsOutcome
<1>5. /\ DOMAIN f.outcomes = DOMAIN e.outcomes \cup {ev.id}
      /\ \A x \in DOMAIN e.outcomes : x # ev.id => f.outcomes[x] = e.outcomes[x]
  BY <1>4 DEF Put
<1>6. ev.id \notin DOMAIN e.outcomes
  <2> SUFFICES ASSUME ev.id \in DOMAIN e.outcomes PROVE FALSE
    OBVIOUS
  <2>1. PICK k \in 1 .. n, j \in 1 .. n :
           IsSchedule(h[k]) /\ h[k].id = ev.id /\ IsOutcome(h[j]) /\ h[j].ref = k
    BY <1>1 DEF Numbered
  <2>2. k = i
    BY <1>1, <2>1 DEF Numbered
  <2> QED
    BY <2>1, <2>2
<1>7. More(e.outcomes, e.fired, f.outcomes, f.fired)
  BY <1>3, <1>5, <1>6 DEF More
<1>8. \A k \in 1 .. n + 1 : k \in 1 .. n \/ k = n + 1
  OBVIOUS
<1>9. 1 .. n \subseteq 1 .. n + 1 /\ n + 1 \in 1 .. n + 1
  OBVIOUS
<1>10. \A x \in DOMAIN f.outcomes : \E k, j \in 1 .. n + 1 :
          IsSchedule(h[k]) /\ h[k].id = x /\ IsOutcome(h[j]) /\ h[j].ref = k
  <2> SUFFICES ASSUME NEW x \in DOMAIN f.outcomes
               PROVE  \E k, j \in 1 .. n + 1 :
                         IsSchedule(h[k]) /\ h[k].id = x /\ IsOutcome(h[j]) /\ h[j].ref = k
    OBVIOUS
  <2>1. CASE x = ev.id
    <3>1. IsSchedule(h[i]) /\ h[i].id = x /\ IsOutcome(h[n + 1]) /\ h[n + 1].ref = i
      BY <1>1, <2>1
    <3> QED
      BY <1>9, <3>1
  <2>2. CASE x \in DOMAIN e.outcomes
    BY <1>1, <1>9, <2>2 DEF Numbered
  <2> QED
    BY <1>5, <2>1, <2>2
<1>11. Numbered(h, n + 1)
  BY <1>1, <1>3, <1>8, <1>9, <1>10 DEF Numbered
<1> QED
  BY <1>1, <1>7, <1>11

LEMMA NeutralTells ==
    ASSUME NEW h, IsTable(h), NEW n \in Nat, n + 1 <= Len(h), IsNeutral(h[n + 1])
    PROVE  /\ SameFacts(Fed(h, n), Fed(h, n + 1))
           /\ Numbered(h, n) => Numbered(h, n + 1)
<1>1. PICK ev, e, f : ev = h[n + 1] /\ e = Fed(h, n) /\ f = Fed(h, n + 1)
  OBVIOUS
<1>2. /\ f.outcomes = OutcomesOn(e.outcomes, ev) /\ f.fired = FiredOn(e.fired, ev)
      /\ f.scheduledActivities = ActsOn(e.scheduledActivities, ev)
      /\ f.scheduledTimers = TimsOn(e.scheduledTimers, ev)
  BY <1>1, EventTells
<1>3. SameFacts(e, f)
  BY <1>1, <1>2
     DEF IsNeutral, IsSchedule, IsOutcome, SameFacts, OutcomesOn, FiredOn, ActsOn, TimsOn
<1> QED
  BY <1>1, <1>3, OthersNumber DEF IsNeutral

(* A timer fires.                                                          *)
LEMMA FiringTells ==
    ASSUME NEW h, IsTable(h), NEW n \in Nat, n + 1 <= Len(h), h[n + 1].type = "TimerFired"
    PROVE  /\ More(Fed(h, n).outcomes, Fed(h, n).fired, Fed(h, n + 1).outcomes,
                   Fed(h, n + 1).fired)
           /\ Fed(h, n + 1).scheduledActivities = Fed(h, n).scheduledActivities
           /\ Fed(h, n + 1).scheduledTimers = Fed(h, n).scheduledTimers
           /\ Numbered(h, n) => Numbered(h, n + 1)
<1>1. PICK ev, e, f : ev = h[n + 1] /\ e = Fed(h, n) /\ f = Fed(h, n + 1)
  OBVIOUS
<1>2. /\ f.outcomes = OutcomesOn(e.outcomes, ev) /\ f.fired = FiredOn(e.fired, ev)
      /\ f.scheduledActivities = ActsOn(e.scheduledActivities, ev)
      /\ f.scheduledTimers = TimsOn(e.scheduledTimers, ev)
  BY <1>1, EventTells
<1>3. /\ f.outcomes = e.outcomes /\ e.fired \subseteq f.fired
      /\ f.scheduledActivities = e.scheduledActivities
      /\ f.scheduledTimers = e.scheduledTimers
  BY <1>1, <1>2 DEF OutcomesOn, FiredOn, ActsOn, TimsOn
<1>4. ~IsSchedule(ev) /\ ~IsOutcome(ev)
  BY <1>1 DEF IsSchedule, IsOutcome
<1>5. More(e.outcomes, e.fired, f.outcomes, f.fired)
  BY <1>3 DEF More
<1> QED
  BY <1>1, <1>3, <1>4, <1>5, OthersNumber

LEMMA OutcomeTells ==
    ASSUME NEW h, IsTable(h), NEW n \in Nat, n + 1 <= Len(h), IsOutcome(h[n + 1])
    PROVE  /\ Fed(h, n + 1).scheduledActivities = Fed(h, n).scheduledActivities
           /\ Fed(h, n + 1).scheduledTimers = Fed(h, n).scheduledTimers
<1>1. PICK ev, e, f : ev = h[n + 1] /\ e = Fed(h, n) /\ f = Fed(h, n + 1)
  OBVIOUS
<1>2. /\ f.scheduledActivities = ActsOn(e.scheduledActivities, ev)
      /\ f.scheduledTimers = TimsOn(e.scheduledTimers, ev)
  BY <1>1, EventTells
<1> QED
  BY <1>1, <1>2 DEF ActsOn, TimsOn, IsOutcome

LEMMA NumberedSame ==
    ASSUME NEW h, IsTable(h), NEW g, Extends(h, g), NEW n \in Nat, n <= Len(h),
           Numbered(h, n)
    PROVE  Numbered(g, n)
<1>1. Fed(g, n) = Fed(h, n)
  BY FedSame
<1>2. \A i \in 1 .. n : g[i] = h[i]
  BY TableIs DEF Extends
<1> QED
  BY <1>1, <1>2 DEF Numbered

(* g is h, then s.                                                         *)
Joined(h, s, g) ==
    /\ Extends(h, g) /\ IsTable(g) /\ Len(g) = Len(h) + Len(s)
    /\ \A i \in 1 .. Len(s) : g[Len(h) + i] = s[i]

LEMMA ConcatIs ==
    ASSUME NEW h, IsTable(h), NEW s, IsTable(s)
    PROVE  Joined(h, s, h \o s)
<1> PICK g : g = h \o s
  OBVIOUS
<1> DEFINE S == {h[i] : i \in DOMAIN h}
           T == {s[i] : i \in DOMAIN s}
<1>1. h \in Seq(S \cup T) /\ s \in Seq(S \cup T)
  BY SeqOfMore DEF IsTable
<1> HIDE DEF S, T
<1>2. /\ Len(g) = Len(h) + Len(s) /\ \A i \in 1 .. Len(s) : g[Len(h) + i] = s[i]
  BY <1>1
<1>3. Extends(h, g)
  BY ExtendsBySome
<1> QED
  BY <1>2, <1>3 DEF Extends, Joined

-----------------------------------------------------------------------------
(* Events that queue a task.                                               *)

(* g tells more than h, but nothing new of what was scheduled.             *)
Grows(h, g) ==
    /\ Extends(h, g) /\ Numbered(g, Len(g))
    /\ More(Now(h).outcomes, Now(h).fired, Now(g).outcomes, Now(g).fired)
    /\ Now(g).scheduledActivities = Now(h).scheduledActivities
    /\ Now(g).scheduledTimers = Now(h).scheduledTimers

(* ev answers schedule event i of h, which nothing has answered.           *)
AnswersOne(h, ev, i) ==
    /\ i \in 1 .. Len(h) /\ IsOutcome(ev) /\ IsSchedule(h[i])
    /\ ev.id = h[i].id /\ ev.ref = i
    /\ \A j \in 1 .. Len(h) : ~(IsOutcome(h[j]) /\ h[j].ref = i)

LEMMA MoreItself == ASSUME NEW o, NEW f PROVE More(o, f, o, f)
BY DEF More

LEMMA StartGrows ==
    ASSUME NEW h, IsTable(h), Numbered(h, Len(h)),
           NEW g, g = Append(h, Event("WorkflowTaskStarted", 0, 0))
    PROVE  /\ Grows(h, g) /\ Len(g) = Len(h) + 1
           /\ Now(g).outcomes = Now(h).outcomes /\ Now(g).fired = Now(h).fired
<1>1. PICK n \in Nat : n = Len(h)
  BY TableIs
<1>2. PICK ev : ev = Event("WorkflowTaskStarted", 0, 0)
  OBVIOUS
<1>3. Extends(h, g) /\ IsTable(g) /\ Len(g) = n + 1 /\ g[n + 1] = ev
  BY <1>1, <1>2, ExtendsByOne, TableAppend
<1>4. IsNeutral(ev)
  BY <1>2 DEF Event, IsNeutral, IsSchedule, IsOutcome
<1>5. SameFacts(Fed(g, n), Fed(g, n + 1)) /\ (Numbered(g, n) => Numbered(g, n + 1))
  <2>1. n + 1 <= Len(g)
    BY <1>3
  <2> QED
    BY <1>3, <1>4, <2>1, NeutralTells
<1>6. Numbered(g, n) /\ Fed(g, n) = Fed(h, n)
  BY <1>1, <1>3, NumberedSame, FedSame
<1>7. SameFacts(Now(h), Now(g)) /\ Numbered(g, Len(g))
  BY <1>1, <1>3, <1>5, <1>6 DEF Now
<1>8. More(Now(h).outcomes, Now(h).fired, Now(g).outcomes, Now(g).fired)
  BY <1>7 DEF More, SameFacts
<1> QED
  BY <1>1, <1>3, <1>7, <1>8 DEF Grows, SameFacts

LEMMA WakeGrows ==
    ASSUME NEW h, IsTable(h), Numbered(h, Len(h)), NEW ev,
           IsNeutral(ev) \/ ev.type = "TimerFired" \/ \E i \in 1 .. Len(h) : AnswersOne(h, ev, i),
           NEW g, g = h \o <<ev, Event("WorkflowTaskScheduled", 0, 0)>>
    PROVE  Grows(h, g)
<1>1. PICK n \in Nat : n = Len(h)
  BY TableIs
<1>2. PICK wts, s : wts = Event("WorkflowTaskScheduled", 0, 0) /\ s = <<ev, wts>>
  OBVIOUS
<1>3. IsTable(s) /\ Len(s) = 2 /\ s[1] = ev /\ s[2] = wts
  BY <1>2 DEF IsTable
<1>4. /\ Extends(h, g) /\ IsTable(g) /\ Len(g) = n + 2
      /\ g[n + 1] = ev /\ g[n + 2] = wts
  <2>1. /\ Extends(h, g) /\ IsTable(g) /\ Len(g) = Len(h) + Len(s)
        /\ \A i \in 1 .. Len(s) : g[Len(h) + i] = s[i]
    <3>1. g = h \o s
      BY <1>2
    <3>2. Joined(h, s, h \o s)
      BY <1>3, ConcatIs
    <3> QED
      BY <3>1, <3>2 DEF Joined
  <2>2. Len(g) = n + 2
    BY <1>1, <1>3, <2>1
  <2>3. 1 \in 1 .. Len(s) /\ 2 \in 1 .. Len(s)
    BY <1>3
  <2>4. g[n + 1] = s[1] /\ g[n + 2] = s[2]
    BY <1>1, <2>1, <2>3
  <2> QED
    BY <1>3, <2>1, <2>2, <2>4
<1>5. Numbered(g, n) /\ Fed(g, n) = Fed(h, n)
  BY <1>1, <1>4, NumberedSame, FedSame
<1>6. PICK a, b, c : a = Fed(g, n) /\ b = Fed(g, n + 1) /\ c = Fed(g, n + 2)
  OBVIOUS
<1>7. /\ Numbered(g, n + 1) /\ More(a.outcomes, a.fired, b.outcomes, b.fired)
      /\ b.scheduledActivities = a.scheduledActivities
      /\ b.scheduledTimers = a.scheduledTimers
  <2>0. n + 1 <= Len(g)
    BY <1>4
  <2>1. CASE IsNeutral(ev)
    <3>1. SameFacts(a, b) /\ Numbered(g, n + 1)
      BY <1>4, <1>5, <1>6, <2>0, <2>1, NeutralTells
    <3> QED
      BY <3>1 DEF SameFacts, More
  <2>2. CASE ev.type = "TimerFired"
    BY <1>4, <1>5, <1>6, <2>0, <2>2, FiringTells
  <2>3. CASE \E i \in 1 .. Len(h) : AnswersOne(h, ev, i)
    <3>1. PICK i \in 1 .. n : AnswersOne(h, ev, i)
      BY <1>1, <2>3
    <3>2. \A j \in 1 .. n : g[j] = h[j]
      BY <1>1, <1>4 DEF Extends
    <3>3. /\ IsOutcome(g[n + 1]) /\ IsSchedule(g[i]) /\ g[n + 1].id = g[i].id
          /\ g[n + 1].ref = i /\ \A j \in 1 .. n : ~(IsOutcome(g[j]) /\ g[j].ref = i)
      BY <1>1, <1>4, <3>1, <3>2 DEF AnswersOne
    <3>4. Numbered(g, n + 1) /\ More(a.outcomes, a.fired, b.outcomes, b.fired)
      BY <1>4, <1>5, <1>6, <2>0, <3>3, OutcomeNumbers
    <3> QED
      BY <1>4, <1>6, <2>0, <3>3, <3>4, OutcomeTells
  <2> QED
    BY <2>1, <2>2, <2>3
<1>8. SameFacts(b, c) /\ Numbered(g, n + 2)
  <2>1. PICK k \in Nat : k = n + 1
    OBVIOUS
  <2>2. k + 1 = n + 2 /\ k + 1 <= Len(g)
    BY <1>4, <2>1
  <2>3. IsNeutral(wts)
    BY <1>2 DEF Event, IsNeutral, IsSchedule, IsOutcome
  <2>4. SameFacts(Fed(g, k), Fed(g, k + 1)) /\ (Numbered(g, k) => Numbered(g, k + 1))
    BY <1>4, <2>2, <2>3, NeutralTells
  <2> QED
    BY <1>6, <1>7, <2>1, <2>2, <2>4
<1>9. a = Now(h) /\ c = Now(g) /\ Numbered(g, Len(g))
  BY <1>1, <1>4, <1>5, <1>6, <1>8 DEF Now
<1> QED
  BY <1>4, <1>7, <1>8, <1>9 DEF Grows, SameFacts

-----------------------------------------------------------------------------
(* What is accepted becomes history.                                       *)

(* The first n events of g tell that the function had come to s.           *)
Recorded(g, n, s, o, f) ==
    /\ Numbered(g, n)
    /\ Fed(g, n).outcomes = o /\ Fed(g, n).fired = f
    /\ Fed(g, n).scheduledActivities = s.acts /\ Fed(g, n).scheduledTimers = s.tims

LEMMA SeqIsTable ==
    ASSUME NEW S, NEW s \in Seq(S)
    PROVE  IsTable(s)
BY DEF IsTable

LEMMA CommandTells ==
    ASSUME NEW id, NEW type
    PROVE  /\ CommandEvent(Command("ScheduleActivityTask", id, type))
                 = Event("ActivityTaskScheduled", id, type)
           /\ CommandEvent(Command("StartTimer", id, type)) = Event("TimerStarted", id, type)
           /\ \A how \in Return : IsNeutral(CommandEvent(Command(ReturnKind[how], id, type)))
BY DEF CommandEvent, Command, Event, Return, ReturnKind, IsNeutral, IsSchedule, IsOutcome

LEMMA TimerTells ==
    ASSUME NEW h, IsTable(h), NEW n \in Nat, n + 1 <= Len(h), h[n + 1].type = "TimerStarted"
    PROVE  /\ Fed(h, n + 1).outcomes = Fed(h, n).outcomes
           /\ Fed(h, n + 1).fired = Fed(h, n).fired
           /\ Fed(h, n + 1).scheduledActivities = Fed(h, n).scheduledActivities
           /\ Fed(h, n + 1).scheduledTimers = Append(Fed(h, n).scheduledTimers, h[n + 1].id)
           /\ Numbered(h, n) => Numbered(h, n + 1)
<1>1. PICK ev, e, f : ev = h[n + 1] /\ e = Fed(h, n) /\ f = Fed(h, n + 1)
  OBVIOUS
<1>2. /\ f.outcomes = OutcomesOn(e.outcomes, ev) /\ f.fired = FiredOn(e.fired, ev)
      /\ f.scheduledActivities = ActsOn(e.scheduledActivities, ev)
      /\ f.scheduledTimers = TimsOn(e.scheduledTimers, ev)
  BY <1>1, EventTells
<1>3. /\ f.outcomes = e.outcomes /\ f.fired = e.fired
      /\ f.scheduledActivities = e.scheduledActivities
      /\ f.scheduledTimers = Append(e.scheduledTimers, ev.id)
  BY <1>1, <1>2 DEF OutcomesOn, FiredOn, ActsOn, TimsOn
<1>4. ~IsSchedule(ev) /\ ~IsOutcome(ev)
  BY <1>1 DEF IsSchedule, IsOutcome
<1> QED
  BY <1>1, <1>3, <1>4, OthersNumber

LEMMA ScheduleTells ==
    ASSUME NEW h, IsTable(h), NEW n \in Nat, n + 1 <= Len(h), IsSchedule(h[n + 1])
    PROVE  /\ Fed(h, n + 1).outcomes = Fed(h, n).outcomes
           /\ Fed(h, n + 1).fired = Fed(h, n).fired
           /\ Fed(h, n + 1).scheduledActivities =
                 Append(Fed(h, n).scheduledActivities,
                        [id |-> h[n + 1].id, type |-> h[n + 1].ref])
           /\ Fed(h, n + 1).scheduledTimers = Fed(h, n).scheduledTimers
<1>1. PICK ev, e, f : ev = h[n + 1] /\ e = Fed(h, n) /\ f = Fed(h, n + 1)
  OBVIOUS
<1>2. /\ f.outcomes = OutcomesOn(e.outcomes, ev) /\ f.fired = FiredOn(e.fired, ev)
      /\ f.scheduledActivities = ActsOn(e.scheduledActivities, ev)
      /\ f.scheduledTimers = TimsOn(e.scheduledTimers, ev)
  BY <1>1, EventTells
<1>3. /\ f.outcomes = e.outcomes /\ f.fired = e.fired
      /\ f.scheduledActivities = Append(e.scheduledActivities, [id |-> ev.id, type |-> ev.ref])
      /\ f.scheduledTimers = e.scheduledTimers
  BY <1>1, <1>2 DEF OutcomesOn, FiredOn, ActsOn, TimsOn, IsSchedule
<1> QED
  BY <1>1, <1>3

(* One more step of the function, and the event of its command, if any.    *)
LEMMA StepRecorded ==
    ASSUME Straight, NEW g, IsTable(g), NEW n \in Nat, NEW o, NEW f, NEW s, IsThread(s),
           ~Waits(o, f, s), Recorded(g, n, s, o, f), NEW t, t = Forth(o, s),
           Len(t.calls) # Len(s.calls)
              => /\ n + 1 <= Len(g)
                 /\ g[n + 1] = CommandEvent(t.calls[Len(s.calls) + 1])
    PROVE  IF Len(t.calls) = Len(s.calls) THEN Recorded(g, n, t, o, f)
           ELSE Len(t.calls) = Len(s.calls) + 1 /\ Recorded(g, n + 1, t, o, f)
<1>1. /\ s.acts \in Seq(Record) /\ s.tims \in Seq(Nat) /\ s.calls \in Seq(Order)
      /\ Len(s.acts) \in Nat /\ Len(s.calls) \in Nat
  BY ThreadIs
<1>2. CASE t = Further(s) \/ t = Woken(s)
  <2>1. t.acts = s.acts /\ t.tims = s.tims /\ t.calls = s.calls
    BY <1>2 DEF Further, Woken, Thread
  <2> QED
    BY <2>1 DEF Recorded
<1>3. ASSUME NEW c, t.calls = Append(s.calls, c)
      PROVE  /\ Len(t.calls) = Len(s.calls) + 1 /\ Len(t.calls) # Len(s.calls)
             /\ n + 1 <= Len(g) /\ g[n + 1] = CommandEvent(c)
  <2>1. Len(t.calls) = Len(s.calls) + 1 /\ t.calls[Len(s.calls) + 1] = c
    BY <1>1, <1>3, SeqIsTable, TableAppend
  <2> QED
    BY <1>1, <2>1
<1>4. CASE Prog[1][s.pc].arg \in Nat /\ t = Calling(s, Prog[1][s.pc].arg)
  <2>1. PICK id, type : id = Len(s.acts) + 1 /\ type = Prog[1][s.pc].arg
    OBVIOUS
  <2>2. /\ t.acts = Append(s.acts, [id |-> id, type |-> type]) /\ t.tims = s.tims
        /\ t.calls = Append(s.calls, Command("ScheduleActivityTask", id, type))
    BY <1>4, <2>1, SMTT(30) DEF Calling, Thread
  <2>3. /\ Len(t.calls) = Len(s.calls) + 1 /\ Len(t.calls) # Len(s.calls) /\ n + 1 <= Len(g)
        /\ g[n + 1] = Event("ActivityTaskScheduled", id, type)
    BY <1>3, <2>2, CommandTells
  <2>4. IsSchedule(g[n + 1]) /\ g[n + 1].id = id /\ g[n + 1].ref = type
    BY <2>3 DEF Event, IsSchedule
  <2>5. IsTable(Fed(g, n).scheduledActivities) /\ id = Len(Fed(g, n).scheduledActivities) + 1
    BY <1>1, <2>1, SeqIsTable DEF Recorded
  <2>6. Numbered(g, n + 1)
    BY <2>3, <2>4, <2>5, ScheduleNumbers DEF Recorded
  <2>7. /\ Fed(g, n + 1).outcomes = Fed(g, n).outcomes
        /\ Fed(g, n + 1).fired = Fed(g, n).fired
        /\ Fed(g, n + 1).scheduledActivities =
              Append(Fed(g, n).scheduledActivities, [id |-> id, type |-> type])
        /\ Fed(g, n + 1).scheduledTimers = Fed(g, n).scheduledTimers
    BY <2>3, <2>4, ScheduleTells
  <2> QED
    BY <2>2, <2>3, <2>6, <2>7 DEF Recorded
<1>5. CASE t = Sleeping(s)
  <2>1. PICK id : id = Len(s.tims) + 1
    OBVIOUS
  <2>2. /\ t.acts = s.acts /\ t.tims = Append(s.tims, id)
        /\ t.calls = Append(s.calls, Command("StartTimer", id, 0))
    BY <1>5, <2>1 DEF Sleeping, Thread
  <2>3. /\ Len(t.calls) = Len(s.calls) + 1 /\ Len(t.calls) # Len(s.calls) /\ n + 1 <= Len(g)
        /\ g[n + 1] = Event("TimerStarted", id, 0)
    BY <1>3, <2>2, CommandTells
  <2>4. g[n + 1].type = "TimerStarted" /\ g[n + 1].id = id
    BY <2>3 DEF Event
  <2>5. /\ Fed(g, n + 1).outcomes = Fed(g, n).outcomes
        /\ Fed(g, n + 1).fired = Fed(g, n).fired
        /\ Fed(g, n + 1).scheduledActivities = Fed(g, n).scheduledActivities
        /\ Fed(g, n + 1).scheduledTimers = Append(Fed(g, n).scheduledTimers, id)
        /\ Numbered(g, n) => Numbered(g, n + 1)
    BY <2>3, <2>4, TimerTells
  <2> QED
    BY <2>2, <2>3, <2>5 DEF Recorded
<1>6. CASE \E how \in Return : t = Ended(s, how)
  <2>1. PICK how \in Return : t = Ended(s, how)
    BY <1>6
  <2>2. /\ t.acts = s.acts /\ t.tims = s.tims
        /\ t.calls = Append(s.calls, Command(ReturnKind[how], 0, 0))
    BY <2>1 DEF Ended, Thread
  <2>3. /\ Len(t.calls) = Len(s.calls) + 1 /\ Len(t.calls) # Len(s.calls) /\ n + 1 <= Len(g)
        /\ g[n + 1] = CommandEvent(Command(ReturnKind[how], 0, 0))
    BY <1>3, <2>2
  <2>4. IsNeutral(g[n + 1])
    BY <2>3, CommandTells
  <2>5. SameFacts(Fed(g, n), Fed(g, n + 1)) /\ (Numbered(g, n) => Numbered(g, n + 1))
    BY <2>3, <2>4, NeutralTells
  <2> QED
    BY <2>2, <2>3, <2>5 DEF Recorded, SameFacts
<1> QED
  BY <1>2, <1>4, <1>5, <1>6, ForthIs

-----------------------------------------------------------------------------
(* The history after an answer has been accepted.                          *)

LEMMA BeyondEach ==
    ASSUME NEW S, NEW c \in Seq(S), NEW m \in Nat, m <= Len(c), NEW d, d = Beyond(c, m)
    PROVE  IsTable(d) /\ Len(d) = Len(c) - m /\ \A i \in 1 .. Len(d) : d[i] = c[m + i]
<1>1. d \in Seq(S) /\ Len(d) = Len(c) - m /\ \A i \in 1 .. Len(d) : d[i] = c[m + i]
  BY DEF Beyond
<1> QED
  BY <1>1, SeqIsTable

(* The history after an answer has been accepted.                          *)
Accepted(h, cmds) ==
    h \o <<Event("WorkflowTaskCompleted", 0, 0)>> \o [i \in DOMAIN cmds |-> CommandEvent(cmds[i])]

AcceptedIs(h, cmds, g) ==
    /\ Extends(h, g) /\ IsTable(g) /\ Len(g) = Len(h) + 1 + Len(cmds)
    /\ g[Len(h) + 1] = Event("WorkflowTaskCompleted", 0, 0)
    /\ \A i \in 1 .. Len(cmds) : g[Len(h) + 1 + i] = CommandEvent(cmds[i])

LEMMA AcceptExtends ==
    ASSUME NEW h, IsTable(h), NEW cmds, IsTable(cmds)
    PROVE  AcceptedIs(h, cmds, Accepted(h, cmds))
<1>1. PICK e, one, evs : /\ e = Event("WorkflowTaskCompleted", 0, 0) /\ one = <<e>>
                         /\ evs = [i \in DOMAIN cmds |-> CommandEvent(cmds[i])]
  OBVIOUS
<1>2. IsTable(one) /\ Len(one) = 1 /\ one[1] = e
  BY <1>1 DEF IsTable
<1>3. PICK N \in Nat : N = Len(cmds) /\ DOMAIN cmds = 1 .. N
  BY TableIs
<1>4. evs = [i \in 1 .. N |-> CommandEvent(cmds[i])]
  BY <1>1, <1>3
<1>5. evs \in Seq({evs[i] : i \in 1 .. N}) /\ Len(evs) = N
  <2>1. \A i \in 1 .. N : evs[i] \in {evs[j] : j \in 1 .. N}
    OBVIOUS
  <2>2. PICK T : T = {evs[j] : j \in 1 .. N}
    OBVIOUS
  <2>3. evs \in [1 .. N -> T]
    BY <1>4, <2>1, <2>2
  <2>4. evs \in Seq(T) /\ Len(evs) = N
    BY <2>3
  <2> QED
    BY <2>2, <2>4
<1>6. IsTable(evs) /\ \A i \in 1 .. N : evs[i] = CommandEvent(cmds[i])
  BY <1>4, <1>5, SeqIsTable
<1>7. PICK a, g : a = h \o one /\ g = a \o evs
  OBVIOUS
<1>8. Joined(h, one, a)
  BY <1>2, <1>7, ConcatIs
<1>9. IsTable(a)
  BY <1>8 DEF Joined
<1>10. Joined(a, evs, g)
  BY <1>6, <1>7, <1>9, ConcatIs
<1>11. PICK n \in Nat : n = Len(h)
  BY TableIs
<1>12. Len(a) = n + 1 /\ a[n + 1] = e /\ \A i \in 1 .. n : a[i] = h[i]
  <2>1. Len(a) = n + 1 /\ (\A i \in 1 .. n : a[i] = h[i]) /\ \A i \in 1 .. 1 : a[n + i] = one[i]
    BY <1>2, <1>8, <1>11 DEF Joined, Extends
  <2>2. 1 \in 1 .. 1
    OBVIOUS
  <2> QED
    BY <1>2, <2>1, <2>2
<1>13. /\ IsTable(g) /\ Len(g) = n + 1 + N /\ (\A i \in 1 .. n + 1 : g[i] = a[i])
       /\ \A i \in 1 .. N : g[n + 1 + i] = evs[i]
  BY <1>5, <1>10, <1>12 DEF Joined, Extends
<1>14. g[n + 1] = e /\ \A i \in 1 .. n : g[i] = h[i]
  BY <1>12, <1>13
<1>15. Extends(h, g)
  BY <1>11, <1>13, <1>14 DEF Extends
<1>16. Accepted(h, cmds) = g
  BY <1>1, <1>7 DEF Accepted
<1> QED
  BY <1>1, <1>3, <1>6, <1>11, <1>13, <1>14, <1>15, <1>16 DEF AcceptedIs

(* Everything that is accepted is recorded.                                *)
LEMMA AcceptRecords ==
    ASSUME Straight, NEW h, IsTable(h), Numbered(h, Len(h)),
           NEW mk, NEW m, Marked(h, mk, m), NEW t, NEW n, At(h, t, n), m <= n,
           NEW cmds, cmds = Beyond(t.calls, Known(h).told), NEW g, AcceptedIs(h, cmds, g)
    PROVE  Recorded(g, Len(g), t, Now(h).outcomes, Now(h).fired)
<1>1. PICK o, f, c, L : /\ o = Now(h).outcomes /\ f = Now(h).fired
                        /\ c = Len(mk.calls) /\ L = Len(h) + 1
  OBVIOUS
<1>2. Known(h).told = c /\ m \in Nat /\ IsThread(mk)
  BY <1>1, MarkedIs
<1>3. PICK p : Path(p, o, f, n) /\ p[n] = t /\ n \in Nat
  BY <1>1 DEF At, Comes
<1>4. p[m] = mk
  <2>1. PICK q : Path(q, o, f, m) /\ q[m] = mk
    BY <1>1 DEF Marked, At, Comes
  <2> QED
    BY <1>2, <1>3, <2>1, PathsAgree
<1>5. \A k \in 0 .. n : IsThread(p[k])
  BY <1>3, PathIs
<1>6. \A k \in m .. n : Later(mk, p[k])
  BY <1>2, <1>3, <1>4, PathGrows
<1>7. c \in Nat /\ L \in Nat /\ Len(h) \in Nat
  BY <1>1, <1>2, ThreadIs, TableIs
<1>8. \A k \in m .. n : Len(p[k].calls) \in Nat /\ c <= Len(p[k].calls)
  <2> SUFFICES ASSUME NEW k \in m .. n
               PROVE  Len(p[k].calls) \in Nat /\ c <= Len(p[k].calls)
    OBVIOUS
  <2>1. IsThread(p[k]) /\ Later(mk, p[k])
    BY <1>2, <1>3, <1>5, <1>6
  <2> QED
    BY <1>1, <2>1, ThreadIs DEF Later, Begins
<1>9. IsThread(t) /\ t.calls \in Seq(Order) /\ Len(t.calls) \in Nat /\ c <= Len(t.calls)
  <2>1. n \in 0 .. n /\ n \in m .. n
    BY <1>2, <1>3
  <2> QED
    BY <1>3, <1>5, <1>8, <2>1, ThreadIs
<1>10. /\ Len(cmds) = Len(t.calls) - c
       /\ \A i \in 1 .. Len(cmds) : cmds[i] = t.calls[c + i]
  BY <1>2, <1>7, <1>9, BeyondEach
<1>11. /\ Extends(h, g) /\ IsTable(g) /\ Len(g) = L + (Len(t.calls) - c)
       /\ g[L] = Event("WorkflowTaskCompleted", 0, 0)
       /\ \A i \in 1 .. Len(t.calls) - c : g[L + i] = CommandEvent(t.calls[c + i])
  BY <1>1, <1>7, <1>9, <1>10 DEF AcceptedIs
<1>12. Recorded(g, L, mk, o, f)
  <2>1. PICK k \in Nat : k = Len(h) /\ k + 1 = L
    BY <1>1, <1>7
  <2>2. Numbered(g, k) /\ Fed(g, k) = Now(h)
    BY <1>11, <2>1, NumberedSame, FedSame DEF Now
  <2>3. IsNeutral(g[k + 1])
    BY <1>11, <2>1 DEF Event, IsNeutral, IsSchedule, IsOutcome
  <2>4. k + 1 <= Len(g)
    BY <1>7, <1>9, <1>11, <2>1
  <2>5. SameFacts(Fed(g, k), Fed(g, k + 1)) /\ (Numbered(g, k) => Numbered(g, k + 1))
    BY <1>11, <2>1, <2>3, <2>4, NeutralTells
  <2>6. mk.acts = Now(h).scheduledActivities /\ mk.tims = Now(h).scheduledTimers
    BY DEF Marked
  <2> QED
    BY <1>1, <2>1, <2>2, <2>5, <2>6 DEF Recorded, SameFacts
<1> DEFINE S == {k \in Nat : m <= k /\ k <= n
                    => Recorded(g, L + (Len(p[k].calls) - c), p[k], o, f)}
<1>13. Recorded(g, L + (Len(p[m].calls) - c), p[m], o, f)
  <2>1. L + (Len(p[m].calls) - c) = L
    BY <1>1, <1>4, <1>7
  <2> QED
    BY <1>4, <1>12, <2>1
<1>14. 0 \in S
  <2>1. m <= 0 => m = 0
    BY <1>2
  <2> QED
    BY <1>13, <2>1
<1>15. ASSUME NEW k \in S \cap Nat PROVE k + 1 \in S
  <2> SUFFICES ASSUME m <= k + 1, k + 1 <= n
               PROVE  Recorded(g, L + (Len(p[k + 1].calls) - c), p[k + 1], o, f)
    OBVIOUS
  <2>1. CASE m = k + 1
    BY <1>13, <2>1
  <2>2. CASE m <= k
    <3>1. PICK s, u : s = p[k] /\ u = p[k + 1]
      OBVIOUS
    <3>2. k \in m .. n /\ k + 1 \in m .. n /\ k \in 0 .. n /\ k + 1 \in 0 .. n /\ n \in (k + 1) .. n
      BY <1>2, <1>3, <2>2
    <3>3. ~Waits(o, f, s) /\ u = Forth(o, s)
      BY <1>3, <3>1, PathStep
    <3>4. IsThread(s) /\ IsThread(u)
      BY <1>5, <3>1, <3>2
    <3>5. Begins(u.calls, t.calls) /\ Begins(s.calls, u.calls)
      <4>1. Later(p[k + 1], p[n])
        BY <1>3, <3>2, PathGrows
      <4>2. Later(p[k], p[k + 1])
        BY <1>3, <3>2, PathGrows
      <4> QED
        BY <1>3, <3>1, <4>1, <4>2 DEF Later
    <3>6. PICK a \in Nat, b \in Nat : a = Len(s.calls) /\ b = Len(u.calls) /\ c <= a /\ c <= b
      BY <1>8, <3>1, <3>2
    <3>7. a <= b /\ b <= Len(t.calls) /\ \A i \in 1 .. b : u.calls[i] = t.calls[i]
      BY <3>5, <3>6 DEF Begins
    <3>8. PICK N \in Nat : N = L + (a - c)
      <4>1. L + (a - c) \in Nat
        BY <1>7, <3>6
      <4> QED
        BY <4>1
    <3>9. Recorded(g, N, s, o, f)
      BY <1>15, <2>2, <3>1, <3>6, <3>8, <1>3
    <3>10. b # a => /\ N + 1 <= Len(g)
                    /\ g[N + 1] = CommandEvent(u.calls[a + 1])
      <4> SUFFICES ASSUME b # a
                   PROVE  N + 1 <= Len(g) /\ g[N + 1] = CommandEvent(u.calls[a + 1])
        OBVIOUS
      <4>1. a + 1 \in 1 .. b /\ a + 1 <= Len(t.calls)
        BY <1>9, <3>7
      <4>2. PICK i \in 1 .. Len(t.calls) - c : i = a + 1 - c
        <5>1. a + 1 - c \in 1 .. Len(t.calls) - c
          BY <1>7, <1>9, <3>6, <4>1
        <5> QED
          BY <5>1
      <4>3. L + i = N + 1 /\ c + i = a + 1
        BY <1>7, <3>8, <4>2
      <4>4. g[N + 1] = CommandEvent(t.calls[a + 1])
        BY <1>11, <4>3
      <4>5. N + 1 <= Len(g)
        BY <1>7, <1>9, <1>11, <3>8, <4>1
      <4> QED
        BY <3>7, <4>1, <4>4, <4>5
    <3>11. IF b = a THEN Recorded(g, N, u, o, f)
           ELSE b = a + 1 /\ Recorded(g, N + 1, u, o, f)
      BY <1>11, <3>3, <3>4, <3>6, <3>9, <3>10, StepRecorded
    <3>12. CASE b = a
      BY <3>1, <3>6, <3>8, <3>11, <3>12
    <3>13. CASE b # a
      <4>1. N + 1 = L + (b - c) /\ Recorded(g, N + 1, u, o, f)
        BY <1>7, <3>8, <3>11, <3>13
      <4> QED
        BY <3>1, <3>6, <4>1
    <3> QED
      BY <3>12, <3>13
  <2> QED
    BY <1>2, <2>1, <2>2
<1> HIDE DEF S
<1>16. n \in S
  BY <1>3, <1>14, <1>15, AllNaturals
<1>17. Recorded(g, L + (Len(p[n].calls) - c), p[n], o, f)
  BY <1>2, <1>3, <1>16 DEF S
<1> QED
  BY <1>1, <1>3, <1>11, <1>17

-----------------------------------------------------------------------------
(* What a function may wait for: outcomes it has asked for.                *)

(* The activities asked for before instruction n.                          *)
Asked(n) == Cardinality({k \in 1 .. n - 1 : Prog[1][k].op = "activity"})

(* A Get is on a future the function has obtained before.                  *)
Awaited ==
    \A n \in DOMAIN Prog[1] :
        Prog[1][n].op = "get" => Prog[1][n].arg \in 1 .. Asked(n)

IsReturn(c) == c.kind \in {ReturnKind[how] : how \in Return}

(* The n-th call has number n, and the function holds its futures.         *)
Orderly(s) ==
    /\ Len(s.futures) = Len(s.acts) /\ Len(s.futures) = Asked(s.pc)
    /\ \A i \in 1 .. Len(s.acts) : s.futures[i] = i /\ s.acts[i].id = i
    /\ \A i \in 1 .. Len(s.tims) : s.tims[i] = i
    /\ s.timer <= Len(s.tims)
    /\ s.done => IsReturn(s.calls[Len(s.calls)])

LEMMA AskedIs ==
    ASSUME NEW n \in Nat \ {0}
    PROVE  /\ Asked(1) = 0 /\ Asked(n) \in Nat
           /\ Asked(n + 1) = IF Prog[1][n].op = "activity" THEN Asked(n) + 1 ELSE Asked(n)
<1> DEFINE S == {i \in 1 .. n - 1 : Prog[1][i].op = "activity"}
           T == {i \in 1 .. (n + 1) - 1 : Prog[1][i].op = "activity"}
<1>1. IsFiniteSet(S) /\ Cardinality(S) \in Nat
  <2>1. IsFiniteSet(1 .. n - 1) /\ S \subseteq 1 .. n - 1
    BY FS_Interval
  <2>2. IsFiniteSet(S)
    BY <2>1, FS_Subset
  <2> QED
    BY <2>2, FS_CardinalityType
<1>2. Asked(1) = 0
  <2>1. {i \in 1 .. 1 - 1 : Prog[1][i].op = "activity"} = {}
    OBVIOUS
  <2> QED
    BY <2>1, FS_EmptySet DEF Asked
<1>3. CASE Prog[1][n].op = "activity"
  <2>1. T = S \cup {n} /\ n \notin S
    BY <1>3
  <2>2. Cardinality(T) = Cardinality(S) + 1
    BY <1>1, <2>1, FS_AddElement
  <2> QED
    BY <1>1, <1>2, <1>3, <2>2 DEF Asked
<1>4. CASE Prog[1][n].op # "activity"
  <2>1. T = S
    BY <1>4
  <2> QED
    BY <1>1, <1>2, <1>4, <2>1 DEF Asked
<1> QED
  BY <1>3, <1>4

(* A step that is no call of an activity.                                  *)
LEMMA ForthOtherwise ==
    ASSUME Straight, NEW o, NEW f, NEW s, IsThread(s), ~Waits(o, f, s)
    PROVE  \/ s.pc <= Len(Prog[1]) /\ Prog[1][s.pc].op = "activity"
              /\ Forth(o, s) = Calling(s, Prog[1][s.pc].arg) /\ Prog[1][s.pc].arg \in Nat
           \/ s.pc <= Len(Prog[1]) /\ Prog[1][s.pc].op # "activity"
              /\ Forth(o, s) \in {Further(s), Woken(s)}
           \/ Forth(o, s) = Sleeping(s)
           \/ \E how \in Return : Forth(o, s) = Ended(s, how)
<1>1. ~s.done /\ s.pc \in Nat \ {0} /\ Len(Prog[1]) \in Nat
  BY BodyIs DEF Waits, IsThread, Fields
<1>2. CASE s.pc > Len(Prog[1])
  <2>1. Forth(o, s) = Ended(s, "complete") /\ "complete" \in Return
    BY <1>2 DEF Forth, Return
  <2> QED
    BY <2>1
<1>3. CASE s.pc <= Len(Prog[1])
  <2>1. PICK i : i = Prog[1][s.pc]
    OBVIOUS
  <2>2. i.arg \in Nat /\ i.op \in {"activity", "get", "sleep", "handle"} \cup Return
    BY <1>1, <1>3, <2>1, BodyIs
  <2>3. ~(s.pc > Len(Prog[1]))
    BY <1>1, <1>3
  <2>4. CASE i.op = "activity"
    BY <1>3, <2>1, <2>2, <2>3, <2>4 DEF Forth
  <2>5. CASE i.op = "get"
    <3>1. Forth(o, s) \in {Ended(s, "fail"), Further(s)} /\ "fail" \in Return
      BY <2>1, <2>3, <2>5 DEF Forth, Return
    <3> QED
      BY <1>3, <2>1, <2>5, <3>1
  <2>6. CASE i.op = "sleep"
    BY <1>3, <2>1, <2>3, <2>6 DEF Forth
  <2>7. CASE i.op = "handle"
    BY <1>3, <2>1, <2>3, <2>7 DEF Forth
  <2>8. CASE i.op \in Return
    <3>1. i.op \notin {"activity", "get", "sleep", "handle"}
      BY <2>8 DEF Return
    <3>2. Forth(o, s) = Ended(s, i.op)
      BY <2>1, <2>3, <3>1 DEF Forth
    <3> QED
      BY <2>8, <3>2
  <2> QED
    BY <2>2, <2>4, <2>5, <2>6, <2>7, <2>8
<1> QED
  BY <1>1, <1>2, <1>3

LEMMA OrderlyStart == Orderly(Start)
<1>1. /\ Start.pc = 1 /\ Start.futures = << >> /\ Start.acts = << >> /\ Start.tims = << >>
      /\ Start.timer = 0 /\ Start.done = FALSE
  BY DEF Start, Thread
<1>2. Asked(1) = 0 /\ Len(<< >>) = 0 /\ 1 .. 0 = {}
  BY AskedIs
<1> QED
  BY <1>1, <1>2 DEF Orderly

LEMMA OrderlyOn ==
    ASSUME Straight, NEW o, NEW f, NEW s, IsThread(s), ~Waits(o, f, s), Orderly(s),
           NEW t, t = Forth(o, s)
    PROVE  Orderly(t)
<1>1. /\ s.pc \in Nat \ {0} /\ s.timer \in Nat /\ s.futures \in Seq(Nat) /\ s.tims \in Seq(Nat)
      /\ s.acts \in Seq(Record) /\ s.calls \in Seq(Order) /\ ~s.done
      /\ Len(s.acts) \in Nat /\ Len(s.tims) \in Nat /\ Len(s.futures) \in Nat
      /\ Len(s.calls) \in Nat
  <2>1. /\ s.pc \in Nat \ {0} /\ s.timer \in Nat /\ s.futures \in Seq(Nat)
        /\ s.tims \in Seq(Nat) /\ s.acts \in Seq(Record) /\ s.calls \in Seq(Order)
        /\ Len(s.acts) \in Nat /\ Len(s.tims) \in Nat /\ Len(s.calls) \in Nat
    BY ThreadIs
  <2>2. PICK a : a = s.futures
    OBVIOUS
  <2>3. Len(a) \in Nat
    BY <2>1, <2>2
  <2> QED
    BY <2>1, <2>2, <2>3 DEF Waits
<1>2. /\ Len(s.futures) = Len(s.acts) /\ Len(s.futures) = Asked(s.pc)
      /\ \A i \in 1 .. Len(s.acts) : s.futures[i] = i /\ s.acts[i].id = i
      /\ \A i \in 1 .. Len(s.tims) : s.tims[i] = i
      /\ s.timer <= Len(s.tims)
  BY DEF Orderly
<1>3. CASE /\ Prog[1][s.pc].op = "activity" /\ Prog[1][s.pc].arg \in Nat
           /\ t = Calling(s, Prog[1][s.pc].arg)
  <2>1. PICK id, a : id = Len(s.acts) + 1 /\ a = [id |-> id, type |-> Prog[1][s.pc].arg]
    OBVIOUS
  <2>2. /\ t.pc = s.pc + 1 /\ t.timer = s.timer /\ t.done = FALSE /\ t.tims = s.tims
        /\ t.futures = Append(s.futures, id) /\ t.acts = Append(s.acts, a) /\ a.id = id
    BY <1>3, <2>1 DEF Calling, Thread
  <2>3. Asked(t.pc) = Asked(s.pc) + 1
    BY <1>1, <1>3, <2>2, AskedIs
  <2>4. /\ Len(t.futures) = Len(s.futures) + 1 /\ t.futures[Len(s.futures) + 1] = id
        /\ \A i \in 1 .. Len(s.futures) : t.futures[i] = s.futures[i]
    BY <1>1, <2>2, SeqIsTable, TableAppend
  <2>5. /\ Len(t.acts) = Len(s.acts) + 1 /\ t.acts[Len(s.acts) + 1] = a
        /\ \A i \in 1 .. Len(s.acts) : t.acts[i] = s.acts[i]
    BY <1>1, <2>2, SeqIsTable, TableAppend
  <2>6. ASSUME NEW i \in 1 .. Len(t.acts) PROVE t.futures[i] = i /\ t.acts[i].id = i
    <3>1. CASE i \in 1 .. Len(s.acts)
      BY <1>2, <2>4, <2>5, <3>1
    <3>2. CASE i = Len(s.acts) + 1
      BY <1>2, <2>1, <2>2, <2>4, <2>5, <3>2
    <3>3. i \in 1 .. Len(s.acts) \/ i = Len(s.acts) + 1
      BY <1>1, <2>5
    <3> QED
      BY <3>1, <3>2, <3>3
  <2> QED
    BY <1>2, <2>2, <2>3, <2>4, <2>5, <2>6 DEF Orderly
<1>4. CASE Prog[1][s.pc].op # "activity" /\ t \in {Further(s), Woken(s)}
  <2>1. /\ t.pc = s.pc + 1 /\ t.timer \in {s.timer, 0} /\ t.done = FALSE /\ t.tims = s.tims
        /\ t.futures = s.futures /\ t.acts = s.acts
    BY <1>4 DEF Further, Woken, Thread
  <2>2. Asked(t.pc) = Asked(s.pc)
    BY <1>1, <1>4, <2>1, AskedIs
  <2>3. t.timer <= Len(t.tims)
    BY <1>1, <1>2, <2>1
  <2> QED
    BY <1>2, <2>1, <2>2, <2>3 DEF Orderly
<1>5. CASE t = Sleeping(s)
  <2>1. PICK id : id = Len(s.tims) + 1
    OBVIOUS
  <2>2. /\ t.pc = s.pc /\ t.timer = id /\ t.done = FALSE /\ t.tims = Append(s.tims, id)
        /\ t.futures = s.futures /\ t.acts = s.acts
    BY <1>5, <2>1 DEF Sleeping, Thread
  <2>3. /\ Len(t.tims) = Len(s.tims) + 1 /\ t.tims[Len(s.tims) + 1] = id
        /\ \A i \in 1 .. Len(s.tims) : t.tims[i] = s.tims[i]
    BY <1>1, <2>2, SeqIsTable, TableAppend
  <2>4. ASSUME NEW i \in 1 .. Len(t.tims) PROVE t.tims[i] = i
    <3>1. i \in 1 .. Len(s.tims) \/ i = Len(s.tims) + 1
      BY <1>1, <2>3
    <3> QED
      BY <1>2, <2>1, <2>3, <3>1
  <2>5. t.timer <= Len(t.tims)
    BY <1>1, <2>1, <2>2, <2>3
  <2> QED
    BY <1>2, <2>2, <2>4, <2>5 DEF Orderly
<1>6. CASE \E how \in Return : t = Ended(s, how)
  <2>1. PICK how \in Return : t = Ended(s, how)
    BY <1>6
  <2>2. PICK c : c = Command(ReturnKind[how], 0, 0)
    OBVIOUS
  <2>3. /\ t.pc = s.pc /\ t.timer = s.timer /\ t.tims = s.tims
        /\ t.futures = s.futures /\ t.acts = s.acts /\ t.calls = Append(s.calls, c)
    BY <2>1, <2>2 DEF Ended, Thread
  <2>4. Len(t.calls) = Len(s.calls) + 1 /\ t.calls[Len(s.calls) + 1] = c
    BY <1>1, <2>3, SeqIsTable, TableAppend
  <2>5. IsReturn(c)
    BY <2>2 DEF IsReturn, Command
  <2> QED
    BY <1>2, <2>3, <2>4, <2>5 DEF Orderly
<1> QED
  BY <1>3, <1>4, <1>5, <1>6, ForthOtherwise

LEMMA ComesOrderly ==
    ASSUME Straight, NEW o, NEW f, NEW s, NEW n, Comes(o, f, s, n)
    PROVE  Orderly(s)
<1>1. n \in Nat
  BY DEF Comes
<1>2. PICK p : Path(p, o, f, n) /\ p[n] = s
  BY DEF Comes
<1>3. \A k \in 0 .. n : IsThread(p[k])
  BY <1>1, <1>2, PathIs
<1> DEFINE S == {k \in Nat : k <= n => Orderly(p[k])}
<1>4. 0 \in S
  BY <1>2, OrderlyStart DEF Path
<1>5. ASSUME NEW k \in S \cap Nat PROVE k + 1 \in S
  <2> SUFFICES ASSUME k + 1 <= n PROVE Orderly(p[k + 1])
    OBVIOUS
  <2>1. k \in 0 .. n /\ Orderly(p[k])
    BY <1>1, <1>5
  <2>2. ~Waits(o, f, p[k]) /\ p[k + 1] = Forth(o, p[k])
    BY <1>1, <1>2, PathStep
  <2> QED
    BY <1>3, <2>1, <2>2, OrderlyOn
<1> HIDE DEF S
<1>6. Nat \subseteq S
  BY <1>4, <1>5, AllNaturals
<1> QED
  BY <1>1, <1>2, <1>6 DEF S

-----------------------------------------------------------------------------
(* What an Execution is fed is in the history, and all of it.              *)
IsFiring(ev) == ev.type = "TimerFired"

Told(h, n) ==
    /\ IsTable(Fed(h, n).scheduledActivities) /\ IsTable(Fed(h, n).scheduledTimers)
    /\ \A i \in 1 .. Len(Fed(h, n).scheduledActivities) : \E j \in 1 .. n :
          IsSchedule(h[j]) /\ h[j].id = Fed(h, n).scheduledActivities[i].id
    /\ \A i \in 1 .. Len(Fed(h, n).scheduledTimers) : \E j \in 1 .. n :
          h[j].type = "TimerStarted" /\ h[j].id = Fed(h, n).scheduledTimers[i]
    /\ \A j \in 1 .. n : IsOutcome(h[j]) => h[j].id \in DOMAIN Fed(h, n).outcomes
    /\ \A j \in 1 .. n : IsFiring(h[j]) => h[j].id \in Fed(h, n).fired

LEMMA ActsTold ==
    ASSUME NEW a, IsTable(a), NEW h, NEW n \in Nat,
           \A i \in 1 .. Len(a) : \E j \in 1 .. n : IsSchedule(h[j]) /\ h[j].id = a[i].id,
           NEW b, b = ActsOn(a, h[n + 1])
    PROVE  /\ IsTable(b)
           /\ \A i \in 1 .. Len(b) : \E j \in 1 .. n + 1 :
                 IsSchedule(h[j]) /\ h[j].id = b[i].id
<1>0. 1 .. n \subseteq 1 .. n + 1 /\ n + 1 \in 1 .. n + 1
  OBVIOUS
<1>1. CASE ~IsSchedule(h[n + 1])
  <2>1. b = a
    BY <1>1 DEF ActsOn, IsSchedule
  <2> QED
    BY <1>0, <2>1
<1>2. CASE IsSchedule(h[n + 1])
  <2>1. PICK x : x = [id |-> h[n + 1].id, type |-> h[n + 1].ref]
    OBVIOUS
  <2>2. b = Append(a, x) /\ x.id = h[n + 1].id
    BY <1>2, <2>1 DEF ActsOn, IsSchedule
  <2>3. /\ IsTable(b) /\ Len(b) = Len(a) + 1 /\ b[Len(a) + 1] = x /\ Len(a) \in Nat
        /\ \A i \in 1 .. Len(a) : b[i] = a[i]
    BY <2>2, TableAppend, TableIs
  <2>4. ASSUME NEW i \in 1 .. Len(b)
        PROVE  \E j \in 1 .. n + 1 : IsSchedule(h[j]) /\ h[j].id = b[i].id
    <3>1. CASE i \in 1 .. Len(a)
      <4>1. PICK j \in 1 .. n : IsSchedule(h[j]) /\ h[j].id = a[i].id
        BY <3>1
      <4> QED
        BY <1>0, <2>3, <3>1, <4>1
    <3>2. CASE i = Len(a) + 1
      BY <1>0, <1>2, <2>2, <2>3, <3>2
    <3> QED
      BY <2>3, <3>1, <3>2
  <2> QED
    BY <2>3, <2>4
<1> QED
  BY <1>1, <1>2

LEMMA TimsTold ==
    ASSUME NEW a, IsTable(a), NEW h, NEW n \in Nat,
           \A i \in 1 .. Len(a) : \E j \in 1 .. n : h[j].type = "TimerStarted" /\ h[j].id = a[i],
           NEW b, b = TimsOn(a, h[n + 1])
    PROVE  /\ IsTable(b)
           /\ \A i \in 1 .. Len(b) : \E j \in 1 .. n + 1 :
                 h[j].type = "TimerStarted" /\ h[j].id = b[i]
<1>0. 1 .. n \subseteq 1 .. n + 1 /\ n + 1 \in 1 .. n + 1
  OBVIOUS
<1>1. CASE h[n + 1].type # "TimerStarted"
  <2>1. b = a
    BY <1>1 DEF TimsOn
  <2> QED
    BY <1>0, <2>1
<1>2. CASE h[n + 1].type = "TimerStarted"
  <2>1. PICK x : x = h[n + 1].id
    OBVIOUS
  <2>2. b = Append(a, x)
    BY <1>2, <2>1 DEF TimsOn
  <2>3. /\ IsTable(b) /\ Len(b) = Len(a) + 1 /\ b[Len(a) + 1] = x /\ Len(a) \in Nat
        /\ \A i \in 1 .. Len(a) : b[i] = a[i]
    BY <2>2, TableAppend, TableIs
  <2>4. ASSUME NEW i \in 1 .. Len(b)
        PROVE  \E j \in 1 .. n + 1 : h[j].type = "TimerStarted" /\ h[j].id = b[i]
    <3>1. CASE i \in 1 .. Len(a)
      <4>1. PICK j \in 1 .. n : h[j].type = "TimerStarted" /\ h[j].id = a[i]
        BY <3>1
      <4> QED
        BY <1>0, <2>3, <3>1, <4>1
    <3>2. CASE i = Len(a) + 1
      BY <1>0, <1>2, <2>1, <2>3, <3>2
    <3> QED
      BY <2>3, <3>1, <3>2
  <2> QED
    BY <2>3, <2>4
<1> QED
  BY <1>1, <1>2

LEMMA OutcomesTold ==
    ASSUME NEW o, NEW ev, NEW p, p = OutcomesOn(o, ev)
    PROVE  /\ DOMAIN o \subseteq DOMAIN p
           /\ IsOutcome(ev) => ev.id \in DOMAIN p
<1>1. CASE IsOutcome(ev)
  <2>1. PICK v : p = Put(o, ev.id, v)
    BY <1>1 DEF OutcomesOn, IsOutcome
  <2>2. DOMAIN p = DOMAIN o \cup {ev.id}
    BY <2>1 DEF Put
  <2> QED
    BY <2>2
<1>2. CASE ~IsOutcome(ev)
  BY <1>2 DEF OutcomesOn, IsOutcome
<1> QED
  BY <1>1, <1>2

LEMMA ToldOn ==
    ASSUME NEW h, IsTable(h), NEW n \in Nat, n + 1 <= Len(h), Told(h, n)
    PROVE  Told(h, n + 1)
<1>1. PICK ev, e, f : ev = h[n + 1] /\ e = Fed(h, n) /\ f = Fed(h, n + 1)
  OBVIOUS
<1>2. /\ f.outcomes = OutcomesOn(e.outcomes, ev) /\ f.fired = FiredOn(e.fired, ev)
      /\ f.scheduledActivities = ActsOn(e.scheduledActivities, ev)
      /\ f.scheduledTimers = TimsOn(e.scheduledTimers, ev)
  BY <1>1, EventTells
<1>3. PICK a, b, c, d : /\ a = e.scheduledActivities /\ b = f.scheduledActivities
                        /\ c = e.scheduledTimers /\ d = f.scheduledTimers
  OBVIOUS
<1>4. /\ IsTable(a) /\ IsTable(c)
      /\ \A i \in 1 .. Len(a) : \E j \in 1 .. n : IsSchedule(h[j]) /\ h[j].id = a[i].id
      /\ \A i \in 1 .. Len(c) : \E j \in 1 .. n : h[j].type = "TimerStarted" /\ h[j].id = c[i]
      /\ \A j \in 1 .. n : IsOutcome(h[j]) => h[j].id \in DOMAIN e.outcomes
      /\ \A j \in 1 .. n : IsFiring(h[j]) => h[j].id \in e.fired
  BY <1>1, <1>3 DEF Told
<1>5. b = ActsOn(a, h[n + 1]) /\ d = TimsOn(c, h[n + 1])
  BY <1>1, <1>2, <1>3
<1>6. IsTable(b) /\ \A i \in 1 .. Len(b) : \E j \in 1 .. n + 1 :
                       IsSchedule(h[j]) /\ h[j].id = b[i].id
  BY <1>4, <1>5, ActsTold
<1>7. IsTable(d) /\ \A i \in 1 .. Len(d) : \E j \in 1 .. n + 1 :
                       h[j].type = "TimerStarted" /\ h[j].id = d[i]
  BY <1>4, <1>5, TimsTold
<1>8. DOMAIN e.outcomes \subseteq DOMAIN f.outcomes
      /\ (IsOutcome(ev) => ev.id \in DOMAIN f.outcomes)
  BY <1>2, OutcomesTold
<1>9. e.fired \subseteq f.fired /\ (IsFiring(ev) => ev.id \in f.fired)
  BY <1>2 DEF FiredOn, IsFiring
<1>10. \A j \in 1 .. n + 1 : j \in 1 .. n \/ j = n + 1
  OBVIOUS
<1>11. \A j \in 1 .. n + 1 : IsOutcome(h[j]) => h[j].id \in DOMAIN f.outcomes
  BY <1>1, <1>4, <1>8, <1>10
<1>12. \A j \in 1 .. n + 1 : IsFiring(h[j]) => h[j].id \in f.fired
  BY <1>1, <1>4, <1>9, <1>10
<1> QED
  BY <1>1, <1>3, <1>6, <1>7, <1>11, <1>12 DEF Told

LEMMA FedNone ==
    ASSUME NEW h, IsTable(h)
    PROVE  Fed(h, 0) = NewExecution
<1>1. PICK p : p = Prefix(h, 0)
  OBVIOUS
<1>2. Len(p) = 0
  BY <1>1, PrefixIs, TableIs
<1>3. PICK f : Scans(f, NewExecution, p, 0) /\ Fed(h, 0) = f[0]
  BY <1>1, <1>2, HistoryLoads DEF Fed
<1> QED
  BY <1>3 DEF Scans

LEMMA AllTold ==
    ASSUME NEW h, IsTable(h)
    PROVE  Told(h, Len(h))
<1>1. Len(h) \in Nat
  BY TableIs
<1> DEFINE S == {n \in Nat : n <= Len(h) => Told(h, n)}
<1>2. 0 \in S
  <2>1. Fed(h, 0).scheduledActivities = << >> /\ Fed(h, 0).scheduledTimers = << >>
    BY FedNone DEF NewExecution
  <2>2. IsTable(<< >>) /\ Len(<< >>) = 0 /\ 1 .. 0 = {}
    BY DEF IsTable
  <2> QED
    BY <2>1, <2>2 DEF Told
<1>3. ASSUME NEW n \in S \cap Nat PROVE n + 1 \in S
  <2> SUFFICES ASSUME n + 1 <= Len(h) PROVE Told(h, n + 1)
    OBVIOUS
  <2>1. Told(h, n)
    BY <1>1, <1>3
  <2> QED
    BY <2>1, ToldOn
<1> HIDE DEF S
<1>4. Nat \subseteq S
  BY <1>2, <1>3, AllNaturals
<1> QED
  BY <1>1, <1>4 DEF S

(* An outcome or a firing has the number of what it answers.               *)
Refers(h, ev) == ev.ref \in 1 .. Len(h) /\ ev.id = h[ev.ref].id
Referring(h) ==
    \A j \in 1 .. Len(h) : IsOutcome(h[j]) \/ IsFiring(h[j]) => Refers(h, h[j])

LEMMA ReferringOn ==
    ASSUME NEW h, IsTable(h), Referring(h), NEW g, Extends(h, g),
           \A j \in 1 .. Len(g) : j > Len(h) =>
              (~IsOutcome(g[j]) /\ ~IsFiring(g[j])) \/ Refers(h, g[j])
    PROVE  Referring(g)
<1>1. /\ Len(h) \in Nat /\ Len(g) \in Nat /\ Len(h) <= Len(g)
      /\ \A i \in 1 .. Len(h) : g[i] = h[i]
  BY TableIs DEF Extends
<1>2. ASSUME NEW j \in 1 .. Len(g), IsOutcome(g[j]) \/ IsFiring(g[j])
      PROVE  Refers(h, g[j])
  <2>1. CASE j > Len(h)
    BY <1>2, <2>1
  <2>2. CASE j \in 1 .. Len(h)
    BY <1>1, <1>2, <2>2 DEF Referring
  <2> QED
    BY <1>1, <2>1, <2>2
<1>3. ASSUME NEW ev, Refers(h, ev) PROVE Refers(g, ev)
  <2>1. ev.ref \in 1 .. Len(h) /\ ev.id = h[ev.ref].id
    BY <1>3 DEF Refers
  <2>2. ev.ref \in 1 .. Len(g) /\ g[ev.ref] = h[ev.ref]
    BY <1>1, <2>1
  <2> QED
    BY <2>1, <2>2 DEF Refers
<1> QED
  BY <1>2, <1>3 DEF Referring

LEMMA CommandsRefer ==
    ASSUME NEW c
    PROVE  ~IsOutcome(CommandEvent(c)) /\ ~IsFiring(CommandEvent(c))
<1>1. PICK k : k = c.kind
  OBVIOUS
<1>2. CASE k = "ScheduleActivityTask"
  BY <1>1, <1>2 DEF CommandEvent, Event, IsOutcome, IsFiring
<1>3. CASE k = "StartTimer"
  BY <1>1, <1>3 DEF CommandEvent, Event, IsOutcome, IsFiring
<1>4. CASE k \notin {"ScheduleActivityTask", "StartTimer"}
  BY <1>1, <1>4 DEF CommandEvent, Event, IsOutcome, IsFiring
<1> QED
  BY <1>2, <1>3, <1>4

-----------------------------------------------------------------------------
(* What is asked for and not answered yet.                                 *)
Open(h) ==
    {i \in 1 .. Len(h) :
        /\ h[i].type \in {"ActivityTaskScheduled", "TimerStarted"}
        /\ ~\E j \in 1 .. Len(h) : h[j].type \in Outcomes(h[i].type) /\ h[j].ref = i}

(* A function that has not returned waits for something that is under way. *)
LEMMA SomethingOpen ==
    ASSUME Straight, Awaited, NEW h, IsTable(h), Referring(h), NEW s, NEW n, At(h, s, n),
           s.acts = Now(h).scheduledActivities, s.tims = Now(h).scheduledTimers,
           Waits(Now(h).outcomes, Now(h).fired, s), ~s.done
    PROVE  Open(h) # {}
<1>1. PICK N \in Nat : N = Len(h)
  BY TableIs
<1>2. PICK e : e = Fed(h, N) /\ e = Now(h)
  BY <1>1 DEF Now
<1>3. IsThread(s) /\ Orderly(s)
  BY ComesIs, ComesOrderly DEF At
<1>4. /\ \A i \in 1 .. Len(s.acts) : \E j \in 1 .. N : IsSchedule(h[j]) /\ h[j].id = s.acts[i].id
      /\ \A i \in 1 .. Len(s.tims) : \E j \in 1 .. N :
            h[j].type = "TimerStarted" /\ h[j].id = s.tims[i]
      /\ \A j \in 1 .. N : IsOutcome(h[j]) => h[j].id \in DOMAIN e.outcomes
      /\ \A j \in 1 .. N : IsFiring(h[j]) => h[j].id \in e.fired
  <2>1. Told(h, N)
    BY <1>1, AllTold
  <2> QED
    BY <1>1, <1>2, <2>1 DEF Told
<1>5. PICK k \in Nat \ {0} : k = s.pc /\ k <= Len(Prog[1])
  BY <1>3, ThreadIs DEF Waits
<1>6. \/ Prog[1][k].op = "get" /\ s.futures[Prog[1][k].arg] \notin DOMAIN e.outcomes
      \/ s.timer # 0 /\ s.timer \notin e.fired
  BY <1>2, <1>5 DEF Waits
<1>7. CASE Prog[1][k].op = "get" /\ s.futures[Prog[1][k].arg] \notin DOMAIN e.outcomes
  <2>1. PICK a : a = Prog[1][k].arg
    OBVIOUS
  <2>2. a \in 1 .. Asked(k)
    <3>1. Prog[1] \in Seq(Instruction)
      BY BodyIs, WorkerAssumption DEF IsProgram
    <3>2. k \in DOMAIN Prog[1]
      BY <1>5, <3>1
    <3> QED
      BY <1>7, <2>1, <3>2 DEF Awaited
  <2>3. a \in 1 .. Len(s.acts) /\ s.futures[a] = a /\ s.acts[a].id = a
    BY <1>3, <1>5, <2>2 DEF Orderly
  <2>4. PICK i \in 1 .. N : IsSchedule(h[i]) /\ h[i].id = a
    BY <1>4, <2>3
  <2>5. a \notin DOMAIN e.outcomes
    BY <1>7, <2>1, <2>3
  <2>6. ASSUME NEW j \in 1 .. N, IsOutcome(h[j]), h[j].ref = i PROVE FALSE
    <3>1. h[j].id = a
      BY <1>1, <2>4, <2>6 DEF Referring, Refers
    <3> QED
      BY <1>4, <2>5, <2>6, <3>1
  <2>7. h[i].type = "ActivityTaskScheduled"
        /\ Outcomes(h[i].type) = {"ActivityTaskCompleted", "ActivityTaskFailed"}
    BY <2>4 DEF IsSchedule, Outcomes
  <2>8. i \in Open(h)
    BY <1>1, <2>6, <2>7 DEF Open, IsOutcome
  <2> QED
    BY <2>8
<1>8. CASE s.timer # 0 /\ s.timer \notin e.fired
  <2>1. PICK a : a = s.timer
    OBVIOUS
  <2>2. a \in 1 .. Len(s.tims) /\ s.tims[a] = a
    <3>1. a \in Nat /\ a # 0 /\ a <= Len(s.tims) /\ Len(s.tims) \in Nat
      BY <1>3, <1>8, <2>1, ThreadIs DEF Orderly
    <3>2. a \in 1 .. Len(s.tims)
      BY <3>1
    <3> QED
      BY <1>3, <3>2 DEF Orderly
  <2>3. PICK i \in 1 .. N : h[i].type = "TimerStarted" /\ h[i].id = a
    BY <1>4, <2>2
  <2>4. ASSUME NEW j \in 1 .. N, IsFiring(h[j]), h[j].ref = i PROVE FALSE
    <3>1. h[j].id = a
      BY <1>1, <2>3, <2>4 DEF Referring, Refers
    <3> QED
      BY <1>4, <1>8, <2>1, <2>4, <3>1
  <2>5. Outcomes(h[i].type) = {"TimerFired"}
    BY <2>3 DEF Outcomes
  <2>6. i \in Open(h)
    BY <1>1, <2>3, <2>4, <2>5 DEF Open, IsFiring
  <2> QED
    BY <2>6
<1> QED
  BY <1>6, <1>7, <1>8

(* The run is closed.                                                      *)
Closing(ev) ==
    ev.type \in {"WorkflowExecutionCompleted", "WorkflowExecutionFailed",
                 "WorkflowExecutionContinuedAsNew"}
HasEnded(h) == \E i \in 1 .. Len(h) : Closing(h[i])

LEMMA ReturnCloses ==
    ASSUME NEW c, IsReturn(c)
    PROVE  Closing(CommandEvent(c))
BY DEF IsReturn, Return, ReturnKind, Closing, CommandEvent, Event

-----------------------------------------------------------------------------
(* Where a worker stands: history h, q tasks queued, its job j, its cache  *)
(* entry c, and the function at s after n steps.                           *)
Stands(h, q, j, c, s, n) ==
    /\ At(h, s, n)
    /\ c # Miss => Entry(c.exec, s, h, c.last)
    /\ j.op = "respond" => j.cmds = Beyond(s.calls, Known(h).told) /\ j.pos = s.pc
    /\ j.op = "fail" => j.why # "panic" /\ c = Miss
    /\ j # Idle /\ j.lapsed => q # 0
    /\ j = Idle /\ (q = 0 \/ c # Miss)
          => s.acts = Now(h).scheduledActivities /\ s.tims = Now(h).scheduledTimers
    /\ j.op # "fail" /\ q = 0 => Waits(Now(h).outcomes, Now(h).fired, s)
    /\ j = Idle /\ q = 0 /\ s.done => HasEnded(h)

(* More is known: the function is still where it was, and the mark too.    *)
LEMMA AtStill ==
    ASSUME Straight, NEW h, NEW g, Grows(h, g), NEW s, NEW n, At(h, s, n)
    PROVE  At(g, s, n)
BY ComesAlso DEF At, Grows

LEMMA MarkedStill ==
    ASSUME Straight, NEW h, NEW g, Grows(h, g), NEW s, NEW n, Marked(h, s, n)
    PROVE  Marked(g, s, n)
BY AtStill DEF Marked, Grows

LEMMA ToldStill ==
    ASSUME NEW h, NEW g, Grows(h, g)
    PROVE  Known(g).told = Known(h).told
BY DEF Known, Facts, Grows

LEMMA EntryStill ==
    ASSUME NEW h, IsTable(h), NEW g, Extends(h, g), NEW x, NEW s, NEW k \in 0 .. Len(h),
           Entry(x, s, h, k)
    PROVE  Entry(x, s, g, k)
<1>1. k \in Nat /\ k <= Len(h)
  BY TableIs
<1>2. Fed(g, k) = Fed(h, k)
  BY <1>1, FedSame
<1> QED
  BY <1>2 DEF Entry

(* One that is further has come by there.                                  *)
LEMMA AtLater ==
    ASSUME Straight, NEW h, NEW s, NEW m, At(h, s, m), NEW t, NEW n, At(h, t, n), m <= n
    PROVE  Later(s, t) /\ IsThread(s) /\ IsThread(t) /\ m \in Nat /\ n \in Nat
<1>1. PICK o, f : o = Now(h).outcomes /\ f = Now(h).fired
  OBVIOUS
<1>2. IsThread(s) /\ IsThread(t) /\ m \in Nat /\ n \in Nat
  BY <1>1, ComesIs DEF At
<1>3. PICK p : Path(p, o, f, n) /\ p[n] = t
  BY <1>1 DEF At, Comes
<1>4. PICK q : Path(q, o, f, m) /\ q[m] = s
  BY <1>1 DEF At, Comes
<1>5. p[m] = s
  BY <1>2, <1>3, <1>4, PathsAgree
<1>6. Later(p[m], p[n])
  BY <1>2, <1>3, PathGrows
<1> QED
  BY <1>2, <1>3, <1>5, <1>6

(* The mark an accepted answer leaves.                                     *)
LEMMA NewMark ==
    ASSUME Straight, NEW h, NEW t, NEW n, At(h, t, n), NEW g,
           Recorded(g, Len(g), t, Now(h).outcomes, Now(h).fired)
    PROVE  /\ At(g, t, n) /\ Numbered(g, Len(g))
           /\ t.acts = Now(g).scheduledActivities /\ t.tims = Now(g).scheduledTimers
           /\ Now(g).outcomes = Now(h).outcomes /\ Now(g).fired = Now(h).fired
           /\ \E s, m : Marked(g, s, m) /\ m <= n /\ s.pc = t.pc
<1>1. /\ Now(g).outcomes = Now(h).outcomes /\ Now(g).fired = Now(h).fired
      /\ t.acts = Now(g).scheduledActivities /\ t.tims = Now(g).scheduledTimers
      /\ Numbered(g, Len(g))
  BY DEF Recorded, Now
<1>2. At(g, t, n)
  BY <1>1 DEF At
<1>3. PICK o, f : o = Now(h).outcomes /\ f = Now(h).fired
  OBVIOUS
<1>4. IsThread(t) /\ n \in Nat
  BY ComesIs DEF At
<1>5. \E s, m : Marked(g, s, m) /\ m <= n /\ s.pc = t.pc
  <2>1. CASE ~t.done
    <3>1. Marked(g, t, n) /\ n <= n
      BY <1>1, <1>2, <1>4, <2>1 DEF Marked
    <3> QED
      BY <3>1
  <2>2. CASE t.done
    <3>1. PICK p : Path(p, o, f, n) /\ p[n] = t
      BY <1>3 DEF At, Comes
    <3>2. n # 0
      BY <2>2, <3>1, StartIs DEF Path
    <3>3. PICK k \in Nat : k + 1 = n
      <4>1. n - 1 \in Nat /\ (n - 1) + 1 = n
        BY <1>4, <3>2
      <4> QED
        BY <4>1
    <3>4. PICK s : s = p[k]
      OBVIOUS
    <3>5. ~Waits(o, f, s) /\ t = Forth(o, s)
      BY <1>4, <3>1, <3>3, <3>4, PathStep
    <3>6. Comes(o, f, s, k)
      BY <1>4, <3>1, <3>3, <3>4, PathBefore
    <3>7. IsThread(s)
      BY <3>6, ComesIs
    <3>8. ~s.done /\ t.acts = s.acts /\ t.tims = s.tims /\ t.pc = s.pc
      <4>1. t.done # FALSE
        BY <2>2
      <4>2. Further(s).done = FALSE /\ Woken(s).done = FALSE /\ Sleeping(s).done = FALSE
            /\ Calling(s, Prog[1][s.pc].arg).done = FALSE
        BY DEF Further, Woken, Sleeping, Calling, Thread
      <4>3. PICK how \in Return : t = Ended(s, how)
        BY <3>5, <3>7, <4>1, <4>2, ForthIs
      <4>4. t.acts = s.acts /\ t.tims = s.tims /\ t.pc = s.pc
        BY <4>3 DEF Ended, Thread
      <4>5. ~s.done
        BY <3>5 DEF Waits
      <4> QED
        BY <4>4, <4>5
    <3>9. Marked(g, s, k)
      BY <1>1, <1>3, <3>6, <3>8 DEF Marked, At
    <3>10. k <= n
      BY <3>3
    <3> QED
      BY <3>8, <3>9, <3>10
  <2> QED
    BY <2>1, <2>2
<1> QED
  BY <1>1, <1>2, <1>5

(* An Execution that has answered is cached if it is still running.        *)
LEMMA KeptIs ==
    ASSUME NEW h, NEW e, NEW t, Answer(e, t, h), IsTable(h), Kept(e, h) # Miss
    PROVE  Entry(Kept(e, h).exec, t, h, Kept(e, h).last)
<1>1. ~e.returned /\ Kept(e, h) = Cached(e, Len(h))
  BY DEF Kept
<1>2. Kept(e, h).exec = e /\ Kept(e, h).last = Len(h)
  BY <1>1 DEF Cached
<1> QED
  BY <1>1, <1>2 DEF Answer, Entry, Now

LEMMA WholePage ==
    ASSUME NEW h, IsTable(h), Len(h) <= MaxHistoryFetch
    PROVE  Fetched(h) = h
<1>1. PICK p : p = Fetched(h)
  OBVIOUS
<1>2. /\ IsTable(p) /\ Len(p) \in Nat /\ Len(p) <= Len(h)
      /\ \A n \in Nat : n <= Len(h) /\ n <= MaxHistoryFetch => n <= Len(p)
      /\ \A i \in 1 .. Len(p) : p[i] = h[i]
  BY <1>1, PageIs
<1>3. Len(h) \in Nat
  BY TableIs
<1>4. Len(p) = Len(h)
  BY <1>2, <1>3
<1>5. p = h
  BY <1>2, <1>4, TablesSame
<1> QED
  BY <1>1, <1>5

-----------------------------------------------------------------------------
(* A task is answered from the cache as by a replay.                       *)
LEMMA PollAnswers ==
    ASSUME Straight, NEW h, IsTable(h), Numbered(h, Len(h)),
           NEW g, g = Append(h, Event("WorkflowTaskStarted", 0, 0)),
           NEW mk, NEW m, Marked(h, mk, m), NEW q, NEW c, NEW s, NEW n, m <= n,
           Stands(h, q, Idle, c, s, n), c # Miss => c.last \in 0 .. Len(h),
           NEW e, e = IF c = Miss THEN RunWorkflowFunc(Prog, g) ELSE Resumed(c, g)
    PROVE  \E t, N : /\ m <= N /\ Done(g, t, N) /\ Answer(e, t, g)
                     /\ Answer(RunWorkflowFunc(Prog, g), t, g)
<1>1. Grows(h, g) /\ Len(g) = Len(h) + 1 /\ Extends(h, g) /\ IsTable(g)
  BY StartGrows DEF Grows, Extends
<1>2. Marked(g, mk, m)
  BY <1>1, MarkedStill
<1>3. PICK t, N : Done(g, t, N)
  BY ThereIsRest DEF Done
<1>4. Answer(RunWorkflowFunc(Prog, g), t, g)
  BY <1>1, <1>2, <1>3, ReplayAnswers
<1>5. \A u, k : Marked(g, u, k) => k <= N /\ k \in Nat /\ N \in Nat
  <2> SUFFICES ASSUME NEW u, NEW k, Marked(g, u, k) PROVE k <= N /\ k \in Nat /\ N \in Nat
    OBVIOUS
  <2>1. PICK K : K = Known(g)
    OBVIOUS
  <2>2. K.outs = Now(g).outcomes /\ K.fired = Now(g).fired
    BY <2>1, MarkedIs
  <2>3. PICK p : Course(p, K, N) /\ k <= N
    BY <1>3, <2>2, CourseIs
  <2>4. k \in Nat /\ N \in Nat
    BY <1>3, MarkedIs DEF Done, Rests, Comes
  <2> QED
    BY <2>3, <2>4
<1>6. CASE c = Miss
  BY <1>2, <1>3, <1>4, <1>5, <1>6
<1>7. CASE c # Miss
  <2>1. /\ Entry(c.exec, s, h, c.last) /\ At(h, s, n) /\ s.acts = Now(h).scheduledActivities
        /\ s.tims = Now(h).scheduledTimers
    BY <1>7 DEF Stands
  <2>2. Marked(h, s, n)
    BY <2>1 DEF Marked, Entry
  <2>3. Marked(g, s, n)
    BY <1>1, <2>2, MarkedStill
  <2>4. Entry(c.exec, s, g, c.last)
    BY <1>1, <1>7, <2>1, EntryStill
  <2>5. c.last \in 0 .. Len(g)
    BY <1>1, <1>7, TableIs
  <2>6. Answer(e, t, g)
    BY <1>1, <1>3, <1>7, <2>3, <2>4, <2>5, ResumeAnswers
  <2>7. m <= N
    BY <1>2, <1>5, <2>3
  <2> QED
    BY <1>3, <1>4, <2>6, <2>7
<1> QED
  BY <1>6, <1>7

(* A function that has returned has told so with its latest calls.         *)
LEMMA ReturnRecorded ==
    ASSUME Straight, NEW h, IsTable(h), NEW mk, NEW m, Marked(h, mk, m),
           NEW t, NEW n, At(h, t, n), m <= n, t.done,
           NEW cmds, cmds = Beyond(t.calls, Known(h).told), NEW g, AcceptedIs(h, cmds, g)
    PROVE  HasEnded(g)
<1>1. Later(mk, t) /\ IsThread(mk) /\ IsThread(t) /\ Orderly(t)
  BY AtLater, ComesOrderly DEF At, Marked
<1>2. PICK a, b, k : a = Len(mk.acts) /\ b = Len(mk.tims) /\ k = Known(h).told
  OBVIOUS
<1>3. k = a + b /\ a \in Nat /\ b \in Nat
  BY <1>1, <1>2, ThreadIs DEF Marked, Known, Facts
<1>4. PICK x, y, z : x = Len(t.acts) /\ y = Len(t.tims) /\ z = Len(t.calls)
  OBVIOUS
<1>5. z = x + y + 1 /\ x \in Nat /\ y \in Nat /\ z \in Nat /\ t.calls \in Seq(Order)
  BY <1>1, <1>4, ThreadIs
<1>6. a <= x /\ b <= y
  BY <1>1, <1>2, <1>4 DEF Later, Begins
<1>7. k \in Nat /\ k <= z /\ z - k \in Nat /\ z - k >= 1 /\ k + (z - k) = z
  BY <1>3, <1>5, <1>6
<1>8. PICK c : c = cmds
  OBVIOUS
<1>9. IsTable(c) /\ Len(c) = z - k /\ \A i \in 1 .. Len(c) : c[i] = t.calls[k + i]
  <2>1. k <= Len(t.calls) /\ c = Beyond(t.calls, k)
    BY <1>2, <1>4, <1>7, <1>8
  <2>2. PICK u \in Seq(Order) : u = t.calls
    BY <1>5
  <2>3. k \in Nat /\ k <= Len(u) /\ c = Beyond(u, k)
    BY <1>7, <2>1, <2>2
  <2>4. /\ IsTable(c) /\ Len(c) = Len(u) - k
        /\ \A i \in 1 .. Len(c) : c[i] = u[k + i]
    BY <2>3, BeyondEach
  <2> QED
    BY <1>4, <2>2, <2>4
<1>10. PICK l \in Nat : l = z - k /\ l >= 1 /\ l \in 1 .. Len(c) /\ k + l = z
  BY <1>7, <1>9
<1>11. c[l] = t.calls[z] /\ IsReturn(c[l])
  BY <1>1, <1>4, <1>9, <1>10 DEF Orderly
<1>12. Closing(CommandEvent(c[l]))
  BY <1>11, ReturnCloses
<1>13. /\ Len(h) \in Nat /\ Len(g) = Len(h) + 1 + Len(c)
       /\ g[Len(h) + 1 + l] = CommandEvent(c[l])
  BY <1>8, <1>10, TableIs DEF AcceptedIs
<1>14. Len(h) + 1 + l \in 1 .. Len(g)
  BY <1>9, <1>10, <1>13
<1> QED
  BY <1>12, <1>13, <1>14 DEF HasEnded

-----------------------------------------------------------------------------
(* The state of the worker and its run.                                    *)

Alone == \E w : Worker = {w}

(* What task j was answered with is a replay's answer.                     *)
Replayed(j, h) ==
    j.seen \in Nat /\ j.seen <= Len(h) /\ j.cmds \in Replay(Prog, Prefix(h, j.seen))

Everywhere(mk, m) ==
    /\ Marked(history, mk, m)
    /\ \A w \in Worker : \E s, n :
          m <= n /\ Stands(history, pending, job[w], cache[w], s, n)

ReplayInv ==
    /\ pending \in Nat
    /\ Numbered(history, Len(history))
    /\ \E mk, m : Everywhere(mk, m)
    /\ \A w \in Worker : job[w].op = "respond" => Replayed(job[w], history)

LEMMA StateIs ==
    ASSUME Alone, NEW w \in Worker, pending' \in Nat,
           Numbered(history', Len(history')),
           NEW mk, NEW m, Marked(history', mk, m),
           NEW s, NEW n, m <= n, Stands(history', pending', job'[w], cache'[w], s, n),
           job'[w].op = "respond" => Replayed(job'[w], history')
    PROVE  ReplayInv'
<1>1. \A v \in Worker : v = w
  BY DEF Alone
<1>2. \A v \in Worker : \E t, k : m <= k /\ Stands(history', pending', job'[v], cache'[v], t, k)
  BY <1>1
<1>3. Everywhere(mk, m)'
  BY <1>2 DEF Everywhere
<1>4. \A v \in Worker : job'[v].op = "respond" => Replayed(job'[v], history')
  BY <1>1
<1> QED
  BY <1>3, <1>4 DEF ReplayInv

LEMMA ReplayedStill ==
    ASSUME NEW h, IsTable(h), NEW g, Extends(h, g), NEW j, Replayed(j, h)
    PROVE  Replayed(j, g)
<1>1. PICK k \in Nat : k = j.seen /\ k <= Len(h)
  BY DEF Replayed
<1>2. k <= Len(g)
  BY <1>1, TableIs DEF Extends
<1>3. Prefix(g, k) = Prefix(h, k)
  BY <1>1, FedSame
<1> QED
  BY <1>1, <1>2, <1>3 DEF Replayed

LEMMA ReplayInvBegins ==
    ASSUME Straight, Init
    PROVE  ReplayInv
<1>1. PICK h : h = history
  OBVIOUS
<1>2. IsTable(h) /\ Len(h) = 2 /\ IsNeutral(h[1]) /\ IsNeutral(h[2])
  <2>1. h = <<Event("WorkflowExecutionStarted", 0, 0), Event("WorkflowTaskScheduled", 0, 0)>>
    BY <1>1 DEF Init
  <2>2. IsTable(h) /\ Len(h) = 2
    BY <2>1 DEF IsTable
  <2> QED
    BY <2>1, <2>2 DEF Event, IsNeutral, IsSchedule, IsOutcome
<1>3. Fed(h, 0) = NewExecution
  BY <1>2, FedNone
<1>4. /\ Fed(h, 0).scheduledActivities = << >> /\ Fed(h, 0).scheduledTimers = << >>
      /\ DOMAIN Fed(h, 0).outcomes = {}
  BY <1>3 DEF NewExecution
<1>5. Numbered(h, 0)
  <2>1. Len(<< >>) \in Nat /\ 1 .. 0 = {}
    OBVIOUS
  <2> QED
    BY <1>4, <2>1 DEF Numbered
<1>6. SameFacts(Fed(h, 0), Fed(h, 1)) /\ Numbered(h, 1)
  <2>1. 0 \in Nat /\ 0 + 1 = 1 /\ 0 + 1 <= Len(h)
    BY <1>2
  <2>2. SameFacts(Fed(h, 0), Fed(h, 0 + 1)) /\ (Numbered(h, 0) => Numbered(h, 0 + 1))
    BY <1>2, <2>1, NeutralTells
  <2> QED
    BY <1>5, <2>1, <2>2
<1>7. SameFacts(Fed(h, 1), Fed(h, 2)) /\ Numbered(h, 2)
  <2>1. 1 \in Nat /\ 1 + 1 = 2 /\ 1 + 1 <= Len(h)
    BY <1>2
  <2>2. SameFacts(Fed(h, 1), Fed(h, 1 + 1)) /\ (Numbered(h, 1) => Numbered(h, 1 + 1))
    BY <1>2, <2>1, NeutralTells
  <2> QED
    BY <1>6, <2>1, <2>2
<1>8. Now(h).scheduledActivities = << >> /\ Now(h).scheduledTimers = << >> /\ Numbered(h, Len(h))
  BY <1>2, <1>4, <1>6, <1>7 DEF SameFacts, Now
<1>9. At(h, Start, 0)
  BY Starts DEF At
<1>10. Start.acts = << >> /\ Start.tims = << >> /\ Start.pc = 1 /\ ~Start.done
  BY StartIs DEF Start, Thread
<1>11. Marked(h, Start, 0)
  BY <1>8, <1>9, <1>10 DEF Marked
<1>12. \A w \in Worker : Stands(h, pending, job[w], cache[w], Start, 0)
  <2>1. \A w \in Worker : job[w] = Idle /\ cache[w] = Miss /\ pending = 1
    BY DEF Init
  <2>2. Idle.op = "idle"
    BY DEF Idle
  <2> QED
    BY <1>8, <1>9, <1>10, <2>1, <2>2 DEF Stands
<1>13. Everywhere(Start, 0)
  <2>1. 0 <= 0
    OBVIOUS
  <2> QED
    BY <1>1, <1>11, <1>12, <2>1 DEF Everywhere
<1>14. pending \in Nat
  BY DEF Init
<1>15. \A w \in Worker : job[w].op # "respond"
  BY DEF Init, Idle
<1> QED
  BY <1>1, <1>8, <1>13, <1>14, <1>15 DEF ReplayInv

-----------------------------------------------------------------------------
(* What the worker does.                                                   *)

LEMMA PollReplays ==
    ASSUME Straight, Alone, MaxEvents <= MaxHistoryFetch, TypeInv, CacheInv, ReplayInv,
           NEW w \in Worker, PollWorkflowTask(w)
    PROVE  ReplayInv'
<1>1. PICK h, g, q, c : h = history /\ g = history' /\ q = pending /\ c = cache[w]
  OBVIOUS
<1>2. /\ IsTable(h) /\ g = Append(h, Event("WorkflowTaskStarted", 0, 0)) /\ Numbered(h, Len(h))
      /\ job[w] = Idle /\ q \in Nat /\ q > 0 /\ pending' = q - 1 /\ Len(h) < MaxEvents
  BY <1>1 DEF PollWorkflowTask, TypeInv, ReplayInv
<1>3. Grows(h, g) /\ Len(g) = Len(h) + 1 /\ Extends(h, g) /\ IsTable(g)
  BY <1>2, StartGrows DEF Grows, Extends
<1>4. Fetched(g) = g
  <2>1. Len(g) <= MaxHistoryFetch
    <3>1. Len(h) \in Nat /\ MaxEvents \in Nat /\ MaxHistoryFetch \in Nat
      BY <1>2, TableIs, WorkerAssumption
    <3> QED
      BY <1>2, <1>3, <3>1
  <2> QED
    BY <1>3, <2>1, WholePage
<1>5. PICK mk, m : Marked(h, mk, m)
                   /\ \E s, n : m <= n /\ Stands(h, q, Idle, c, s, n)
  BY <1>1, <1>2 DEF ReplayInv, Everywhere
<1>6. PICK s, n : m <= n /\ Stands(h, q, Idle, c, s, n)
  BY <1>5
<1>7. c # Miss => c.last \in 0 .. Len(h)
  BY <1>1 DEF CacheInv, Fits
<1>8. PICK e, r : e = Processed(w, g) /\ r = RunWorkflowFunc(Prog, g)
  OBVIOUS
<1>9. e = IF c = Miss THEN RunWorkflowFunc(Prog, g) ELSE Resumed(c, g)
  BY <1>1, <1>8 DEF Processed
<1>10. PICK t, N : m <= N /\ Done(g, t, N) /\ Answer(e, t, g) /\ Answer(r, t, g)
  BY <1>2, <1>5, <1>6, <1>7, <1>8, <1>9, PollAnswers
<1>11. ~e.panicked /\ ~r.panicked /\ r.commands = e.commands /\ Position(e) = t.pc
       /\ e.commands = Beyond(t.calls, Known(g).told)
  BY <1>10 DEF Answer, OfThread, Position
<1>12. PICK j, k : /\ j = [op |-> "respond", cmds |-> e.commands, seen |-> Len(g),
                           pos |-> Position(e), lapsed |-> FALSE]
                   /\ k = Kept(e, g)
  OBVIOUS
<1>13. job'[w] = j /\ cache'[w] = k
  <2>1. cache' = [cache EXCEPT ![w] = k] /\ job' = [job EXCEPT ![w] = j]
    BY <1>1, <1>4, <1>8, <1>11, <1>12 DEF PollWorkflowTask
  <2> QED
    BY <2>1 DEF TypeInv
<1>14. /\ j.op = "respond" /\ j.cmds = Beyond(t.calls, Known(g).told) /\ j.pos = t.pc
       /\ j.lapsed = FALSE /\ j.seen = Len(g) /\ j.cmds = r.commands
  BY <1>11, <1>12
<1>15. j # Idle /\ j.op # "fail" /\ ~j.lapsed
  BY <1>14 DEF Idle
<1>16. k # Miss => Entry(k.exec, t, g, k.last)
  BY <1>3, <1>10, <1>12, KeptIs
<1>17. Stands(g, q - 1, j, k, t, N)
  <2>1. At(g, t, N) /\ Waits(Now(g).outcomes, Now(g).fired, t)
    BY <1>10 DEF Done, Rests, At
  <2> QED
    BY <1>14, <1>15, <1>16, <2>1 DEF Stands
<1>18. Replayed(j, g)
  <2>1. Prefix(g, Len(g)) = g /\ Len(g) \in Nat
    BY <1>3, FedWhole, TableIs
  <2>2. j.cmds \in Replay(Prog, g)
    BY <1>8, <1>11, <1>14 DEF Replay
  <2> QED
    BY <1>14, <2>1, <2>2 DEF Replayed
<1>19. Marked(g, mk, m) /\ Numbered(g, Len(g))
  BY <1>3, <1>5, MarkedStill DEF Grows
<1>20. pending' \in Nat
  BY <1>2
<1> QED
  BY <1>1, <1>2, <1>10, <1>13, <1>17, <1>18, <1>19, <1>20, StateIs

LEMMA AcceptReplays ==
    ASSUME Straight, Alone, TypeInv, CacheInv, ReplayInv, NEW w \in Worker,
           NEW heard \in BOOLEAN, Accept(w, heard)
    PROVE  ReplayInv'
<1>1. PICK h, g, q, j, c : /\ h = history /\ g = history' /\ q = pending /\ j = job[w]
                           /\ c = cache[w]
  OBVIOUS
<1>2. /\ IsTable(h) /\ Numbered(h, Len(h)) /\ q \in Nat /\ pending' = q
      /\ j.op = "respond" /\ ~j.lapsed /\ g = Accepted(h, j.cmds)
  BY <1>1 DEF Accept, Accepted, TypeInv, ReplayInv
<1>3. IsTable(j.cmds)
  <2>1. IsJob(j)
    BY <1>1 DEF TypeInv
  <2> QED
    BY <1>2, <2>1 DEF IsJob, Idle
<1>4. PICK mk, m : Marked(h, mk, m)
                   /\ \E s, n : m <= n /\ Stands(h, q, j, c, s, n)
  BY <1>1 DEF ReplayInv, Everywhere
<1>5. PICK t, n : m <= n /\ Stands(h, q, j, c, t, n)
  BY <1>4
<1>6. /\ At(h, t, n) /\ j.cmds = Beyond(t.calls, Known(h).told) /\ j.pos = t.pc
      /\ c # Miss => Entry(c.exec, t, h, c.last)
      /\ q = 0 => Waits(Now(h).outcomes, Now(h).fired, t)
  BY <1>2, <1>5 DEF Stands
<1>7. AcceptedIs(h, j.cmds, g)
  BY <1>2, <1>3, AcceptExtends
<1>8. Recorded(g, Len(g), t, Now(h).outcomes, Now(h).fired)
  BY <1>2, <1>4, <1>5, <1>6, <1>7, AcceptRecords
<1>9. /\ At(g, t, n) /\ Numbered(g, Len(g))
      /\ t.acts = Now(g).scheduledActivities /\ t.tims = Now(g).scheduledTimers
      /\ Now(g).outcomes = Now(h).outcomes /\ Now(g).fired = Now(h).fired
      /\ \E s, k : Marked(g, s, k) /\ k <= n /\ s.pc = t.pc
  BY <1>6, <1>8, NewMark
<1>10. PICK s, k : Marked(g, s, k) /\ k <= n /\ s.pc = t.pc
  BY <1>9
<1>11. job'[w] = Idle /\ cache'[w] \in {c, Miss}
  <2>1. job' = [job EXCEPT ![w] = Idle] /\ cache' \in {cache, [cache EXCEPT ![w] = Miss]}
    BY DEF Accept
  <2> QED
    BY <1>1, <2>1 DEF TypeInv
<1>12. c # Miss => Entry(c.exec, t, g, c.last)
  <2>1. c # Miss => c.last \in 0 .. Len(h)
    BY <1>1 DEF CacheInv, Fits
  <2> QED
    BY <1>2, <1>6, <1>7, <2>1, EntryStill DEF AcceptedIs
<1>13. Stands(g, q, Idle, cache'[w], t, n)
  <2>1. Idle.op = "idle"
    BY DEF Idle
  <2>2. cache'[w] # Miss => Entry(cache'[w].exec, t, g, cache'[w].last)
    BY <1>11, <1>12
  <2>3. t.done => HasEnded(g)
    BY <1>2, <1>4, <1>5, <1>6, <1>7, ReturnRecorded
  <2> QED
    BY <1>6, <1>9, <2>1, <2>2, <2>3 DEF Stands
<1>14. job'[w].op # "respond"
  BY <1>11 DEF Idle
<1> QED
  BY <1>1, <1>2, <1>9, <1>10, <1>11, <1>13, <1>14, StateIs

-----------------------------------------------------------------------------
(* What else happens to the worker.                                        *)

(* The history stays, and so does where the function has come.             *)
LEMMA StayReplays ==
    ASSUME Straight, Alone, TypeInv, CacheInv, ReplayInv, NEW w \in Worker,
           history' = history, pending' \in Nat,
           job'[w].op = "respond" => Replayed(job'[w], history),
           \A s, n : Stands(history, pending, job[w], cache[w], s, n)
                        => Stands(history, pending', job'[w], cache'[w], s, n)
    PROVE  ReplayInv'
<1>1. PICK mk, m : Everywhere(mk, m)
  BY DEF ReplayInv
<1>2. PICK s, n : m <= n /\ Stands(history, pending, job[w], cache[w], s, n)
  BY <1>1 DEF Everywhere
<1>3. Stands(history', pending', job'[w], cache'[w], s, n)
  BY <1>2
<1>4. Marked(history', mk, m)
      /\ Numbered(history', Len(history'))
  BY <1>1 DEF Everywhere, ReplayInv
<1> QED
  BY <1>2, <1>3, <1>4, StateIs

LEMMA UnregisteredReplays ==
    ASSUME Straight, Alone, TypeInv, CacheInv, ReplayInv, NEW w \in Worker,
           PollUnregistered(w)
    PROVE  ReplayInv'
<1>1. PICK h, g : h = history /\ g = history'
  OBVIOUS
<1>2. /\ IsTable(h) /\ g = Append(h, Event("WorkflowTaskStarted", 0, 0)) /\ Numbered(h, Len(h))
      /\ pending \in Nat /\ pending > 0 /\ pending' = pending - 1 /\ cache' = cache
      /\ cache[w] = Miss
  BY <1>1 DEF PollUnregistered, TypeInv, ReplayInv
<1>3. Grows(h, g)
  BY <1>2, StartGrows
<1>4. PICK mk, m : Marked(h, mk, m)
  BY <1>1 DEF ReplayInv, Everywhere
<1>5. Marked(g, mk, m) /\ Numbered(g, Len(g))
  BY <1>3, <1>4, MarkedStill DEF Grows
<1>6. PICK j : j = FailJob("unregistered")
  OBVIOUS
<1>7. job'[w] = j /\ cache'[w] = Miss
  <2>1. job' = [job EXCEPT ![w] = j]
    BY <1>6 DEF PollUnregistered
  <2> QED
    BY <1>2, <2>1 DEF TypeInv
<1>8. j.op = "fail" /\ j.why # "panic" /\ j.lapsed = FALSE
  BY <1>6 DEF FailJob
<1>9. Stands(g, pending', j, Miss, mk, m)
  <2>1. At(g, mk, m) /\ j # Idle
    BY <1>5, <1>8 DEF Marked, Idle
  <2> QED
    BY <1>8, <2>1 DEF Stands
<1>10. m <= m
  BY <1>4, MarkedIs
<1>11. pending' \in Nat /\ job'[w].op # "respond"
  BY <1>2, <1>7, <1>8
<1> QED
  BY <1>1, <1>2, <1>4, <1>5, <1>7, <1>9, <1>10, <1>11, StateIs

(* A task is given up, and another one is queued.                          *)
LEMMA GiveUpReplays ==
    ASSUME Straight, Alone, TypeInv, CacheInv, ReplayInv, NEW w \in Worker,
           Refuse(w) \/ RespondFailed(w) \/ Restart(w)
    PROVE  ReplayInv'
<1>1. PICK h, q, j, c : h = history /\ q = pending /\ j = job[w] /\ c = cache[w]
  OBVIOUS
<1>2. history' = history /\ q \in Nat /\ job' = [job EXCEPT ![w] = Idle]
  BY <1>1 DEF Refuse, RespondFailed, Restart, ReplayInv
<1>3. job'[w] = Idle /\ Idle.op = "idle"
  BY <1>2 DEF TypeInv, Idle
<1>4. job'[w].op # "respond"
  BY <1>3
<1>5. \/ j = Idle /\ pending' = q
      \/ j # Idle /\ j.lapsed /\ pending' = q
      \/ pending' = q + 1
  <2>1. CASE Refuse(w)
    <3>1. j # Idle
      BY <1>1, <2>1 DEF Refuse, Idle
    <3> QED
      BY <1>1, <2>1, <3>1 DEF Refuse
  <2>2. CASE RespondFailed(w)
    <3>1. j # Idle
      BY <1>1, <2>2 DEF RespondFailed, Idle
    <3> QED
      BY <1>1, <2>2, <3>1 DEF RespondFailed
  <2>3. CASE Restart(w)
    BY <1>1, <2>3 DEF Restart
  <2> QED
    BY <2>1, <2>2, <2>3
<1>6. pending' \in Nat
  BY <1>2, <1>5
<1>7. cache'[w] = Miss \/ (cache'[w] = c /\ j.op = "fail")
  <2>1. \/ cache' = [cache EXCEPT ![w] = Miss]
        \/ cache' = cache /\ j.op = "fail"
    BY <1>1 DEF Refuse, RespondFailed, Restart
  <2> QED
    BY <1>1, <2>1 DEF TypeInv
<1>8. ASSUME NEW s, NEW n, Stands(h, q, j, c, s, n)
      PROVE  Stands(h, pending', Idle, cache'[w], s, n)
  <2>1. cache'[w] = Miss
    BY <1>7, <1>8 DEF Stands
  <2>2. CASE j = Idle /\ pending' = q
    BY <1>3, <1>8, <2>1, <2>2 DEF Stands
  <2>3. CASE pending' # 0
    BY <1>3, <1>8, <2>1, <2>3 DEF Stands
  <2>4. j # Idle /\ j.lapsed => q # 0
    BY <1>8 DEF Stands
  <2>5. q + 1 # 0
    BY <1>2
  <2> QED
    BY <1>5, <2>2, <2>3, <2>4, <2>5
<1> QED
  BY <1>1, <1>2, <1>3, <1>4, <1>6, <1>8, StayReplays

LEMMA LapseReplays ==
    ASSUME Straight, Alone, TypeInv, CacheInv, ReplayInv, NEW w \in Worker, LeaseLapses(w)
    PROVE  ReplayInv'
<1>1. PICK h, q, j, c, k : /\ h = history /\ q = pending /\ j = job[w] /\ c = cache[w]
                           /\ k = [j EXCEPT !.lapsed = TRUE]
  OBVIOUS
<1>2. /\ history' = history /\ q \in Nat /\ cache' = cache /\ pending' = q + 1 /\ j # Idle
      /\ job' = [job EXCEPT ![w].lapsed = TRUE]
  BY <1>1 DEF LeaseLapses, ReplayInv
<1>3. job'[w] = k
  BY <1>1, <1>2 DEF TypeInv
<1>4. \/ j.op = "fail" /\ DOMAIN j = {"op", "why", "lapsed"}
      \/ j.op = "respond" /\ DOMAIN j = {"op", "cmds", "seen", "pos", "lapsed"}
  BY <1>1, <1>2 DEF TypeInv, IsJob
<1>5. /\ k.op = j.op /\ j.op \in {"fail", "respond"}
      /\ j.op = "fail" => k.why = j.why
      /\ j.op = "respond" => k.cmds = j.cmds /\ k.pos = j.pos /\ k.seen = j.seen
  BY <1>1, <1>4
<1>6. k # Idle
  BY <1>5 DEF Idle
<1>7. pending' \in Nat /\ pending' # 0
  BY <1>2
<1>8. k.op = "respond" => Replayed(k, h)
  <2>1. j.op = "respond" => Replayed(j, h)
    BY <1>1 DEF ReplayInv
  <2> QED
    BY <1>5, <2>1 DEF Replayed
<1>9. ASSUME NEW s, NEW n, Stands(h, q, j, c, s, n)
      PROVE  Stands(h, pending', k, c, s, n)
  BY <1>5, <1>6, <1>7, <1>9 DEF Stands
<1>10. history' = history /\ cache'[w] = c
  BY <1>1, <1>2
<1>11. \A s, n : Stands(history, pending, job[w], cache[w], s, n)
                   => Stands(history, pending', job'[w], cache'[w], s, n)
  BY <1>1, <1>3, <1>9, <1>10
<1> QED
  BY <1>1, <1>3, <1>7, <1>8, <1>10, <1>11, StayReplays

LEMMA EvictReplays ==
    ASSUME Straight, Alone, TypeInv, CacheInv, ReplayInv, NEW w \in Worker, Evict(w)
    PROVE  ReplayInv'
<1>1. PICK h, q, c : h = history /\ q = pending /\ c = cache[w]
  OBVIOUS
<1>2. /\ history' = history /\ q \in Nat /\ job' = job /\ pending' = q /\ job[w] = Idle /\ c # Miss
      /\ cache' = [cache EXCEPT ![w] = Miss]
  BY <1>1 DEF Evict, ReplayInv
<1>3. cache'[w] = Miss /\ Idle.op = "idle"
  BY <1>2 DEF TypeInv, Idle
<1>4. pending' \in Nat
  BY <1>2
<1>5. ASSUME NEW s, NEW n, Stands(h, q, Idle, c, s, n)
      PROVE  Stands(h, q, Idle, Miss, s, n)
  BY <1>2, <1>3, <1>5 DEF Stands
<1> QED
  BY <1>1, <1>2, <1>3, <1>4, <1>5, StayReplays

(* A query is only answered while no task is queued or out.                *)
LEMMA QueryReplays ==
    ASSUME Straight, Alone, MaxEvents <= MaxHistoryFetch, ~QueryAnyTime, TypeInv, CacheInv,
           ReplayInv, NEW w \in Worker, ProcessQueryTask(w)
    PROVE  ReplayInv'
<1>1. PICK h, c : h = history /\ c = cache[w]
  OBVIOUS
<1>2. /\ history' = history /\ job' = job /\ pending' = pending
      /\ pending = 0 /\ job[w] = Idle /\ Len(h) < MaxEvents /\ IsTable(h)
      /\ Numbered(h, Len(h))
  BY <1>1 DEF ProcessQueryTask, TypeInv, ReplayInv
<1>3. FetchedForQuery(h) = h
  <2>1. Len(h) <= MaxHistoryFetch
    <3>1. Len(h) \in Nat /\ MaxEvents \in Nat /\ MaxHistoryFetch \in Nat
      BY <1>2, TableIs, WorkerAssumption
    <3> QED
      BY <1>2, <3>1
  <2> QED
    BY <1>2, <2>1, WholePage DEF FetchedForQuery
<1>4. PICK mk, m : Marked(h, mk, m)
                   /\ \E s, n : m <= n /\ Stands(h, 0, Idle, c, s, n)
  BY <1>1, <1>2 DEF ReplayInv, Everywhere
<1>5. PICK s, n : m <= n /\ Stands(h, 0, Idle, c, s, n)
  BY <1>4
<1>6. /\ At(h, s, n) /\ Waits(Now(h).outcomes, Now(h).fired, s)
      /\ s.acts = Now(h).scheduledActivities /\ s.tims = Now(h).scheduledTimers
      /\ c # Miss => Entry(c.exec, s, h, c.last)
      /\ s.done => HasEnded(h)
  <2>1. Idle.op = "idle"
    BY DEF Idle
  <2> QED
    BY <1>5, <2>1 DEF Stands
<1>7. PICK r, e, k : /\ r = RunWorkflowFunc(Prog, h) /\ e = IF c = Miss THEN r ELSE c.exec
                     /\ k = IF c = Miss THEN Kept(e, h) ELSE c
  OBVIOUS
<1>8. Answer(r, s, h)
  <2>1. Done(h, s, n)
    BY <1>6 DEF Done, Rests, At
  <2> QED
    BY <1>2, <1>4, <1>7, <2>1, ReplayAnswers
<1>9. ~e.panicked /\ (k # Miss => Entry(k.exec, s, h, k.last))
  <2>1. CASE c = Miss
    <3>1. e = r /\ k = Kept(e, h)
      BY <1>7, <2>1
    <3>2. ~e.panicked
      BY <1>8, <3>1 DEF Answer, OfThread
    <3> QED
      BY <1>2, <1>8, <3>1, <3>2, KeptIs
  <2>2. CASE c # Miss
    BY <1>6, <1>7, <2>2 DEF Entry, OfThread
  <2> QED
    BY <2>1, <2>2
<1>10. cache'[w] = k
  <2>1. IF cache[w] # Miss THEN UNCHANGED cache ELSE cache' = [cache EXCEPT ![w] = Kept(e, h)]
    BY <1>1, <1>3, <1>7, <1>9 DEF ProcessQueryTask
  <2>2. CASE c = Miss
    BY <1>1, <1>7, <1>9, <2>1, <2>2 DEF TypeInv
  <2>3. CASE c # Miss
    BY <1>1, <1>7, <1>9, <2>1, <2>3
  <2> QED
    BY <2>2, <2>3
<1>11. Stands(h, 0, Idle, k, s, n)
  <2>1. Idle.op = "idle"
    BY DEF Idle
  <2> QED
    BY <1>6, <1>9, <2>1 DEF Stands
<1>12. job'[w].op # "respond"
  BY <1>2 DEF Idle
<1> QED
  BY <1>1, <1>2, <1>4, <1>5, <1>10, <1>11, <1>12, StateIs

-----------------------------------------------------------------------------
(* What wakes the workflow.                                                *)

LEMMA WakeReplays ==
    ASSUME Straight, TypeInv, CacheInv, ReplayInv, NEW ev, Wake(ev),
           IsNeutral(ev) \/ ev.type = "TimerFired"
              \/ \E i \in 1 .. Len(history) : AnswersOne(history, ev, i)
    PROVE  ReplayInv'
<1>1. PICK h, g : h = history /\ g = history'
  OBVIOUS
<1>2. /\ IsTable(h) /\ Numbered(h, Len(h)) /\ pending \in Nat /\ pending' = pending + 1
      /\ g = h \o <<ev, Event("WorkflowTaskScheduled", 0, 0)>>
      /\ UNCHANGED <<job, cache, reached, answer>>
  BY <1>1 DEF Wake, TypeInv, ReplayInv
<1>3. Grows(h, g)
  BY <1>1, <1>2, WakeGrows
<1>4. Extends(h, g) /\ IsTable(g) /\ Numbered(g, Len(g))
      /\ Now(g).scheduledActivities = Now(h).scheduledActivities
      /\ Now(g).scheduledTimers = Now(h).scheduledTimers
  BY <1>3 DEF Grows, Extends
<1>5. PICK mk, m : Everywhere(mk, m)
  BY DEF ReplayInv
<1>6. Marked(g, mk, m)
  BY <1>1, <1>3, <1>5, MarkedStill DEF Everywhere
<1>7. ASSUME NEW w \in Worker, NEW s, NEW n, Stands(h, pending, job[w], cache[w], s, n)
      PROVE  Stands(g, pending', job[w], cache[w], s, n)
  <2>1. At(g, s, n)
    BY <1>3, <1>7, AtStill DEF Stands
  <2>2. cache[w] # Miss => Entry(cache[w].exec, s, g, cache[w].last)
    <3>1. cache[w] # Miss => cache[w].last \in 0 .. Len(h)
      BY <1>1 DEF CacheInv, Fits
    <3> QED
      BY <1>2, <1>4, <1>7, <3>1, EntryStill DEF Stands
  <2>3. Known(g).told = Known(h).told
    BY <1>3, ToldStill
  <2>4. pending' # 0
    BY <1>2
  <2> QED
    BY <1>4, <1>7, <2>1, <2>2, <2>3, <2>4 DEF Stands
<1>8. \A w \in Worker : \E s, n : m <= n /\ Stands(g, pending', job'[w], cache'[w], s, n)
  <2> SUFFICES ASSUME NEW w \in Worker
               PROVE  \E s, n : m <= n /\ Stands(g, pending', job'[w], cache'[w], s, n)
    OBVIOUS
  <2>1. PICK s, n : m <= n /\ Stands(h, pending, job[w], cache[w], s, n)
    BY <1>1, <1>5 DEF Everywhere
  <2>2. job'[w] = job[w] /\ cache'[w] = cache[w]
    BY <1>2
  <2> QED
    BY <1>7, <2>1, <2>2
<1>9. Everywhere(mk, m)'
  BY <1>1, <1>2, <1>6, <1>8 DEF Everywhere
<1>10. \A w \in Worker : job'[w].op = "respond" => Replayed(job'[w], history')
  <2>1. \A w \in Worker : job'[w] = job[w]
    BY <1>2
  <2>2. \A w \in Worker : job[w].op = "respond" => Replayed(job[w], h)
    BY <1>1 DEF ReplayInv
  <2> QED
    BY <1>1, <1>2, <1>4, <2>1, <2>2, ReplayedStill
<1>11. pending' \in Nat
  BY <1>2
<1> QED
  BY <1>1, <1>4, <1>9, <1>10, <1>11 DEF ReplayInv

LEMMA OutcomeReplays ==
    ASSUME Straight, TypeInv, CacheInv, ReplayInv, Outcome \/ ActivityFails
    PROVE  ReplayInv'
<1>1. PICK i \in Unresolved : \E type \in Outcomes(history[i].type) :
         Wake(Event(type, history[i].id, i))
  BY DEF Outcome, ActivityFails, Outcomes
<1>0. PICK type \in Outcomes(history[i].type) : Wake(Event(type, history[i].id, i))
  BY <1>1
<1>2. PICK ev : ev = Event(type, history[i].id, i)
  OBVIOUS
<1>3. ev.type = type /\ ev.id = history[i].id /\ ev.ref = i
  BY <1>2 DEF Event
<1>4. /\ i \in 1 .. Len(history)
      /\ history[i].type \in {"ActivityTaskScheduled", "TimerStarted"}
      /\ \A j \in 1 .. Len(history) :
            ~(history[j].type \in Outcomes(history[i].type) /\ history[j].ref = i)
  BY TableIs DEF Unresolved, TypeInv
<1>5. CASE IsSchedule(history[i])
  <2>1. Outcomes(history[i].type) = {"ActivityTaskCompleted", "ActivityTaskFailed"}
    BY <1>5 DEF Outcomes, IsSchedule
  <2>2. IsOutcome(ev) /\ \A j \in 1 .. Len(history) :
           ~(IsOutcome(history[j]) /\ history[j].ref = i)
    BY <1>3, <1>4, <2>1 DEF IsOutcome
  <2>3. AnswersOne(history, ev, i)
    BY <1>3, <1>4, <1>5, <2>2 DEF AnswersOne
  <2> QED
    BY <1>0, <1>2, <1>4, <2>3, WakeReplays
<1>6. CASE ~IsSchedule(history[i])
  <2>1. ev.type = "TimerFired"
    BY <1>0, <1>3, <1>6 DEF Outcomes, IsSchedule
  <2> QED
    BY <1>0, <1>2, <2>1, WakeReplays
<1> QED
  BY <1>5, <1>6

LEMMA RequestReplays ==
    ASSUME Straight, TypeInv, CacheInv, ReplayInv,
           NEW type \in {"WorkflowExecutionSignaled", "WorkflowExecutionCancelRequested"},
           Request(type)
    PROVE  ReplayInv'
<1>1. PICK ev : ev = Event(type, 0, 0) /\ Wake(ev)
  BY DEF Request
<1>2. IsNeutral(ev)
  BY <1>1 DEF Event, IsNeutral, IsSchedule, IsOutcome
<1> QED
  BY <1>1, <1>2, WakeReplays

-----------------------------------------------------------------------------
(* What the theorems are about: a workflow function that only blocks on    *)
(* outcomes, one worker, a history within one page, queries between tasks. *)
OnePage == MaxEvents <= MaxHistoryFetch
StickyInv == TypeInv /\ CacheInv /\ ReplayInv

LEMMA StickyInvKept ==
    ASSUME Straight, Alone, OnePage, ~QueryAnyTime, StickyInv, [Next]_vars
    PROVE  StickyInv'
<1>1. TypeInv /\ CacheInv /\ ReplayInv /\ TypeInv' /\ CacheInv' /\ MaxEvents <= MaxHistoryFetch
  BY NextKeeps DEF StickyInv, OnePage
<1>2. ReplayInv'
  <2>1. CASE UNCHANGED vars
    BY <1>1, <2>1 DEF vars, ReplayInv, Everywhere
  <2>2. ASSUME NEW w \in Worker, PollWorkflowTask(w) PROVE ReplayInv'
    BY <1>1, <2>2, PollReplays
  <2>3. ASSUME NEW w \in Worker, PollUnregistered(w) PROVE ReplayInv'
    BY <1>1, <2>3, UnregisteredReplays
  <2>4. ASSUME NEW w \in Worker, Accept(w, TRUE) \/ Accept(w, FALSE) PROVE ReplayInv'
    BY <1>1, <2>4, AcceptReplays
  <2>5. ASSUME NEW w \in Worker, Refuse(w) \/ RespondFailed(w) \/ Restart(w) PROVE ReplayInv'
    BY <1>1, <2>5, GiveUpReplays
  <2>6. ASSUME NEW w \in Worker, LeaseLapses(w) PROVE ReplayInv'
    BY <1>1, <2>6, LapseReplays
  <2>7. ASSUME NEW w \in Worker, Evict(w) PROVE ReplayInv'
    BY <1>1, <2>7, EvictReplays
  <2>8. ASSUME NEW w \in Worker, ProcessQueryTask(w) PROVE ReplayInv'
    BY <1>1, <2>8, QueryReplays
  <2>9. CASE Outcome \/ ActivityFails
    BY <1>1, <2>9, OutcomeReplays
  <2>10. CASE Request("WorkflowExecutionSignaled") \/ Request("WorkflowExecutionCancelRequested")
    BY <1>1, <2>10, RequestReplays
  <2> QED
    BY <2>1, <2>2, <2>3, <2>4, <2>5, <2>6, <2>7, <2>8, <2>9, <2>10 DEF Next
<1> QED
  BY <1>1, <1>2 DEF StickyInv

LEMMA StickyInvHolds ==
    ASSUME Straight, Alone, OnePage, ~QueryAnyTime
    PROVE  Spec => []StickyInv
<1>1. Init => StickyInv
  BY InitHolds, ReplayInvBegins DEF StickyInv
<1>2. StickyInv /\ [Next]_vars => StickyInv'
  BY StickyInvKept
<1> QED
  BY <1>1, <1>2, PTL DEF Spec

(* Resuming a cached Execution is unobservable.  For a workflow function   *)
(* that starts no coroutine and only asks for outcomes, what the worker    *)
(* answers a task with is what a replay of the history it was sent would   *)
(* answer, over any refusals, lapsed leases, restarts, evictions and       *)
(* queries between tasks (processWorkflowTask, LoadNewEvents).             *)
THEOREM ResumedIsReplayed ==
    Straight /\ Alone /\ OnePage /\ ~QueryAnyTime => (Spec => []SameAsReplay)
<1> SUFFICES ASSUME Straight, Alone, OnePage, ~QueryAnyTime
             PROVE  Spec => []SameAsReplay
  OBVIOUS
<1>1. Spec => []StickyInv
  BY StickyInvHolds
<1>2. StickyInv => SameAsReplay
  BY DEF StickyInv, ReplayInv, Replayed, SameAsReplay
<1> QED
  BY <1>1, <1>2, PTL

(* No task of such a function fails on a NonDeterministicError: what was   *)
(* scheduled agrees with what history has recorded of it, by number and by *)
(* type (ScheduleActivity, ScheduleTimer).                                 *)
THEOREM NeverTakenForChanged ==
    Straight /\ Alone /\ OnePage /\ ~QueryAnyTime => (Spec => []NoFalsePanic)
<1> SUFFICES ASSUME Straight, Alone, OnePage, ~QueryAnyTime
             PROVE  Spec => []NoFalsePanic
  OBVIOUS
<1>1. Spec => []StickyInv
  BY StickyInvHolds
<1>2. StickyInv => NoFalsePanic
  BY DEF StickyInv, ReplayInv, Everywhere, Stands, NoFalsePanic
<1> QED
  BY <1>1, <1>2, PTL

-----------------------------------------------------------------------------
(* An open run always has something coming.                                *)

LEMMA NoneRefer ==
    ASSUME NEW h, IsTable(h), Referring(h), NEW ev, ~IsOutcome(ev), ~IsFiring(ev),
           NEW g, g = Append(h, ev)
    PROVE  Referring(g)
<1>1. Extends(h, g) /\ Len(h) \in Nat /\ Len(g) = Len(h) + 1 /\ g[Len(h) + 1] = ev
  BY ExtendsByOne, TableAppend, TableIs
<1>2. \A j \in 1 .. Len(g) : j > Len(h) => j = Len(h) + 1
  BY <1>1
<1> QED
  BY <1>1, <1>2, ReferringOn

LEMMA WakeRefers ==
    ASSUME TypeInv, Referring(history), NEW ev, Wake(ev),
           (~IsOutcome(ev) /\ ~IsFiring(ev)) \/ Refers(history, ev)
    PROVE  Referring(history')
<1>1. PICK h, g, a : h = history /\ g = history' /\ a = Event("WorkflowTaskScheduled", 0, 0)
  OBVIOUS
<1>2. IsTable(h) /\ Len(h) \in Nat /\ g = h \o <<ev, a>>
  BY <1>1, TableIs DEF TypeInv, Wake
<1>3. IsTable(<<ev, a>>) /\ Len(<<ev, a>>) = 2 /\ <<ev, a>>[1] = ev /\ <<ev, a>>[2] = a
  BY DEF IsTable
<1>4. PICK s : s = <<ev, a>>
  OBVIOUS
<1>5. Joined(h, s, g)
  BY <1>2, <1>3, <1>4, ConcatIs
<1>6. Extends(h, g) /\ Len(g) = Len(h) + 2 /\ g[Len(h) + 1] = ev /\ g[Len(h) + 2] = a
  <2>1. Len(s) = 2 /\ s[1] = ev /\ s[2] = a /\ 1 \in 1 .. 2 /\ 2 \in 1 .. 2
    BY <1>3, <1>4
  <2> QED
    BY <1>5, <2>1 DEF Joined
<1>7. ~IsOutcome(a) /\ ~IsFiring(a)
  BY <1>1 DEF Event, IsOutcome, IsFiring
<1>8. \A j \in 1 .. Len(g) : j > Len(h) => j = Len(h) + 1 \/ j = Len(h) + 2
  BY <1>2, <1>6
<1> QED
  BY <1>1, <1>2, <1>6, <1>7, <1>8, ReferringOn

LEMMA AcceptRefers ==
    ASSUME TypeInv, Referring(history), NEW w \in Worker, NEW heard \in BOOLEAN,
           Accept(w, heard)
    PROVE  Referring(history')
<1>1. PICK h, g, d : h = history /\ g = history' /\ d = job[w].cmds
  OBVIOUS
<1>2. IsTable(h) /\ g = Accepted(h, d) /\ job[w].op = "respond"
  BY <1>1 DEF TypeInv, Accept, Accepted
<1>3. IsTable(d)
  <2>1. IsJob(job[w])
    BY DEF TypeInv
  <2> QED
    BY <1>1, <1>2, <2>1 DEF IsJob, Idle
<1>4. AcceptedIs(h, d, g)
  BY <1>2, <1>3, AcceptExtends
<1>5. PICK n, k : n = Len(h) /\ k = Len(d) /\ n \in Nat /\ k \in Nat
  BY <1>2, <1>3, TableIs
<1>6. /\ Extends(h, g) /\ Len(g) = n + 1 + k
      /\ g[n + 1] = Event("WorkflowTaskCompleted", 0, 0)
      /\ \A i \in 1 .. k : g[n + 1 + i] = CommandEvent(d[i])
  BY <1>4, <1>5 DEF AcceptedIs
<1>7. ASSUME NEW j \in 1 .. Len(g), j > n
      PROVE  ~IsOutcome(g[j]) /\ ~IsFiring(g[j])
  <2>1. CASE j = n + 1
    BY <1>6, <2>1 DEF Event, IsOutcome, IsFiring
  <2>2. CASE j # n + 1
    <3>1. j \in Nat /\ n \in Nat /\ k \in Nat /\ j <= n + 1 + k /\ j > n
      BY <1>5, <1>6, <1>7
    <3>2. PICK i : i = j - (n + 1)
      OBVIOUS
    <3>3. i \in 1 .. k /\ n + 1 + i = j
      BY <2>2, <3>1, <3>2
    <3> QED
      BY <1>6, <3>3, CommandsRefer
  <2> QED
    BY <2>1, <2>2
<1> QED
  BY <1>1, <1>2, <1>5, <1>6, <1>7, ReferringOn

LEMMA ReferringKept ==
    ASSUME TypeInv, Referring(history), [Next]_vars
    PROVE  Referring(history')
<1>1. CASE history' = history
  BY <1>1
<1>2. ASSUME NEW w \in Worker, PollWorkflowTask(w) \/ PollUnregistered(w)
      PROVE  Referring(history')
  <2>1. history' = Append(history, Event("WorkflowTaskStarted", 0, 0)) /\ IsTable(history)
    BY <1>2 DEF PollWorkflowTask, PollUnregistered, TypeInv
  <2>2. ~IsOutcome(Event("WorkflowTaskStarted", 0, 0))
        /\ ~IsFiring(Event("WorkflowTaskStarted", 0, 0))
    BY DEF Event, IsOutcome, IsFiring
  <2> QED
    BY <2>1, <2>2, NoneRefer
<1>3. ASSUME NEW w \in Worker, Accept(w, TRUE) \/ Accept(w, FALSE)
      PROVE  Referring(history')
  BY <1>3, AcceptRefers
<1>4. CASE Outcome \/ ActivityFails
  <2>1. PICK i \in Unresolved : \E type \in Outcomes(history[i].type) :
           Wake(Event(type, history[i].id, i))
    BY <1>4 DEF Outcome, ActivityFails, Outcomes
  <2>2. PICK type : Wake(Event(type, history[i].id, i))
    BY <2>1
  <2>3. PICK ev : ev = Event(type, history[i].id, i)
    OBVIOUS
  <2>4. i \in 1 .. Len(history)
    BY TableIs DEF Unresolved, TypeInv
  <2>5. Refers(history, ev)
    BY <2>3, <2>4 DEF Refers, Event
  <2> QED
    BY <2>2, <2>3, <2>5, WakeRefers
<1>5. CASE Request("WorkflowExecutionSignaled") \/ Request("WorkflowExecutionCancelRequested")
  <2>1. PICK type \in {"WorkflowExecutionSignaled", "WorkflowExecutionCancelRequested"} :
           Wake(Event(type, 0, 0))
    BY <1>5 DEF Request
  <2>2. ~IsOutcome(Event(type, 0, 0)) /\ ~IsFiring(Event(type, 0, 0))
    BY DEF Event, IsOutcome, IsFiring
  <2> QED
    BY <2>1, <2>2, WakeRefers
<1>6. \/ history' = history
      \/ \E w \in Worker : PollWorkflowTask(w) \/ PollUnregistered(w)
                           \/ Accept(w, TRUE) \/ Accept(w, FALSE)
      \/ Outcome \/ ActivityFails
      \/ Request("WorkflowExecutionSignaled") \/ Request("WorkflowExecutionCancelRequested")
  BY DEF Next, vars, Refuse, RespondFailed, LeaseLapses, Evict, Restart, ProcessQueryTask
<1> QED
  BY <1>1, <1>2, <1>3, <1>4, <1>5, <1>6

LEMMA ReferringBegins ==
    ASSUME Init
    PROVE  Referring(history)
<1>1. PICK h : h = history
  OBVIOUS
<1>2. h = <<Event("WorkflowExecutionStarted", 0, 0), Event("WorkflowTaskScheduled", 0, 0)>>
  BY <1>1 DEF Init
<1>3. Len(h) = 2 /\ \A j \in 1 .. 2 : j = 1 \/ j = 2
  BY <1>2
<1>4. ~IsOutcome(h[1]) /\ ~IsFiring(h[1]) /\ ~IsOutcome(h[2]) /\ ~IsFiring(h[2])
  BY <1>2 DEF Event, IsOutcome, IsFiring
<1> QED
  BY <1>1, <1>3, <1>4 DEF Referring

(* No task is queued or out, so the function rests at all it was told of.  *)
LEMMA RestIsNotStuck ==
    ASSUME Straight, Awaited, Alone, StickyInv, Referring(history)
    PROVE  NeverStuck
<1> SUFFICES ASSUME ~(pending > 0), \A w \in Worker : job[w] = Idle
             PROVE  Closed \/ Unresolved # {}
  BY DEF NeverStuck
<1>1. PICK h : h = history /\ IsTable(h) /\ Referring(h)
  BY DEF StickyInv, TypeInv
<1>2. pending = 0
  BY DEF StickyInv, ReplayInv
<1>3. PICK w \in Worker : job[w] = Idle
  BY DEF Alone
<1>4. PICK mk, m : Everywhere(mk, m)
  BY DEF StickyInv, ReplayInv
<1>5. PICK s, n : Stands(h, 0, Idle, cache[w], s, n)
  BY <1>1, <1>2, <1>3, <1>4 DEF Everywhere
<1>6. /\ At(h, s, n) /\ Waits(Now(h).outcomes, Now(h).fired, s)
      /\ s.acts = Now(h).scheduledActivities /\ s.tims = Now(h).scheduledTimers
      /\ s.done => HasEnded(h)
  <2>1. Idle.op = "idle"
    BY DEF Idle
  <2> QED
    BY <1>5, <2>1 DEF Stands
<1>7. DOMAIN h = 1 .. Len(h)
  BY <1>1, TableIs
<1>8. CASE s.done
  BY <1>1, <1>6, <1>7, <1>8 DEF HasEnded, Closing, Closed
<1>9. CASE ~s.done
  <2>1. Open(h) # {}
    BY <1>1, <1>6, <1>9, SomethingOpen
  <2>2. Open(h) = Unresolved
    BY <1>1, <1>7 DEF Open, Unresolved
  <2> QED
    BY <2>1, <2>2
<1> QED
  BY <1>8, <1>9

(* The run of such a function, if it only waits for what it has asked for, *)
(* always has something coming while it is open: the coroutine never waits *)
(* for a call that the server was not told of, whatever was refused,       *)
(* evicted or replayed on the way (processWorkflowTask's eviction).        *)
THEOREM RunsAreNeverStuck ==
    Straight /\ Awaited /\ Alone /\ OnePage /\ ~QueryAnyTime => (Spec => []NeverStuck)
<1> SUFFICES ASSUME Straight, Awaited, Alone, OnePage, ~QueryAnyTime
             PROVE  Spec => []NeverStuck
  OBVIOUS
<1>1. Spec => []StickyInv
  BY StickyInvHolds
<1>2. Init => Referring(history)
  BY ReferringBegins
<1>3. StickyInv /\ Referring(history) /\ [Next]_vars => Referring(history)'
  BY ReferringKept DEF StickyInv
<1>4. StickyInv /\ Referring(history) => NeverStuck
  BY RestIsNotStuck
<1> QED
  BY <1>1, <1>2, <1>3, <1>4, PTL DEF Spec
=============================================================================
