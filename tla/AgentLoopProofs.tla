--------------------------- MODULE AgentLoopProofs ---------------------------
(***************************************************************************)
(* Theorems about the agent handler and its ledger, for every number of    *)
(* tasks, executors, rounds and tool calls: no side effect of a task is    *)
(* started twice, the ledger that successive executors write reads as one  *)
(* run, and a task succeeds only when that run is complete.                *)
(***************************************************************************)
EXTENDS AgentLoop, WorkerPoolProofs

-----------------------------------------------------------------------------
(* The inductive invariant.  L is the ledger of one task and E counts its  *)
(* side effects; x and y are what one executor and its loop hold.          *)

\* The states of a row that was dispatched.
Begun == {"dispatched", "completed", "uncertain"}

\* The key of a model round.
Round(r) == [round |-> r, call |-> 0]

\* How many tool calls the answer of a round asks for, 0 before it is stored.
Calls(L, r) == L[Round(r)].calls

\* A run of the loop that has come to a key has completed everything before it.
Reached(L, j) ==
    /\ \A k \in Key : Earlier(k, j) /\ k.call <= Calls(L, k.round) => L[k].state = "completed"
    /\ j.call <= Calls(L, j.round)
    /\ \A r \in 0..MaxRound : r < j.round => Calls(L, r) > 0

\* Only a completed model round has calls, and not in the last round.
CallsFit(L) ==
    \A k \in Key : L[k].calls > 0 => L[k].state = "completed" /\ k.call = 0 /\ k.round < MaxRound

\* A row was written by a run that had come to it, under a revision of the past.
RowsFit(L, rev) ==
    \A k \in Key : L[k].state # "absent" => L[k].task_revision < rev /\ Reached(L, k)

\* A side effect is started at most once, and only after it was dispatched.
EffectsFit(L, E) ==
    \A k \in Key : E[k] <= 1 /\ (E[k] = 1 => L[k].state \in Begun)

\* Where a loop may stand, with the outcome its executor holds.
Stands(y, outcome, L, E) ==
    /\ Reached(L, y.key)
    /\ y.key.call > 0 => y.calls = Calls(L, y.key.round)
    /\ y.pc = "complete" /\ y.key.round = MaxRound => y.calls = 0
    /\ y.pc \in {"mark", "return"} => outcome # "none"
    /\ y.pc = "invoke" => E[y.key] = 0 /\ L[y.key].state \in Begun

\* Only a handler is inside the loop.
LoopFits(x, y, L, E) ==
    y.pc # "off" => x.phase \in {"handler", "stale"} /\ Stands(y, x.outcome, L, E)

\* Two executors are never both about to start one side effect.
OneInvokes ==
    \A e, g \in Executors :
      /\ loop[e].pc = "invoke" /\ loop[g].pc = "invoke"
      /\ exec[e].fence.task = exec[g].fence.task /\ loop[e].key = loop[g].key
      => e = g

\* The model has given its last answer, and it is stored.
Answered(L) ==
    \E r \in 0..MaxRound : L[Round(r)].state = "completed" /\ L[Round(r)].calls = 0

\* Success is claimed and stored for such tasks only.
SuccessFits ==
    /\ \A t \in Tasks : status[t] = "succeeded" => Answered(ledger[t])
    /\ \A e \in Executors : exec[e].phase # "idle" /\ exec[e].outcome = "succeeded"
                              => Answered(ledger[exec[e].fence.task])

\* The types of what the loop adds to the pool.
LedgerTypeOK ==
    /\ ledger \in [Tasks -> [Key -> Row]]
    /\ effects \in [Tasks -> [Key -> Nat]]
    /\ loop \in [Executors -> LoopState]

\* Every ledger and its counters.
LedgersFit ==
    \A t \in Tasks : /\ CallsFit(ledger[t])
                     /\ RowsFit(ledger[t], revision[t])
                     /\ EffectsFit(ledger[t], effects[t])

\* Every loop, with the task of its executor.
LoopsFit ==
    \A e \in Executors :
      LET t == exec[e].fence.task IN LoopFits(exec[e], loop[e], ledger[t], effects[t])

\* The inductive invariant of the loop.
LoopInd == PoolInd /\ LedgerTypeOK /\ LedgersFit /\ LoopsFit /\ OneInvokes /\ SuccessFits

-----------------------------------------------------------------------------
(* Keys and ledgers *)

\* A key is its two numbers.
LEMMA Keys ==
    /\ \A k \in Key : /\ k.round \in 0..MaxRound /\ k.call \in 0..MaxCalls
                      /\ k.call = 0 => k = Round(k.round)
    /\ \A r \in 0..MaxRound : Round(r) \in Key /\ Round(r).round = r /\ Round(r).call = 0
    /\ \A j, k \in Key : j.round = k.round /\ j.call = k.call => j = k
<1>1. 0 \in 0..MaxCalls
  BY LoopAssumption
<1>2. QED
  BY <1>1 DEF Key, Round

\* The fields of a row.
LEMMA RowFields ==
    ASSUME NEW L \in [Key -> Row], NEW k \in Key
    PROVE  L[k].state \in RowState /\ L[k].task_revision \in Nat /\ L[k].calls \in 0..MaxCalls
BY DEF Row

\* The first key is reached by every run.
LEMMA FirstIsReached ==
    ASSUME NEW L \in [Key -> Row]
    PROVE  FirstKey \in Key /\ Reached(L, FirstKey)
<1>1. 0 \in 0..MaxRound /\ 0 \in 0..MaxCalls
  BY LoopAssumption
<1>2. FirstKey \in Key /\ FirstKey = Round(0) /\ FirstKey.round = 0 /\ FirstKey.call = 0
  BY <1>1 DEF FirstKey, Key, Round
<1>3. \A k \in Key : ~Earlier(k, FirstKey)
  BY <1>2, Keys DEF Earlier
<1>4. Calls(L, 0) >= 0
  BY <1>2, RowFields DEF Calls
<1>5. \A r \in 0..MaxRound : ~(r < 0)
  OBVIOUS
<1>6. QED
  BY <1>2, <1>3, <1>4, <1>5 DEF Reached

\* What a ledger keeps while its rows are written: completed rows, dispatches, and
\* how far a run has come.
Evolves(L, M) ==
    /\ \A k \in Key : L[k].state = "completed" => M[k] = L[k]
    /\ \A k \in Key : L[k].state \in Begun => M[k].state \in Begun
    /\ \A k \in Key : Reached(L, k) => Reached(M, k)

\* A write of a row that is not completed keeps them.
LEMMA WriteEvolves ==
    ASSUME NEW L \in [Key -> Row], CallsFit(L), NEW k \in Key, L[k].state # "completed",
           NEW row \in Row, L[k].state \in Begun => row.state \in Begun
    PROVE  Evolves(L, [L EXCEPT ![k] = row])
<1> DEFINE M == [L EXCEPT ![k] = row]
<1>1. /\ M \in [Key -> Row] /\ M[k] = row
      /\ \A j \in Key : j # k => M[j] = L[j]
  OBVIOUS
<1> HIDE DEF M
<1>2. ASSUME NEW j \in Key, Reached(L, j) PROVE Reached(M, j)
  <2>1. /\ j.round \in 0..MaxRound /\ j.call \in 0..MaxCalls
        /\ k.round \in 0..MaxRound /\ k.call \in 0..MaxCalls
    BY Keys
  <2>2. \A r \in 0..MaxRound : Calls(L, r) \in Nat /\ Calls(M, r) \in Nat
    BY <1>1, Keys, RowFields DEF Calls
  <2>3. \A r \in 0..MaxRound : r < j.round => Calls(M, r) = Calls(L, r)
    <3>1. SUFFICES ASSUME NEW r \in 0..MaxRound, r < j.round
                   PROVE  Round(r) # k
      BY <1>1, Keys DEF Calls
    <3>2. Earlier(Round(r), j) /\ Round(r).call <= Calls(L, Round(r).round)
      BY <2>1, <2>2, <3>1, Keys DEF Earlier
    <3>3. QED
      BY <1>2, <3>2, Keys DEF Reached
  <2>4. j.call > 0 => Calls(M, j.round) = Calls(L, j.round)
    <3>1. SUFFICES ASSUME j.call > 0 PROVE Round(j.round) # k
      BY <1>1, <2>1, Keys DEF Calls
    <3>2. Earlier(Round(j.round), j) /\ Round(j.round).call <= Calls(L, Round(j.round).round)
      BY <2>1, <2>2, <3>1, Keys DEF Earlier
    <3>3. QED
      BY <1>2, <2>1, <3>2, Keys DEF Reached
  <2>5. ASSUME NEW i \in Key, Earlier(i, j), i.call <= Calls(M, i.round)
        PROVE  M[i].state = "completed"
    <3>1. i.round \in 0..MaxRound /\ i.call \in 0..MaxCalls
      BY Keys
    <3>2. Calls(M, i.round) = Calls(L, i.round)
      BY <2>1, <2>3, <2>4, <2>5, <3>1 DEF Earlier
    <3>3. L[i].state = "completed"
      BY <1>2, <2>5, <3>2 DEF Reached
    <3>4. QED
      BY <1>1, <3>3
  <2>6. j.call <= Calls(M, j.round)
    BY <1>2, <2>1, <2>2, <2>4 DEF Reached
  <2>7. \A r \in 0..MaxRound : r < j.round => Calls(M, r) > 0
    BY <1>2, <2>3 DEF Reached
  <2>8. QED
    BY <2>5, <2>6, <2>7 DEF Reached
<1>3. Evolves(L, M)
  BY <1>1, <1>2 DEF Evolves
<1>4. QED
  BY <1>3 DEF M

\* A ledger that nobody writes.
LEMMA RestEvolves == \A L : Evolves(L, L)
BY DEF Evolves

\* A stored last answer stays.
LEMMA AnsweredEvolves ==
    ASSUME NEW L, NEW M, Evolves(L, M), Answered(L)
    PROVE  Answered(M)
BY Keys DEF Answered, Evolves

\* A loop stays where it may be, whoever writes the ledger.
LEMMA StandsEvolves ==
    ASSUME NEW L \in [Key -> Row], NEW M \in [Key -> Row], NEW E, NEW F, NEW o,
           NEW y \in LoopState, Stands(y, o, L, E), Evolves(L, M),
           y.pc = "invoke" => F[y.key] = E[y.key]
    PROVE  Stands(y, o, M, F)
<1>1. y.key \in Key /\ Reached(L, y.key)
  BY DEF LoopState, Stands
<1>2. ASSUME y.key.call > 0 PROVE Calls(M, y.key.round) = Calls(L, y.key.round)
  <2>1. y.key.round \in 0..MaxRound /\ y.key.call \in 0..MaxCalls
    BY <1>1, Keys
  <2>2. Calls(L, y.key.round) \in Nat
    BY <2>1, Keys, RowFields DEF Calls
  <2>3. Earlier(Round(y.key.round), y.key)
    BY <1>2, <2>1, Keys DEF Earlier
  <2>4. L[Round(y.key.round)].state = "completed"
    BY <1>1, <2>1, <2>2, <2>3, Keys DEF Reached
  <2>5. QED
    BY <2>1, <2>4, Keys DEF Evolves, Calls
<1>3. QED
  BY <1>1, <1>2 DEF Stands, Evolves

\* The key after a completed one is reached, too.
LEMMA NextIsReached ==
    ASSUME NEW L \in [Key -> Row], CallsFit(L), NEW k \in Key, Reached(L, k),
           L[k].state = "completed", Calls(L, k.round) > 0
    PROVE  LET next == IF k.call < Calls(L, k.round) THEN [k EXCEPT !.call = @ + 1]
                       ELSE [round |-> k.round + 1, call |-> 0] IN
           /\ next \in Key /\ Reached(L, next)
           /\ next.call > 0 => next.round = k.round
<1> DEFINE c == Calls(L, k.round)
           next == IF k.call < c THEN [k EXCEPT !.call = @ + 1]
                   ELSE [round |-> k.round + 1, call |-> 0]
<1>1. /\ k.round \in 0..MaxRound /\ k.call \in 0..MaxCalls
      /\ Round(k.round) \in Key /\ c \in 0..MaxCalls
      /\ MaxRound \in Nat /\ MaxCalls \in Nat
  BY Keys, RowFields, LoopAssumption DEF Calls
<1>2. k.round < MaxRound
  BY <1>1, Keys DEF CallsFit, Calls
<1>3. k.call <= c
  BY DEF Reached
<1>4. CASE k.call < c
  <2>1. /\ next \in Key /\ next.round = k.round /\ next.call = k.call + 1
    BY <1>1, <1>4 DEF Key
  <2> HIDE DEF next
  <2>2. ASSUME NEW i \in Key, Earlier(i, next), i.call <= Calls(L, i.round)
        PROVE  L[i].state = "completed"
    <3>1. Earlier(i, k) \/ i = k
      BY <1>1, <2>1, <2>2, Keys DEF Earlier
    <3>2. QED
      BY <2>2, <3>1 DEF Reached
  <2>3. Reached(L, next)
    BY <1>1, <1>4, <2>1, <2>2 DEF Reached
  <2>4. QED
    BY <2>1, <2>3 DEF next
<1>5. CASE ~(k.call < c)
  <2>1. next \in Key /\ next.round = k.round + 1 /\ next.call = 0
    BY <1>1, <1>2, <1>5 DEF Key
  <2> HIDE DEF next
  <2>2. ASSUME NEW i \in Key, Earlier(i, next), i.call <= Calls(L, i.round)
        PROVE  L[i].state = "completed"
    <3>1. Earlier(i, k) \/ i = k
      BY <1>1, <1>3, <1>5, <2>1, <2>2, Keys DEF Earlier
    <3>2. QED
      BY <2>2, <3>1 DEF Reached
  <2>3. Calls(L, next.round) \in Nat
    BY <2>1, Keys, RowFields DEF Calls
  <2>4. \A r \in 0..MaxRound : r < next.round => r < k.round \/ r = k.round
    BY <1>1, <2>1
  <2>5. Reached(L, next)
    BY <1>1, <2>1, <2>2, <2>3, <2>4 DEF Reached
  <2>6. QED
    BY <2>1, <2>5 DEF next
<1>6. QED
  BY <1>4, <1>5

-----------------------------------------------------------------------------
(* What the invariant says *)

\* With a last answer, every row that was written is completed.
LEMMA AnsweredIsComplete ==
    ASSUME NEW L \in [Key -> Row], NEW rev, RowsFit(L, rev), Answered(L), NEW k \in Key,
           L[k].state # "absent"
    PROVE  L[k].state = "completed"
<1>1. PICK r \in 0..MaxRound : L[Round(r)].state = "completed" /\ L[Round(r)].calls = 0
  BY DEF Answered
<1>2. Reached(L, k) /\ Reached(L, Round(r))
  BY <1>1, Keys DEF RowsFit
<1>3. /\ k.round \in 0..MaxRound /\ k.call \in 0..MaxCalls
      /\ Round(r) \in Key /\ Round(r).round = r /\ Round(r).call = 0
      /\ Calls(L, r) = 0
  BY <1>1, Keys DEF Calls
<1>4. CASE k.round > r
  BY <1>2, <1>3, <1>4 DEF Reached
<1>5. CASE k.round = r
  <2>1. k.call = 0
    BY <1>2, <1>3, <1>5 DEF Reached
  <2>2. QED
    BY <1>1, <1>3, <1>5, <2>1, Keys
<1>6. CASE k.round < r
  BY <1>2, <1>3, <1>6 DEF Reached, Earlier
<1>7. QED
  BY <1>3, <1>4, <1>5, <1>6

\* The properties follow from the invariant.
LEMMA LoopIndImplies == LoopInd => LoopInv /\ EffectsAtMostOnce /\ SuccessIsComplete
<1>1. SUFFICES ASSUME LoopInd PROVE LoopInv /\ EffectsAtMostOnce /\ SuccessIsComplete
  OBVIOUS
<1>2. LoopTypeOK
  BY <1>1 DEF LoopInd, LoopTypeOK, LedgerTypeOK, PoolInd, LoopsFit, LoopFits, Stands
<1>3. LedgerIsOneHistory
  <2>1. SUFFICES ASSUME NEW t \in Tasks, NEW j \in Key, ledger[t][j].state # "absent"
                 PROVE  /\ \A k \in Key :
                             /\ Earlier(k, j)
                             /\ k.call = 0 \/ k.call <= Calls(ledger[t], k.round)
                             => ledger[t][k].state = "completed"
                        /\ j.call <= Calls(ledger[t], j.round)
    BY DEF LedgerIsOneHistory, Calls, Round
  <2>2. Reached(ledger[t], j) /\ ledger[t] \in [Key -> Row]
    BY <1>1, <2>1 DEF LoopInd, LedgersFit, RowsFit, LedgerTypeOK
  <2>3. \A k \in Key : k.round \in 0..MaxRound /\ Calls(ledger[t], k.round) >= 0
    BY <2>2, Keys, RowFields DEF Calls
  <2>4. QED
    BY <2>2, <2>3 DEF Reached
<1>4. EffectsAtMostOnce
  BY <1>1 DEF LoopInd, LedgersFit, EffectsFit, EffectsAtMostOnce, Begun
<1>5. SuccessIsComplete
  <2>1. SUFFICES ASSUME NEW t \in Tasks, status[t] = "succeeded"
                 PROVE  /\ Answered(ledger[t])
                        /\ \A k \in Key : ledger[t][k].state \in {"absent", "completed"}
    BY DEF SuccessIsComplete, Answered, Round
  <2>2. Answered(ledger[t])
    BY <1>1, <2>1 DEF LoopInd, SuccessFits
  <2>3. ledger[t] \in [Key -> Row] /\ RowsFit(ledger[t], revision[t])
    BY <1>1 DEF LoopInd, LedgersFit, LedgerTypeOK
  <2>4. QED
    BY <2>2, <2>3, AnsweredIsComplete
<1>6. QED
  BY <1>2, <1>3, <1>4, <1>5 DEF LoopInv

-----------------------------------------------------------------------------
(* Steps *)

\* One executor's step, and what it must leave right.
LEMMA LoopMoves ==
    ASSUME LoopInd, PoolInd', LedgerTypeOK', LedgersFit',
           \A u \in Tasks : Evolves(ledger[u], ledger'[u]),
           NEW e \in Executors,
           \A g \in Executors : g # e =>
             /\ exec'[g] = exec[g] /\ loop'[g] = loop[g]
             /\ loop[g].pc = "invoke" => effects'[exec[g].fence.task][loop[g].key]
                                           = effects[exec[g].fence.task][loop[g].key],
           LoopFits(exec'[e], loop'[e], ledger'[exec'[e].fence.task],
                    effects'[exec'[e].fence.task]),
           loop'[e].pc = "invoke" =>
             \/ ledger[exec'[e].fence.task][loop'[e].key].state \notin Begun
             \/ loop'[e] = loop[e] /\ exec'[e].fence.task = exec[e].fence.task,
           exec'[e].phase # "idle" /\ exec'[e].outcome = "succeeded"
             => Answered(ledger'[exec'[e].fence.task]),
           \A t \in Tasks : status'[t] = "succeeded"
             => status[t] = "succeeded" \/ Answered(ledger'[t])
    PROVE  LoopInd'
<1>1. \A g \in Executors : exec[g].fence.task \in Tasks /\ loop[g] \in LoopState
  BY ExecFields DEF LoopInd, PoolInd, LedgerTypeOK
<1>2. \A u \in Tasks : ledger[u] \in [Key -> Row] /\ ledger'[u] \in [Key -> Row]
  BY DEF LoopInd, LedgerTypeOK
<1>3. ASSUME NEW g \in Executors
      PROVE  LoopFits(exec'[g], loop'[g], ledger'[exec'[g].fence.task],
                      effects'[exec'[g].fence.task])
  <2>1. CASE g = e
    BY <2>1
  <2>2. CASE g # e
    <3>1. LoopFits(exec[g], loop[g], ledger[exec[g].fence.task], effects[exec[g].fence.task])
      BY DEF LoopInd, LoopsFit
    <3>2. QED
      BY <1>1, <1>2, <2>2, <3>1, StandsEvolves DEF LoopFits
  <2>3. QED
    BY <2>1, <2>2
<1>4. LoopsFit'
  BY <1>3 DEF LoopsFit
<1>5. OneInvokes'
  <2>1. ASSUME NEW g \in Executors, g # e, loop'[e].pc = "invoke", loop[g].pc = "invoke",
               exec'[e].fence.task = exec[g].fence.task, loop'[e].key = loop[g].key
        PROVE  FALSE
    <3>1. ledger[exec[g].fence.task][loop[g].key].state \in Begun
      BY <2>1 DEF LoopInd, LoopsFit, LoopFits, Stands
    <3>2. loop'[e] = loop[e] /\ exec'[e].fence.task = exec[e].fence.task
      BY <2>1, <3>1
    <3>3. OneInvokes /\ loop[e].pc = "invoke" /\ loop[e].key = loop[g].key
          /\ exec[e].fence.task = exec[g].fence.task
      BY <2>1, <3>2 DEF LoopInd
    <3>4. QED
      BY <2>1, <3>3 DEF OneInvokes
  <2>2. SUFFICES ASSUME NEW g \in Executors, NEW h \in Executors,
                        loop'[g].pc = "invoke", loop'[h].pc = "invoke",
                        exec'[g].fence.task = exec'[h].fence.task, loop'[g].key = loop'[h].key
                 PROVE  g = h
    BY DEF OneInvokes
  <2>3. CASE g = e \/ h = e
    BY <2>1, <2>2, <2>3
  <2>4. CASE g # e /\ h # e
    BY <2>2, <2>4 DEF LoopInd, OneInvokes
  <2>5. QED
    BY <2>3, <2>4
<1>6. SuccessFits'
  <2>1. \A t \in Tasks : status'[t] = "succeeded" => Answered(ledger'[t])
    BY AnsweredEvolves DEF LoopInd, SuccessFits
  <2>2. ASSUME NEW g \in Executors, exec'[g].phase # "idle", exec'[g].outcome = "succeeded"
        PROVE  Answered(ledger'[exec'[g].fence.task])
    BY <1>1, <2>2, AnsweredEvolves DEF LoopInd, SuccessFits
  <2>3. QED
    BY <2>1, <2>2 DEF SuccessFits
<1>7. QED
  BY <1>4, <1>5, <1>6 DEF LoopInd

\* A ledger at rest stays right while the revision grows.
LEMMA LedgerRests ==
    ASSUME LoopInd, StoreTypeOK', Pinned, UNCHANGED ledger, UNCHANGED effects
    PROVE  /\ LedgersFit'
           /\ \A u \in Tasks : Evolves(ledger[u], ledger'[u])
<1>1. ASSUME NEW t \in Tasks PROVE RowsFit(ledger[t], revision'[t])
  <2>1. /\ revision[t] \in Nat /\ revision'[t] \in Nat /\ revision[t] <= revision'[t]
    BY Grown DEF LoopInd, PoolInd, TypeOK
  <2>2. \A k \in Key : ledger[t][k].task_revision \in Nat
    BY RowFields DEF LoopInd, LedgerTypeOK
  <2>3. RowsFit(ledger[t], revision[t])
    BY DEF LoopInd, LedgersFit
  <2>4. QED
    BY <2>1, <2>2, <2>3 DEF RowsFit
<1>2. LedgersFit'
  BY <1>1 DEF LoopInd, LedgersFit
<1>3. QED
  BY <1>2, RestEvolves

\* The steps a row may take, and the calls it may then hold.
RowMoves(k, from, to, n) ==
    /\ <<from, to>> \in {<<"absent", "prepared">>, <<"prepared", "dispatched">>,
                         <<"dispatched", "completed">>, <<"dispatched", "uncertain">>}
    /\ n \in 0..MaxCalls
    /\ n > 0 => to = "completed" /\ k.call = 0 /\ k.round < MaxRound

\* One write of a row at the key its loop has come to keeps the ledgers right.
LEMMA LedgerWritten ==
    ASSUME LoopInd, StoreTypeOK', NEW f \in Fence, NEW k \in Key, NEW at,
           NEW from, NEW to, NEW n, RowMoves(k, from, to, n),
           ledgerMutation(f, k, at, from, to, n), Reached(ledger[f.task], k), UNCHANGED effects
    PROVE  /\ ledger' \in [Tasks -> [Key -> Row]]
           /\ LedgersFit'
           /\ \A u \in Tasks : Evolves(ledger[u], ledger'[u])
           /\ f.task \in Tasks /\ f.revision \in Nat /\ revision'[f.task] = f.revision + 1
           /\ ledger[f.task][k].state = from
           /\ ledger'[f.task][k].state = to /\ ledger'[f.task][k].calls = n
           /\ \A j \in Key : j # k => ledger'[f.task][j] = ledger[f.task][j]
           /\ UNCHANGED status
<1>1. PICK t \in Tasks : t = f.task
  BY DEF Fence
<1> DEFINE row == [state |-> to, task_revision |-> f.revision, calls |-> n]
           L == ledger[t]
           M == [L EXCEPT ![k] = row]
<1>2. /\ f.revision \in Nat
      /\ revision' = [revision EXCEPT ![t] = @ + 1] /\ revision[t] = f.revision
      /\ UNCHANGED status
  BY <1>1 DEF ledgerMutation, AppendProgress, FenceHolds, NewRevision, Fence
<1>3. /\ StoreTypeOK /\ ledger \in [Tasks -> [Key -> Row]]
      /\ CallsFit(L) /\ RowsFit(L, revision[t]) /\ EffectsFit(L, effects[t])
  BY DEF LoopInd, PoolInd, TypeOK, LedgerTypeOK, LedgersFit
<1>4. ledger' = [ledger EXCEPT ![t] = M] /\ L[k].state = from
  BY <1>1, <1>3 DEF ledgerMutation
<1>5. /\ row \in Row /\ row.state = to /\ row.calls = n /\ row.task_revision = f.revision
      /\ from # "completed" /\ (from \in Begun => to \in Begun)
  BY <1>2 DEF RowMoves, Row, RowState, Begun
<1> HIDE DEF row
<1>6. L \in [Key -> Row] /\ M \in [Key -> Row]
  BY <1>3, <1>5
<1>7. M[k] = row /\ \A j \in Key : j # k => M[j] = L[j]
  BY <1>6
<1>8. Evolves(L, M)
  BY <1>3, <1>4, <1>5, <1>6, WriteEvolves
<1> HIDE DEF M, L
<1>9. ledger' \in [Tasks -> [Key -> Row]] /\ ledger'[t] = M
  BY <1>3, <1>4, <1>6
<1>10. \A u \in Tasks : u # t => ledger'[u] = ledger[u] /\ revision'[u] = revision[u]
  BY <1>2, <1>3, <1>4 DEF StoreTypeOK
<1>11. revision[t] \in Nat /\ revision'[t] = revision[t] + 1
  BY <1>2, <1>3 DEF StoreTypeOK
<1>12. CallsFit(M)
  BY <1>3, <1>5, <1>7 DEF CallsFit, RowMoves
<1>13. RowsFit(M, revision'[t])
  <2>1. \A j \in Key : L[j].task_revision \in Nat
    BY <1>6, RowFields
  <2>2. Reached(M, k)
    BY <1>1, <1>8 DEF Evolves, L
  <2>3. ASSUME NEW j \in Key, j # k, M[j].state # "absent"
        PROVE  M[j].task_revision < revision'[t] /\ Reached(M, j)
    BY <1>3, <1>7, <1>8, <1>11, <2>1, <2>3 DEF RowsFit, Evolves
  <2>4. M[k].task_revision < revision'[t]
    BY <1>2, <1>5, <1>7, <1>11
  <2>5. QED
    BY <2>2, <2>3, <2>4 DEF RowsFit
<1>14. EffectsFit(M, effects[t])
  BY <1>3, <1>8 DEF EffectsFit, Evolves
<1>15. LedgersFit'
  <2>1. ASSUME NEW u \in Tasks
        PROVE  /\ CallsFit(ledger'[u]) /\ RowsFit(ledger'[u], revision'[u])
               /\ EffectsFit(ledger'[u], effects'[u])
    <3>1. CASE u = t
      BY <1>9, <1>12, <1>13, <1>14, <3>1
    <3>2. CASE u # t
      BY <1>10, <3>2 DEF LoopInd, LedgersFit
    <3>3. QED
      BY <3>1, <3>2
  <2>2. QED
    BY <2>1 DEF LedgersFit
<1>16. \A u \in Tasks : Evolves(ledger[u], ledger'[u])
  BY <1>8, <1>9, <1>10, RestEvolves DEF L
<1>17. QED
  BY <1>1, <1>2, <1>4, <1>5, <1>7, <1>9, <1>11, <1>15, <1>16 DEF L

-----------------------------------------------------------------------------
(* One executor inside its loop *)

\* What the executor holds after a step of its loop.
Held(x, rev, o) == [x EXCEPT !.fence.revision = rev, !.outcome = o]

\* The steps that the loop is made of, in one form.
LEMMA HeldForms ==
    ASSUME exec \in [Executors -> ExecState], NEW e \in Executors, NEW rev, NEW o
    PROVE  /\ Learn(e, rev) => exec' = [exec EXCEPT ![e] = Held(exec[e], rev, exec[e].outcome)]
           /\ Decide(e, o)
                => exec' = [exec EXCEPT ![e] = Held(exec[e], exec[e].fence.revision, o)]
           /\ UNCHANGED exec
                => exec' = [exec EXCEPT ![e] = Held(exec[e], exec[e].fence.revision,
                                                    exec[e].outcome)]
<1>1. exec[e] \in ExecState /\ exec[e].fence \in Fence
  BY DEF ExecState
<1>2. Held(exec[e], exec[e].fence.revision, exec[e].outcome) = exec[e]
  BY <1>1 DEF Held, ExecState, Fence
<1>3. [exec[e] EXCEPT !.fence.revision = rev] = Held(exec[e], rev, exec[e].outcome)
  BY <1>1 DEF Held, ExecState
<1>4. [exec[e] EXCEPT !.outcome = o] = Held(exec[e], exec[e].fence.revision, o)
  BY <1>1 DEF Held, ExecState, Fence
<1>5. QED
  BY <1>2, <1>3, <1>4 DEF Learn, Decide, Held

\* What the invariant says of an executor inside its loop.
LEMMA InsideLoop ==
    ASSUME LoopInd, NEW e \in Executors, loop[e].pc # "off"
    PROVE  LET t == exec[e].fence.task IN
           /\ exec \in [Executors -> ExecState] /\ loop \in [Executors -> LoopState]
           /\ t \in Tasks /\ exec[e] \in ExecState /\ exec[e].fence \in Fence
           /\ exec[e].fence.revision \in Nat /\ exec[e].outcome \in Outcome
           /\ exec[e].phase \in {"handler", "stale"}
           /\ revision[t] \in Nat /\ exec[e].fence.revision <= revision[t]
           /\ loop[e] \in LoopState /\ loop[e].key \in Key /\ loop[e].calls \in 0..MaxCalls
           /\ ledger[t] \in [Key -> Row] /\ effects[t] \in [Key -> Nat]
           /\ CallsFit(ledger[t]) /\ RowsFit(ledger[t], revision[t])
           /\ EffectsFit(ledger[t], effects[t])
           /\ Stands(loop[e], exec[e].outcome, ledger[t], effects[t])
           /\ exec[e].outcome = "succeeded" => Answered(ledger[t])
<1> DEFINE t == exec[e].fence.task
<1>1. PoolInd /\ TypeOK /\ StoreTypeOK /\ exec \in [Executors -> ExecState]
  BY DEF LoopInd, PoolInd, TypeOK
<1>2. /\ t \in Tasks /\ exec[e] \in ExecState /\ exec[e].fence \in Fence
      /\ exec[e].fence.revision \in Nat /\ exec[e].outcome \in Outcome
  BY <1>1, ExecFields
<1>3. LoopFits(exec[e], loop[e], ledger[t], effects[t])
  BY DEF LoopInd, LoopsFit
<1>4. exec[e].phase \in {"handler", "stale"} /\ Stands(loop[e], exec[e].outcome, ledger[t], effects[t])
  BY <1>3 DEF LoopFits
<1>5. revision[t] \in Nat /\ exec[e].fence.revision <= revision[t]
  BY <1>1, <1>2, <1>4 DEF PoolInd, Behind, StoreTypeOK
<1>6. /\ loop \in [Executors -> LoopState]
      /\ loop[e] \in LoopState /\ loop[e].key \in Key /\ loop[e].calls \in 0..MaxCalls
      /\ ledger[t] \in [Key -> Row] /\ effects[t] \in [Key -> Nat]
  BY <1>2 DEF LoopInd, LedgerTypeOK, LoopState
<1>7. /\ CallsFit(ledger[t]) /\ RowsFit(ledger[t], revision[t])
      /\ EffectsFit(ledger[t], effects[t])
  BY <1>2 DEF LoopInd, LedgersFit
<1>8. exec[e].outcome = "succeeded" => Answered(ledger[t])
  BY <1>4 DEF LoopInd, SuccessFits
<1>9. QED
  BY <1>1, <1>2, <1>4, <1>5, <1>6, <1>7, <1>8

\* One executor goes on in its loop, and where it may go.
LEMMA LoopGoes ==
    ASSUME LoopInd, StoreTypeOK', Pinned, UNCHANGED <<claiming, status>>,
           NEW e \in Executors, loop[e].pc # "off",
           NEW rev \in Nat, NEW o \in Outcome, NEW y \in LoopState,
           exec' = [exec EXCEPT ![e] = Held(exec[e], rev, o)],
           loop' = [loop EXCEPT ![e] = y],
           rev <= revision'[exec[e].fence.task],
           ledger' \in [Tasks -> [Key -> Row]], effects' \in [Tasks -> [Key -> Nat]],
           LedgersFit', \A u \in Tasks : Evolves(ledger[u], ledger'[u]),
           \A g \in Executors : g # e /\ loop[g].pc = "invoke" =>
             effects'[exec[g].fence.task][loop[g].key] = effects[exec[g].fence.task][loop[g].key],
           Stands(y, o, ledger'[exec[e].fence.task], effects'[exec[e].fence.task]),
           y.pc = "invoke" => ledger[exec[e].fence.task][y.key].state \notin Begun,
           o = "succeeded" => Answered(ledger'[exec[e].fence.task])
    PROVE  LoopInd'
<1> DEFINE s == exec[e]
           t == s.fence.task
           x == Held(s, rev, o)
<1>1. /\ exec \in [Executors -> ExecState] /\ loop \in [Executors -> LoopState]
      /\ s \in ExecState /\ s.fence \in Fence /\ s.phase \in {"handler", "stale"}
  BY InsideLoop
<1>2. /\ x \in ExecState /\ x.phase = s.phase /\ x.fence.task = t /\ x.outcome = o
      /\ x.fence.epoch = s.fence.epoch /\ x.fence.revision = rev
      /\ x.claimed = s.claimed /\ x.tries = s.tries
  BY <1>1 DEF Held, ExecState, Fence
<1> HIDE DEF x
<1>3. Stays(e, x)
  <2>1. Shape(s)
    BY DEF LoopInd, PoolInd
  <2>2. QED
    BY <1>1, <1>2, <2>1 DEF Stays, Shape
<1>4. exec' = [exec EXCEPT ![e] = x]
  BY DEF x
<1>5. PoolInd'
  BY <1>2, <1>3, <1>4, OneMoves DEF LoopInd
<1>6. /\ exec'[e] = x /\ loop'[e] = y
      /\ \A g \in Executors : g # e => exec'[g] = exec[g] /\ loop'[g] = loop[g]
  BY <1>1, <1>4
<1>7. LedgerTypeOK'
  BY <1>1 DEF LedgerTypeOK
<1>8. LoopFits(exec'[e], loop'[e], ledger'[exec'[e].fence.task], effects'[exec'[e].fence.task])
  BY <1>1, <1>2, <1>6 DEF LoopFits
<1>9. /\ loop'[e].pc = "invoke" => ledger[exec'[e].fence.task][loop'[e].key].state \notin Begun
      /\ exec'[e].phase # "idle" /\ exec'[e].outcome = "succeeded"
           => Answered(ledger'[exec'[e].fence.task])
  BY <1>2, <1>6
<1>10. \A g \in Executors : g # e =>
         /\ exec'[g] = exec[g] /\ loop'[g] = loop[g]
         /\ loop[g].pc = "invoke" => effects'[exec[g].fence.task][loop[g].key]
                                       = effects[exec[g].fence.task][loop[g].key]
  BY <1>6
<1>11. \A u \in Tasks : status'[u] = "succeeded" => status[u] = "succeeded" \/ Answered(ledger'[u])
  OBVIOUS
<1>12. QED
  BY <1>5, <1>7, <1>8, <1>9, <1>10, <1>11, LoopMoves

\* The same for a step that writes nothing.
LEMMA LoopReads ==
    ASSUME LoopInd, StoreTypeOK', Pinned, UNCHANGED <<storeVars, claiming, ledger, effects>>,
           NEW e \in Executors, loop[e].pc # "off",
           NEW rev \in Nat, NEW o \in Outcome, NEW y \in LoopState,
           exec' = [exec EXCEPT ![e] = Held(exec[e], rev, o)],
           loop' = [loop EXCEPT ![e] = y],
           rev <= revision[exec[e].fence.task],
           Stands(y, o, ledger[exec[e].fence.task], effects[exec[e].fence.task]),
           y.pc # "invoke",
           o = "succeeded" => Answered(ledger[exec[e].fence.task])
    PROVE  LoopInd'
<1>1. UNCHANGED <<status, revision, claiming, ledger, effects>>
  BY DEF storeVars
<1>2. ledger \in [Tasks -> [Key -> Row]] /\ effects \in [Tasks -> [Key -> Nat]]
  BY DEF LoopInd, LedgerTypeOK
<1>3. LedgersFit' /\ \A u \in Tasks : Evolves(ledger[u], ledger'[u])
  BY LedgerRests
<1>4. QED
  BY <1>1, <1>2, <1>3, LoopGoes

\* A loop may go to another place at its key.
LEMMA GotoStands ==
    ASSUME NEW y \in LoopState, NEW o, NEW L, NEW E, Stands(y, o, L, E), NEW p,
           NEW pc \in {"get", "prepare", "dispatch", "mark", "return"},
           pc \in {"mark", "return"} => p # "none"
    PROVE  [y EXCEPT !.pc = pc] \in LoopState /\ Stands([y EXCEPT !.pc = pc], p, L, E)
BY DEF LoopState, Pc, Stands

\* Where a loop stands after a completed key.
Advanced(y, calls) ==
    LET next == IF y.key.call < calls THEN [y.key EXCEPT !.call = @ + 1]
                ELSE [round |-> y.key.round + 1, call |-> 0] IN
    IF calls = 0 THEN [y EXCEPT !.pc = "return"]
    ELSE [pc |-> "get", key |-> next, calls |-> calls]

\* It may stand there.
LEMMA AdvanceStands ==
    ASSUME NEW L \in [Key -> Row], CallsFit(L), NEW y \in LoopState, NEW o, NEW E,
           Stands(y, o, L, E), L[y.key].state = "completed",
           NEW c, c = Calls(L, y.key.round), NEW p, c = 0 => p # "none"
    PROVE  /\ Advanced(y, c) \in LoopState /\ Advanced(y, c).pc \in {"get", "return"}
           /\ Stands(Advanced(y, c), p, L, E)
<1>1. y.key \in Key /\ Reached(L, y.key)
  BY DEF LoopState, Stands
<1>2. y.key.round \in 0..MaxRound /\ c \in 0..MaxCalls
  BY <1>1, Keys, RowFields DEF Calls
<1>3. CASE c = 0
  <2>1. Advanced(y, c) = [y EXCEPT !.pc = "return"]
    BY <1>3 DEF Advanced
  <2>2. [y EXCEPT !.pc = "return"] \in LoopState /\ Stands([y EXCEPT !.pc = "return"], p, L, E)
    BY <1>3, GotoStands
  <2>3. QED
    BY <2>1, <2>2 DEF LoopState
<1>4. CASE c # 0
  <2> DEFINE next == IF y.key.call < c THEN [y.key EXCEPT !.call = @ + 1]
                     ELSE [round |-> y.key.round + 1, call |-> 0]
             z == [pc |-> "get", key |-> next, calls |-> c]
  <2>1. Advanced(y, c) = z
    BY <1>4 DEF Advanced
  <2>2. c > 0
    BY <1>2, <1>4
  <2>3. /\ next \in Key /\ Reached(L, next)
        /\ next.call > 0 => next.round = y.key.round
    BY <1>1, <2>2, NextIsReached
  <2> HIDE DEF next
  <2>4. z \in LoopState /\ z.pc = "get" /\ Stands(z, p, L, E)
    BY <1>2, <2>3 DEF LoopState, Pc, Stands
  <2>5. QED
    BY <2>1, <2>4
<1>5. QED
  BY <1>3, <1>4

\* A step that writes the row of its key.
LEMMA LoopWrites ==
    ASSUME LoopInd, StoreTypeOK', Pinned, UNCHANGED <<claiming, effects>>,
           NEW e \in Executors, loop[e].pc # "off", NEW at, NEW from, NEW to, NEW n,
           RowMoves(loop[e].key, from, to, n),
           ledgerMutation(exec[e].fence, loop[e].key, at, from, to, n),
           NEW rev \in Nat, NEW o \in Outcome, NEW y \in LoopState,
           exec' = [exec EXCEPT ![e] = Held(exec[e], rev, o)],
           loop' = [loop EXCEPT ![e] = y],
           rev <= exec[e].fence.revision + 1,
           Stands(y, o, ledger'[exec[e].fence.task], effects[exec[e].fence.task]),
           y.pc = "invoke" => y.key = loop[e].key /\ from \notin Begun,
           o = "succeeded" => Answered(ledger'[exec[e].fence.task])
    PROVE  LoopInd'
<1> DEFINE t == exec[e].fence.task
<1>1. /\ t \in Tasks /\ exec[e].fence \in Fence /\ loop[e].key \in Key
      /\ Reached(ledger[t], loop[e].key)
  BY InsideLoop DEF Stands
<1>2. /\ ledger' \in [Tasks -> [Key -> Row]] /\ LedgersFit'
      /\ \A u \in Tasks : Evolves(ledger[u], ledger'[u])
      /\ revision'[t] = exec[e].fence.revision + 1
      /\ ledger[t][loop[e].key].state = from
      /\ UNCHANGED status
  BY <1>1, LedgerWritten
<1>3. effects' \in [Tasks -> [Key -> Nat]]
  BY DEF LoopInd, LedgerTypeOK
<1>4. QED
  BY <1>2, <1>3, LoopGoes

\* A loop whose key is written stays where it may be, under any outcome that
\* fits its next place.
LEMMA WrittenStands ==
    ASSUME LoopInd, StoreTypeOK', UNCHANGED effects,
           NEW e \in Executors, loop[e].pc \notin {"off", "invoke"}, NEW at, NEW from, NEW to, NEW n,
           RowMoves(loop[e].key, from, to, n),
           ledgerMutation(exec[e].fence, loop[e].key, at, from, to, n)
    PROVE  LET M == ledger'[exec[e].fence.task] IN
           /\ M \in [Key -> Row] /\ CallsFit(M)
           /\ M[loop[e].key].state = to /\ M[loop[e].key].calls = n
           /\ Stands(loop[e], exec[e].outcome, M, effects[exec[e].fence.task])
<1> DEFINE t == exec[e].fence.task
<1>1. /\ t \in Tasks /\ exec[e].fence \in Fence /\ loop[e].key \in Key /\ loop[e] \in LoopState
      /\ ledger[t] \in [Key -> Row] /\ Reached(ledger[t], loop[e].key)
      /\ Stands(loop[e], exec[e].outcome, ledger[t], effects[t])
  BY InsideLoop DEF Stands
<1>2. /\ ledger' \in [Tasks -> [Key -> Row]] /\ LedgersFit'
      /\ \A u \in Tasks : Evolves(ledger[u], ledger'[u])
      /\ ledger'[t][loop[e].key].state = to /\ ledger'[t][loop[e].key].calls = n
  BY <1>1, LedgerWritten
<1>3. ledger'[t] \in [Key -> Row] /\ CallsFit(ledger'[t]) /\ Evolves(ledger[t], ledger'[t])
  BY <1>1, <1>2 DEF LedgersFit
<1>4. Stands(loop[e], exec[e].outcome, ledger'[t], effects[t])
  BY <1>1, <1>3, StandsEvolves
<1>5. QED
  BY <1>2, <1>3, <1>4

-----------------------------------------------------------------------------
(* The actions of the loop *)

\* The row of a model round is read.
LEMMA GetModelStep ==
    ASSUME LoopInd, StoreTypeOK', Pinned, UNCHANGED claiming,
           NEW e \in Executors, GetModelRound(e)
    PROVE  LoopInd'
<1> DEFINE t == exec[e].fence.task
           L == ledger[t]
           E == effects[t]
           y == loop[e]
           k == y.key
           row == L[k]
           rev == row.task_revision + 1
<1>1. y.pc = "get" /\ k.call = 0 /\ UNCHANGED <<storeVars, ledger, effects>>
  BY DEF GetModelRound, At
<1>2. /\ exec \in [Executors -> ExecState] /\ loop \in [Executors -> LoopState]
      /\ y \in LoopState /\ k \in Key /\ L \in [Key -> Row] /\ CallsFit(L)
      /\ RowsFit(L, revision[t]) /\ Stands(y, exec[e].outcome, L, E)
      /\ exec[e].fence.revision \in Nat /\ exec[e].outcome \in Outcome
      /\ revision[t] \in Nat /\ exec[e].fence.revision <= revision[t]
      /\ exec[e].outcome = "succeeded" => Answered(L)
  BY <1>1, InsideLoop
<1>3. row.state # "absent" => rev \in Nat /\ rev <= revision[t]
  <2>1. row.task_revision \in Nat
    BY <1>2, RowFields
  <2>2. row.state # "absent" => row.task_revision < revision[t]
    BY <1>2 DEF RowsFit
  <2>3. QED
    BY <1>2, <2>1, <2>2
<1>4. k.round \in 0..MaxRound /\ k = Round(k.round) /\ row.calls = Calls(L, k.round)
  BY <1>1, <1>2, Keys DEF Calls
<1>5. CASE Goto(e, "prepare") /\ UNCHANGED exec
  <2>1. /\ exec' = [exec EXCEPT ![e] = Held(exec[e], exec[e].fence.revision, exec[e].outcome)]
        /\ loop' = [loop EXCEPT ![e] = [y EXCEPT !.pc = "prepare"]]
    BY <1>2, <1>5, HeldForms DEF Goto
  <2>2. /\ [y EXCEPT !.pc = "prepare"] \in LoopState
        /\ [y EXCEPT !.pc = "prepare"].pc # "invoke"
        /\ Stands([y EXCEPT !.pc = "prepare"], exec[e].outcome, L, E)
    BY <1>2, GotoStands DEF LoopState
  <2>3. QED
    BY <1>1, <1>2, <2>1, <2>2, LoopReads
<1>6. ASSUME row.state = "completed", Advance(e, row.calls), NEW o \in Answers(row.calls),
             exec' = [exec EXCEPT ![e].fence.revision = rev, ![e].outcome = o]
      PROVE  LoopInd'
  <2> DEFINE z == Advanced(y, row.calls)
  <2>1. exec' = [exec EXCEPT ![e] = Held(exec[e], rev, o)]
    BY <1>2, <1>6 DEF Held
  <2>0. loop' = [loop EXCEPT ![e] = z]
    BY <1>6 DEF Advance, Advanced
  <2>2. o \in Outcome /\ (row.calls = 0 => o # "none")
    BY <1>6 DEF Answers, Outcome
  <2>3. z \in LoopState /\ z.pc \in {"get", "return"} /\ Stands(z, o, L, E)
    BY <1>2, <1>4, <1>6, <2>2, AdvanceStands
  <2>4. o = "succeeded" => Answered(L)
    BY <1>4, <1>6 DEF Answers, Answered
  <2> HIDE DEF z
  <2>5. rev \in Nat /\ rev <= revision[t]
    BY <1>3, <1>6
  <2> HIDE DEF row
  <2>6. QED
    BY <1>1, <2>0, <2>1, <2>2, <2>3, <2>4, <2>5, LoopReads
<1>7. ASSUME row.state # "absent", NEW pc \in {"return", "mark"}, Goto(e, pc),
             exec' = [exec EXCEPT ![e].fence.revision = rev, ![e].outcome = "uncertain"]
      PROVE  LoopInd'
  <2> DEFINE z == [y EXCEPT !.pc = pc]
  <2>1. exec' = [exec EXCEPT ![e] = Held(exec[e], rev, "uncertain")]
    BY <1>2, <1>7 DEF Held
  <2>0. loop' = [loop EXCEPT ![e] = z]
    BY <1>7 DEF Goto
  <2>2. z \in LoopState /\ z.pc = pc /\ Stands(z, "uncertain", L, E)
    BY <1>2, GotoStands DEF LoopState
  <2> HIDE DEF z
  <2>3. rev \in Nat /\ rev <= revision[t] /\ "uncertain" \in Outcome
    BY <1>3, <1>7 DEF Outcome
  <2> HIDE DEF row
  <2>4. QED
    BY <1>1, <2>0, <2>1, <2>2, <2>3, LoopReads
<1>8. QED
  BY <1>5, <1>6, <1>7 DEF GetModelRound

\* The row of a tool call is read.
LEMMA GetToolStep ==
    ASSUME LoopInd, StoreTypeOK', Pinned, UNCHANGED claiming,
           NEW e \in Executors, GetToolCall(e)
    PROVE  LoopInd'
<1> DEFINE t == exec[e].fence.task
           L == ledger[t]
           E == effects[t]
           y == loop[e]
           k == y.key
           row == L[k]
           rev == row.task_revision + 1
<1>1. y.pc = "get" /\ k.call > 0 /\ UNCHANGED <<storeVars, ledger, effects>>
  BY DEF GetToolCall, At
<1>2. /\ exec \in [Executors -> ExecState] /\ loop \in [Executors -> LoopState]
      /\ y \in LoopState /\ k \in Key /\ L \in [Key -> Row] /\ CallsFit(L)
      /\ RowsFit(L, revision[t]) /\ Stands(y, exec[e].outcome, L, E)
      /\ exec[e].fence.revision \in Nat /\ exec[e].outcome \in Outcome
      /\ revision[t] \in Nat /\ exec[e].fence.revision <= revision[t]
      /\ exec[e].outcome = "succeeded" => Answered(L)
  BY <1>1, InsideLoop
<1>3. y.calls = Calls(L, k.round) /\ y.calls # 0
  <2>1. y.calls = Calls(L, k.round) /\ k.call <= Calls(L, k.round)
    BY <1>1, <1>2 DEF Stands, Reached
  <2>2. k.call \in 0..MaxCalls
    BY <1>2, Keys
  <2>3. QED
    BY <1>1, <2>1, <2>2
<1>4. CASE Goto(e, "prepare") /\ UNCHANGED exec
  <2>1. /\ exec' = [exec EXCEPT ![e] = Held(exec[e], exec[e].fence.revision, exec[e].outcome)]
        /\ loop' = [loop EXCEPT ![e] = [y EXCEPT !.pc = "prepare"]]
    BY <1>2, <1>4, HeldForms DEF Goto
  <2>2. /\ [y EXCEPT !.pc = "prepare"] \in LoopState
        /\ [y EXCEPT !.pc = "prepare"].pc # "invoke"
        /\ Stands([y EXCEPT !.pc = "prepare"], exec[e].outcome, L, E)
    BY <1>2, GotoStands DEF LoopState
  <2>3. QED
    BY <1>1, <1>2, <2>1, <2>2, LoopReads
<1>5. CASE row.state = "completed" /\ Advance(e, y.calls) /\ Learn(e, rev)
  <2> DEFINE z == Advanced(y, y.calls)
  <2>1. exec' = [exec EXCEPT ![e] = Held(exec[e], rev, exec[e].outcome)]
    BY <1>2, <1>5, HeldForms
  <2>2. loop' = [loop EXCEPT ![e] = z]
    BY <1>5 DEF Advance, Advanced
  <2>3. z \in LoopState /\ z.pc \in {"get", "return"} /\ Stands(z, exec[e].outcome, L, E)
    BY <1>2, <1>3, <1>5, AdvanceStands
  <2>4. rev \in Nat /\ rev <= revision[t]
    <3>1. row.task_revision \in Nat /\ row.task_revision < revision[t]
      BY <1>2, <1>5, RowFields DEF RowsFit
    <3>2. QED
      BY <1>2, <3>1
  <2> HIDE DEF z, row
  <2>5. QED
    BY <1>1, <1>2, <2>1, <2>2, <2>3, <2>4, LoopReads
<1>6. ASSUME NEW pc \in {"return", "mark"}, Goto(e, pc), Decide(e, "uncertain")
      PROVE  LoopInd'
  <2> DEFINE z == [y EXCEPT !.pc = pc]
  <2>1. exec' = [exec EXCEPT ![e] = Held(exec[e], exec[e].fence.revision, "uncertain")]
    BY <1>2, <1>6, HeldForms
  <2>2. loop' = [loop EXCEPT ![e] = z]
    BY <1>6 DEF Goto
  <2>3. z \in LoopState /\ z.pc = pc /\ Stands(z, "uncertain", L, E)
    BY <1>2, GotoStands DEF LoopState
  <2>4. "uncertain" \in Outcome
    BY DEF Outcome
  <2> HIDE DEF z
  <2>5. QED
    BY <1>1, <1>2, <2>1, <2>2, <2>3, <2>4, LoopReads
<1>7. QED
  BY <1>4, <1>5, <1>6 DEF GetToolCall

\* The steps after which the loop has given up: the outcome is decided and
\* nothing is written.
LEMMA GiveUpStep ==
    ASSUME LoopInd, StoreTypeOK', Pinned, UNCHANGED <<storeVars, claiming, ledger, effects>>,
           NEW e \in Executors, loop[e].pc # "off", NEW pc \in {"mark", "return"}, Goto(e, pc),
           NEW o \in Outcome \ {"none", "succeeded"}, Decide(e, o)
    PROVE  LoopInd'
<1> DEFINE y == loop[e]
           z == [y EXCEPT !.pc = pc]
           t == exec[e].fence.task
<1>1. /\ exec \in [Executors -> ExecState] /\ y \in LoopState
      /\ Stands(y, exec[e].outcome, ledger[t], effects[t])
      /\ exec[e].fence.revision \in Nat /\ exec[e].fence.revision <= revision[t]
  BY InsideLoop
<1>2. exec' = [exec EXCEPT ![e] = Held(exec[e], exec[e].fence.revision, o)]
  BY <1>1, HeldForms
<1>3. loop' = [loop EXCEPT ![e] = z]
  BY DEF Goto
<1>4. z \in LoopState /\ z.pc = pc /\ Stands(z, o, ledger[t], effects[t])
  BY <1>1, GotoStands DEF LoopState
<1> HIDE DEF z
<1>5. QED
  BY <1>1, <1>2, <1>3, <1>4, LoopReads

\* Marking failed; the outcome was decided before.
LEMMA MarkFailsStep ==
    ASSUME LoopInd, StoreTypeOK', Pinned, UNCHANGED claiming, NEW e \in Executors, MarkFails(e)
    PROVE  LoopInd'
<1> DEFINE y == loop[e]
           z == [y EXCEPT !.pc = "return"]
           t == exec[e].fence.task
<1>1. y.pc = "mark" /\ loop' = [loop EXCEPT ![e] = z]
      /\ UNCHANGED <<storeVars, exec, ledger, effects>>
  BY DEF MarkFails, At, Goto
<1>2. /\ exec \in [Executors -> ExecState] /\ y \in LoopState
      /\ Stands(y, exec[e].outcome, ledger[t], effects[t])
      /\ exec[e].fence.revision \in Nat /\ exec[e].fence.revision <= revision[t]
      /\ exec[e].outcome \in Outcome
      /\ exec[e].outcome = "succeeded" => Answered(ledger[t])
  BY <1>1, InsideLoop
<1>3. exec[e].outcome # "none"
  BY <1>1, <1>2 DEF Stands
<1>4. exec' = [exec EXCEPT ![e] = Held(exec[e], exec[e].fence.revision, exec[e].outcome)]
  BY <1>1, <1>2, HeldForms
<1>5. z \in LoopState /\ z.pc = "return" /\ Stands(z, exec[e].outcome, ledger[t], effects[t])
  BY <1>2, <1>3, GotoStands DEF LoopState
<1> HIDE DEF z
<1>6. QED
  BY <1>1, <1>2, <1>4, <1>5, LoopReads

\* A row is prepared, dispatched or marked.
LEMMA WriteStep ==
    ASSUME LoopInd, StoreTypeOK', Pinned, UNCHANGED claiming, NEW e \in Executors, NEW at,
           Prepare(e, at) \/ Dispatch(e, at) \/ Mark(e, at)
    PROVE  LoopInd'
<1> DEFINE t == exec[e].fence.task
           f == exec[e].fence
           E == effects[t]
           y == loop[e]
           k == y.key
           M == ledger'[t]
           to(pc) == [y EXCEPT !.pc = pc]
<1>1. y.pc \in {"prepare", "dispatch", "mark"} /\ UNCHANGED effects
  BY DEF Prepare, Dispatch, Mark, At
<1>2. /\ exec \in [Executors -> ExecState] /\ y \in LoopState /\ k \in Key /\ t \in Tasks
      /\ f.revision \in Nat /\ exec[e].outcome \in Outcome /\ f \in Fence
      /\ effects[t] \in [Key -> Nat] /\ EffectsFit(ledger[t], E)
      /\ exec[e].outcome = "succeeded" => Answered(ledger[t])
  BY <1>1, InsideLoop
<1>3. PICK from, next :
        /\ ledgerMutation(f, k, at, from, next, 0)
        /\ RowMoves(k, from, next, 0)
        /\ y.pc = "dispatch" => from = "prepared" /\ next = "dispatched"
  <2>1. 0 \in 0..MaxCalls
    BY LoopAssumption
  <2>2. CASE Prepare(e, at)
    <3>1. ledgerMutation(f, k, at, "absent", "prepared", 0) /\ y.pc = "prepare"
      BY <2>2 DEF Prepare, PrepareModelRound, PrepareToolCall, At
    <3>2. QED
      BY <2>1, <3>1 DEF RowMoves
  <2>3. CASE Dispatch(e, at)
    <3>1. ledgerMutation(f, k, at, "prepared", "dispatched", 0)
      BY <2>3 DEF Dispatch, MarkModelDispatched, MarkToolDispatched
    <3>2. QED
      BY <2>1, <3>1 DEF RowMoves
  <2>4. CASE Mark(e, at)
    <3>1. ledgerMutation(f, k, at, "dispatched", "uncertain", 0) /\ y.pc = "mark"
      BY <2>4 DEF Mark, MarkModelUncertain, MarkToolUncertain, At
    <3>2. QED
      BY <2>1, <3>1 DEF RowMoves
  <2>5. QED
    BY <2>2, <2>3, <2>4
<1>4. /\ M \in [Key -> Row] /\ M[k].state = next
      /\ Stands(y, exec[e].outcome, M, E)
  BY <1>1, <1>3, WrittenStands
<1>5. \A u \in Tasks : Evolves(ledger[u], ledger'[u])
  BY <1>1, <1>2, <1>3, LedgerWritten, InsideLoop DEF Stands
<1>6. exec[e].outcome = "succeeded" => Answered(M)
  BY <1>2, <1>5, AnsweredEvolves
<1>7. ASSUME NEW pc \in {"dispatch", "mark", "return"}, Goto(e, pc),
             NEW rev \in Nat, rev <= f.revision + 1, NEW o \in Outcome,
             pc \in {"mark", "return"} => o # "none", o = "succeeded" => Answered(M),
             exec' = [exec EXCEPT ![e] = Held(exec[e], rev, o)]
      PROVE  LoopInd'
  <2>1. loop' = [loop EXCEPT ![e] = to(pc)]
    BY <1>7 DEF Goto
  <2>2. to(pc) \in LoopState /\ to(pc).pc = pc /\ Stands(to(pc), o, M, E)
    BY <1>2, <1>4, <1>7, GotoStands DEF LoopState
  <2> HIDE DEF to
  <2>3. QED
    BY <1>1, <1>3, <1>7, <2>1, <2>2, LoopWrites
<1>8. /\ f.revision + 1 \in Nat /\ f.revision <= f.revision + 1 /\ "task_error" \in Outcome
  BY <1>2 DEF Outcome
<1>9. CASE Goto(e, "return") /\ Decide(e, "task_error")
  BY <1>2, <1>7, <1>8, <1>9, HeldForms
<1>10. CASE Prepare(e, at) /\ Goto(e, "dispatch") /\ Learn(e, f.revision + 1)
  <2>1. PICK rev \in Nat : rev = f.revision + 1
    BY <1>8
  <2>2. exec' = [exec EXCEPT ![e] = Held(exec[e], rev, exec[e].outcome)]
    BY <1>2, <1>10, <2>1, HeldForms
  <2>3. rev <= f.revision + 1
    BY <1>8, <2>1
  <2>4. QED
    BY <1>2, <1>6, <1>7, <1>10, <2>2, <2>3
<1>11. CASE Dispatch(e, at) /\ Goto(e, "invoke") /\ Learn(e, f.revision + 1)
  <2> DEFINE z == to("invoke")
  <2>0. PICK rev \in Nat : rev = f.revision + 1
    BY <1>8
  <2>1. exec' = [exec EXCEPT ![e] = Held(exec[e], rev, exec[e].outcome)] /\ rev <= f.revision + 1
    BY <1>2, <1>8, <1>11, <2>0, HeldForms
  <2>2. loop' = [loop EXCEPT ![e] = z]
    BY <1>11 DEF Goto
  <2>3. y.pc = "dispatch" /\ from = "prepared" /\ next = "dispatched"
    BY <1>3, <1>11 DEF Dispatch, At
  <2>4. ledger[t][k].state = "prepared"
    BY <1>3, <2>3 DEF ledgerMutation
  <2>5. E[k] = 0
    BY <1>2, <2>4 DEF EffectsFit, Begun
  <2>6. z \in LoopState /\ z.pc = "invoke" /\ z.key = k /\ z.calls = y.calls
    BY <1>2 DEF LoopState, Pc
  <2>7. Stands(z, exec[e].outcome, M, E)
    BY <1>4, <2>3, <2>5, <2>6 DEF Stands, Begun
  <2>8. from \notin Begun
    BY <2>3 DEF Begun
  <2> HIDE DEF z
  <2>9. QED
    BY <1>1, <1>2, <1>3, <1>6, <2>1, <2>2, <2>6, <2>7, <2>8, LoopWrites
<1>12. CASE Mark(e, at)
  <2>1. y.pc = "mark" /\ Goto(e, "return") /\ (Learn(e, f.revision + 1) \/ UNCHANGED exec)
    BY <1>12 DEF Mark, At
  <2>2. exec[e].outcome # "none"
    BY <1>4, <2>1 DEF Stands
  <2>3. \/ exec' = [exec EXCEPT ![e] = Held(exec[e], f.revision + 1, exec[e].outcome)]
        \/ exec' = [exec EXCEPT ![e] = Held(exec[e], f.revision, exec[e].outcome)]
    BY <1>2, <2>1, HeldForms
  <2>4. QED
    BY <1>2, <1>6, <1>7, <1>8, <2>1, <2>2, <2>3
<1>13. QED
  BY <1>9, <1>10, <1>11, <1>12 DEF Prepare, Dispatch, ContinueOrFail

\* A result is stored.
LEMMA CompleteStep ==
    ASSUME LoopInd, StoreTypeOK', Pinned, UNCHANGED claiming, NEW e \in Executors, NEW at,
           Complete(e, at)
    PROVE  LoopInd'
<1> DEFINE t == exec[e].fence.task
           f == exec[e].fence
           E == effects[t]
           y == loop[e]
           k == y.key
           M == ledger'[t]
<1>1. y.pc = "complete" /\ UNCHANGED effects
  BY DEF Complete, At
<1>2. /\ exec \in [Executors -> ExecState] /\ y \in LoopState /\ k \in Key /\ t \in Tasks
      /\ y.calls \in 0..MaxCalls /\ f.revision \in Nat /\ f \in Fence
      /\ Stands(y, exec[e].outcome, ledger[t], E)
      /\ k.call \in 0..MaxCalls /\ k.round \in 0..MaxRound /\ (k.call = 0 => k = Round(k.round))
  BY <1>1, InsideLoop, Keys
<1>3. PICK from, next, n : /\ ledgerMutation(f, k, at, from, next, n)
                           /\ RowMoves(k, from, next, n) /\ next = "completed"
                           /\ k.call = 0 => n = y.calls
  <2>1. 0 \in 0..MaxCalls /\ MaxRound \in Nat
    BY LoopAssumption
  <2>2. CASE CompleteModelRound(f, k, at, y.calls)
    <3>1. y.calls > 0 => k.round < MaxRound
      BY <1>1, <1>2, <2>1 DEF Stands
    <3>2. QED
      BY <1>2, <2>2, <3>1 DEF CompleteModelRound, RowMoves
  <2>3. CASE CompleteToolCall(f, k, at)
    BY <2>1, <2>3 DEF CompleteToolCall, RowMoves
  <2>4. QED
    BY <2>2, <2>3 DEF Complete
<1>4. /\ M \in [Key -> Row] /\ CallsFit(M) /\ M[k].state = "completed" /\ M[k].calls = n
      /\ Stands(y, exec[e].outcome, M, E)
  <2>1. y.pc \notin {"off", "invoke"}
    BY <1>1
  <2>2. M[k].state = next /\ M[k].calls = n /\ ledger' \in [Tasks -> [Key -> Row]]
    <3>1. Reached(ledger[t], k)
      BY <1>2 DEF Stands
    <3>2. QED
      BY <1>1, <1>2, <1>3, <3>1, LedgerWritten
  <2>3. CallsFit(M) /\ Stands(y, exec[e].outcome, M, E)
    BY <1>1, <1>3, <2>1, WrittenStands
  <2>4. QED
    BY <1>2, <1>3, <2>2, <2>3
<1>5. y.calls = Calls(M, k.round) /\ (k.call > 0 => y.calls # 0)
  <2>1. k.call <= Calls(M, k.round) /\ (k.call > 0 => y.calls = Calls(M, k.round))
    BY <1>4 DEF Stands, Reached
  <2>2. k.call = 0 => y.calls = Calls(M, k.round)
    BY <1>2, <1>3, <1>4 DEF Calls
  <2>3. QED
    BY <1>2, <2>1, <2>2
<1>6. ASSUME Advance(e, y.calls), NEW o \in Answers(y.calls),
             exec' = [exec EXCEPT ![e].fence.revision = @ + 1, ![e].outcome = o]
      PROVE  LoopInd'
  <2> DEFINE z == Advanced(y, y.calls)
  <2>1. PICK rev \in Nat : rev = f.revision + 1
    BY <1>2
  <2>2. exec' = [exec EXCEPT ![e] = Held(exec[e], rev, o)] /\ rev <= f.revision + 1
    <3>1. Held(exec[e], rev, o) = [exec[e] EXCEPT !.fence.revision = @ + 1, !.outcome = o]
      BY <1>2, <2>1 DEF Held, ExecState
    <3>2. exec' = [exec EXCEPT ![e] = [exec[e] EXCEPT !.fence.revision = @ + 1, !.outcome = o]]
      BY <1>2, <1>6
    <3>3. rev <= f.revision + 1
      BY <1>2, <2>1
    <3>4. QED
      BY <3>1, <3>2, <3>3, Zenon
  <2>3. loop' = [loop EXCEPT ![e] = z]
    BY <1>6 DEF Advance, Advanced
  <2>4. o \in Outcome /\ (y.calls = 0 => o # "none")
    BY <1>6 DEF Answers, Outcome
  <2>5. z \in LoopState /\ z.pc \in {"get", "return"} /\ Stands(z, o, M, E)
    BY <1>2, <1>4, <1>5, <2>4, AdvanceStands
  <2>6. o = "succeeded" => Answered(M)
    <3>1. SUFFICES ASSUME o = "succeeded" PROVE Answered(M)
      OBVIOUS
    <3>2. y.calls = 0 /\ k.call = 0
      BY <1>2, <1>5, <1>6, <3>1 DEF Answers
    <3>3. QED
      BY <1>2, <1>3, <1>4, <3>2 DEF Answered
  <2> HIDE DEF z
  <2>7. QED
    BY <1>1, <1>3, <2>2, <2>3, <2>4, <2>5, <2>6, LoopWrites
<1>7. CASE Goto(e, "mark") /\ Decide(e, "uncertain")
  <2> DEFINE z == [y EXCEPT !.pc = "mark"]
  <2>1. exec' = [exec EXCEPT ![e] = Held(exec[e], f.revision, "uncertain")]
    BY <1>2, <1>7, HeldForms
  <2>2. loop' = [loop EXCEPT ![e] = z]
    BY <1>7 DEF Goto
  <2>3. z \in LoopState /\ z.pc = "mark" /\ Stands(z, "uncertain", M, E)
    BY <1>2, <1>4, GotoStands DEF LoopState
  <2>4. "uncertain" \in Outcome /\ f.revision <= f.revision + 1
    BY <1>2 DEF Outcome
  <2> HIDE DEF z
  <2>5. QED
    BY <1>1, <1>2, <1>3, <2>1, <2>2, <2>3, <2>4, LoopWrites
<1>8. QED
  BY <1>6, <1>7 DEF Complete

\* A side effect is started; whatever comes of it, it was started once.
LEMMA EffectStep ==
    ASSUME LoopInd, StoreTypeOK', Pinned, UNCHANGED <<storeVars, claiming, ledger>>,
           NEW e \in Executors, loop[e].pc = "invoke",
           effects' = [effects EXCEPT ![exec[e].fence.task][loop[e].key] = @ + 1],
           NEW o \in Outcome, o = "succeeded" => Answered(ledger[exec[e].fence.task]),
           exec' = [exec EXCEPT ![e] = Held(exec[e], exec[e].fence.revision, o)],
           NEW y \in LoopState, loop' = [loop EXCEPT ![e] = y], y.key = loop[e].key,
           y.pc = "complete" \/ (y.pc = "mark" /\ o # "none"),
           y.key.call > 0 => y.calls = loop[e].calls,
           y.pc = "complete" /\ y.key.round = MaxRound => y.calls = 0
    PROVE  LoopInd'
<1> DEFINE t == exec[e].fence.task
           L == ledger[t]
           E == effects[t]
           k == loop[e].key
<1>1. /\ t \in Tasks /\ k \in Key /\ E \in [Key -> Nat] /\ EffectsFit(L, E)
      /\ Stands(loop[e], exec[e].outcome, L, E)
      /\ exec[e].fence.revision \in Nat /\ exec[e].fence.revision <= revision[t]
  BY InsideLoop
<1>2. E[k] = 0 /\ L[k].state \in Begun
  BY <1>1 DEF Stands
<1>3. effects \in [Tasks -> [Key -> Nat]] /\ ledger \in [Tasks -> [Key -> Row]]
  BY DEF LoopInd, LedgerTypeOK
<1>4. /\ effects' = [effects EXCEPT ![t] = [E EXCEPT ![k] = 1]]
      /\ effects' \in [Tasks -> [Key -> Nat]]
  BY <1>1, <1>2, <1>3
<1>5. /\ effects'[t][k] = 1
      /\ \A u \in Tasks, j \in Key : u # t \/ j # k => effects'[u][j] = effects[u][j]
  <2>1. effects'[t] = [E EXCEPT ![k] = 1] /\ \A u \in Tasks : u # t => effects'[u] = effects[u]
    BY <1>1, <1>3, <1>4
  <2>2. effects'[t][k] = 1 /\ \A j \in Key : j # k => effects'[t][j] = E[j]
    BY <1>1, <2>1
  <2>3. QED
    BY <2>1, <2>2
<1>6. UNCHANGED <<status, revision, ledger>>
  BY DEF storeVars
<1>7. LedgersFit'
  <2>1. ASSUME NEW u \in Tasks
        PROVE  /\ CallsFit(ledger[u]) /\ RowsFit(ledger[u], revision[u])
               /\ EffectsFit(ledger[u], effects'[u])
    <3>1. /\ CallsFit(ledger[u]) /\ RowsFit(ledger[u], revision[u])
          /\ EffectsFit(ledger[u], effects[u])
      BY DEF LoopInd, LedgersFit
    <3>2. ASSUME NEW j \in Key
          PROVE  effects'[u][j] <= 1 /\ (effects'[u][j] = 1 => ledger[u][j].state \in Begun)
      BY <1>2, <1>5, <3>1 DEF EffectsFit
    <3>3. QED
      BY <3>1, <3>2 DEF EffectsFit
  <2>2. QED
    BY <1>6, <2>1 DEF LedgersFit
<1>8. \A u \in Tasks : Evolves(ledger[u], ledger'[u])
  BY RestEvolves
<1>9. ASSUME NEW g \in Executors, g # e, loop[g].pc = "invoke"
      PROVE  effects'[exec[g].fence.task][loop[g].key] = effects[exec[g].fence.task][loop[g].key]
  <2>1. exec[g].fence.task \in Tasks /\ loop[g].key \in Key
    BY <1>9, InsideLoop
  <2>2. exec[g].fence.task # t \/ loop[g].key # k
    BY <1>9 DEF LoopInd, OneInvokes
  <2>3. QED
    BY <1>5, <2>1, <2>2
<1>10. Stands(y, o, ledger'[t], effects'[t])
  BY <1>1, <1>6 DEF Stands
<1>11. QED
  BY <1>1, <1>3, <1>4, <1>6, <1>7, <1>8, <1>9, <1>10, LoopGoes

\* The model or a tool is called.
LEMMA InvokeStep ==
    ASSUME LoopInd, StoreTypeOK', Pinned, UNCHANGED claiming, NEW e \in Executors,
           InvokeFails(e) \/ \E calls \in 0..MaxCalls : Invoke(e, calls)
    PROVE  LoopInd'
<1> DEFINE y == loop[e]
<1>1. y.pc = "invoke"
  BY DEF InvokeFails, Invoke, At
<1>2. /\ exec \in [Executors -> ExecState] /\ y \in LoopState /\ exec[e].outcome \in Outcome
      /\ exec[e].outcome = "succeeded" => Answered(ledger[exec[e].fence.task])
  BY <1>1, InsideLoop
<1>3. CASE InvokeFails(e)
  <2> DEFINE z == [y EXCEPT !.pc = "mark"]
  <2>1. exec' = [exec EXCEPT ![e] = Held(exec[e], exec[e].fence.revision, "uncertain")]
    BY <1>2, <1>3, HeldForms DEF InvokeFails
  <2>2. /\ loop' = [loop EXCEPT ![e] = z] /\ UNCHANGED <<storeVars, ledger>>
        /\ effects' = [effects EXCEPT ![exec[e].fence.task][y.key] = @ + 1]
    BY <1>3 DEF InvokeFails, Goto
  <2>3. z \in LoopState /\ z.pc = "mark" /\ z.key = y.key /\ z.calls = y.calls
    BY <1>2 DEF LoopState, Pc
  <2>4. "uncertain" \in Outcome
    BY DEF Outcome
  <2> HIDE DEF z
  <2>5. QED
    BY <1>1, <2>1, <2>2, <2>3, <2>4, EffectStep
<1>4. ASSUME NEW calls \in 0..MaxCalls, Invoke(e, calls) PROVE LoopInd'
  <2> DEFINE z == [y EXCEPT !.pc = "complete", !.calls = calls]
  <2>1. exec' = [exec EXCEPT ![e] = Held(exec[e], exec[e].fence.revision, exec[e].outcome)]
    BY <1>2, <1>4, HeldForms DEF Invoke
  <2>2. /\ loop' = [loop EXCEPT ![e] = z] /\ UNCHANGED <<storeVars, ledger>>
        /\ effects' = [effects EXCEPT ![exec[e].fence.task][y.key] = @ + 1]
        /\ y.key.call > 0 => calls = y.calls
        /\ y.key.round = MaxRound => calls = 0
    BY <1>4 DEF Invoke
  <2>3. z \in LoopState /\ z.pc = "complete" /\ z.key = y.key /\ z.calls = calls
    BY <1>2 DEF LoopState, Pc
  <2> HIDE DEF z
  <2>4. QED
    BY <1>1, <1>2, <2>1, <2>2, <2>3, EffectStep
<1>5. QED
  BY <1>3, <1>4

-----------------------------------------------------------------------------
(* Steps around the loop *)

\* A step of one executor's pool goroutine, with the ledger at rest.
LEMMA LoopRests ==
    ASSUME LoopInd, PoolInd', StoreTypeOK', Pinned, UNCHANGED <<ledger, effects>>,
           NEW e \in Executors, \A g \in Executors : g # e => exec'[g] = exec[g],
           exec'[e].phase # "idle" =>
             /\ exec[e].phase # "idle" /\ exec'[e].fence.task = exec[e].fence.task
             /\ exec'[e].outcome = exec[e].outcome,
           \/ loop' = [loop EXCEPT ![e] = NoLoop]
           \/ loop' = loop /\ (loop[e].pc # "off" => exec'[e].phase \in {"handler", "stale"}),
           \A u \in Tasks : status'[u] = "succeeded" => status[u] = "succeeded" \/ Answered(ledger[u])
    PROVE  LoopInd'
<1>1. LedgersFit' /\ \A u \in Tasks : Evolves(ledger[u], ledger'[u])
  BY LedgerRests
<1>2. LedgerTypeOK /\ FirstKey \in Key
  BY LoopAssumption DEF LoopInd, FirstKey, Key
<1>3. NoLoop \in LoopState /\ NoLoop.pc = "off"
  BY <1>2, LoopAssumption DEF NoLoop, LoopState, Pc
<1>4. LedgerTypeOK'
  BY <1>2, <1>3 DEF LedgerTypeOK
<1>5. /\ \A g \in Executors : g # e => loop'[g] = loop[g]
      /\ loop'[e].pc # "off" => loop'[e] = loop[e] /\ exec'[e].phase \in {"handler", "stale"}
  BY <1>2, <1>3 DEF LedgerTypeOK
<1>6. LoopFits(exec'[e], loop'[e], ledger'[exec'[e].fence.task], effects'[exec'[e].fence.task])
  <2>1. SUFFICES ASSUME loop'[e].pc # "off"
                 PROVE  /\ exec'[e].phase \in {"handler", "stale"}
                        /\ Stands(loop'[e], exec'[e].outcome, ledger[exec'[e].fence.task],
                                  effects[exec'[e].fence.task])
    BY DEF LoopFits
  <2>2. /\ loop'[e] = loop[e] /\ exec'[e].phase # "idle"
        /\ Stands(loop[e], exec[e].outcome, ledger[exec[e].fence.task], effects[exec[e].fence.task])
    BY <1>5, <2>1, InsideLoop
  <2>3. QED
    BY <1>5, <2>1, <2>2
<1>7. exec'[e].phase # "idle" /\ exec'[e].outcome = "succeeded"
        => Answered(ledger'[exec'[e].fence.task])
  BY DEF LoopInd, SuccessFits
<1>8. loop'[e].pc = "invoke" => loop'[e] = loop[e] /\ exec'[e].fence.task = exec[e].fence.task
  BY <1>5
<1>9. QED
  BY <1>1, <1>4, <1>5, <1>6, <1>7, <1>8, LoopMoves

\* A step outside all executors.
LEMMA LoopsRest ==
    ASSUME LoopInd, PoolInd', StoreTypeOK', Pinned, UNCHANGED <<exec, loop, ledger, effects>>,
           \A u \in Tasks : status'[u] = "succeeded" => status[u] = "succeeded"
    PROVE  LoopInd'
<1>1. LedgersFit'
  BY LedgerRests
<1>2. LedgerTypeOK' /\ LoopsFit' /\ OneInvokes' /\ SuccessFits'
  BY DEF LoopInd, LedgerTypeOK, LoopsFit, LoopFits, OneInvokes, SuccessFits
<1>3. QED
  BY <1>1, <1>2 DEF LoopInd

\* No client and no claim completes a task.
LEMMA OnlyExecutorsComplete ==
    ASSUME StoreTypeOK, NEW u \in Tasks, status'[u] = "succeeded",
           \/ ClientNext \/ Tick \/ UNCHANGED storeVars
           \/ \E t \in Tasks, at \in Clock, locked \in SUBSET Tasks :
                ClaimLease(t, at, locked) \/ ClaimOverdue(t, at, locked)
    PROVE  status[u] = "succeeded"
<1>1. status \in [Tasks -> Status]
  BY DEF StoreTypeOK
<1>2. ASSUME NEW t \in Tasks, NEW s \in {"queued", "waiting_user"}, NEW d,
             CreateTask(t, s, now + d)
      PROVE  status[u] = "succeeded"
  BY <1>1, <1>2 DEF CreateTask
<1>3. ASSUME NEW t \in Tasks, NEW n \in Tasks, NEW at, RetryTask(t, n, at)
      PROVE  status[u] = "succeeded"
  BY <1>1, <1>3 DEF RetryTask
<1>4. ASSUME NEW t \in Tasks, DeleteTask(t) PROVE status[u] = "succeeded"
  BY <1>4 DEF DeleteTask
<1>5. ASSUME NEW t \in Tasks, ResumeTask(t) PROVE status[u] = "succeeded"
  BY <1>1, <1>5 DEF ResumeTask
<1>6. ASSUME NEW t \in Tasks, CancelTask(t) PROVE status[u] = "succeeded"
  BY <1>1, <1>6 DEF CancelTask
<1>7. CASE Tick \/ UNCHANGED storeVars
  BY <1>7 DEF Tick, storeVars
<1>8. ASSUME NEW t \in Tasks, NEW at, NEW locked,
             ClaimLease(t, at, locked) \/ ClaimOverdue(t, at, locked)
      PROVE  status[u] = "succeeded"
  BY <1>1, <1>8 DEF ClaimLease, ClaimOverdue
<1>9. QED
  BY <1>2, <1>3, <1>4, <1>5, <1>6, <1>7, <1>8 DEF ClientNext

\* A task is claimed and its loop starts at the first key.
LEMMA StartStep ==
    ASSUME LoopInd, StoreTypeOK', Pinned, NEW e \in Executors, NEW t \in Tasks, StartLoop(e, t)
    PROVE  LoopInd'
<1> DEFINE y == [NoLoop EXCEPT !.pc = "get"]
<1>1. /\ ClaimRead(e, t) /\ UNCHANGED <<ledger, effects, storeVars>>
      /\ loop' = [loop EXCEPT ![e] = y]
  BY DEF StartLoop, ClaimRead
<1>2. PoolInd'
  BY <1>1, ClaimReadMoves DEF LoopInd
<1>3. LedgersFit' /\ \A u \in Tasks : Evolves(ledger[u], ledger'[u])
  BY <1>1, LedgerRests
<1>4. /\ exec \in [Executors -> ExecState] /\ LedgerTypeOK
  BY DEF LoopInd, PoolInd, TypeOK
<1>5. /\ exec'[e].phase = "handler" /\ exec'[e].fence.task = t /\ exec'[e].outcome = "none"
      /\ \A g \in Executors : g # e => exec'[g] = exec[g]
  BY <1>1, <1>4 DEF ClaimRead
<1>6. ledger[t] \in [Key -> Row]
  BY <1>4 DEF LedgerTypeOK
<1>7. /\ y \in LoopState /\ y.pc = "get" /\ y.key = FirstKey /\ FirstKey.call = 0
      /\ Reached(ledger[t], FirstKey)
  BY <1>6, FirstIsReached, LoopAssumption DEF NoLoop, LoopState, Pc, FirstKey
<1> HIDE DEF y
<1>8. loop'[e] = y /\ \A g \in Executors : g # e => loop'[g] = loop[g]
  BY <1>1, <1>4 DEF LedgerTypeOK
<1>9. LedgerTypeOK'
  BY <1>1, <1>4, <1>7 DEF LedgerTypeOK
<1>10. LoopFits(exec'[e], loop'[e], ledger'[exec'[e].fence.task], effects'[exec'[e].fence.task])
  BY <1>1, <1>5, <1>7, <1>8 DEF LoopFits, Stands
<1>11. UNCHANGED status
  BY <1>1 DEF storeVars
<1>12. QED
  BY <1>1, <1>2, <1>3, <1>5, <1>7, <1>8, <1>9, <1>10, <1>11, LoopMoves

\* The handler returns.
LEMMA ReturnStep ==
    ASSUME LoopInd, StoreTypeOK', Pinned, UNCHANGED claiming, NEW e \in Executors,
           Return(e) \/ LoopCanceled(e)
    PROVE  LoopInd'
<1>1. /\ UNCHANGED <<storeVars, ledger, effects>> /\ loop' = [loop EXCEPT ![e] = NoLoop]
      /\ loop[e].pc # "off"
  BY DEF Return, LoopCanceled, HandlerReturns, HandlerCanceled, At
<1>2. /\ exec \in [Executors -> ExecState] /\ exec[e].phase \in {"handler", "stale"}
      /\ exec[e] \in ExecState /\ exec[e].fence \in Fence /\ exec[e].outcome \in Outcome
      /\ loop[e].pc = "return" => exec[e].outcome # "none"
  BY <1>1, InsideLoop DEF Stands
<1>3. \/ HandlerReturns(e, exec[e].outcome) /\ exec[e].outcome # "none"
      \/ HandlerCanceled(e)
  BY <1>1, <1>2 DEF Return, LoopCanceled, HandlerCanceled, At
<1>4. ExecNext(e)
  BY <1>2, <1>3 DEF ExecNext
<1>5. PoolInd'
  BY <1>4, ExecStep DEF LoopInd
<1>6. /\ \A g \in Executors : g # e => exec'[g] = exec[g]
      /\ exec'[e].phase # "idle" => /\ exec'[e].fence.task = exec[e].fence.task
                                    /\ exec'[e].outcome = exec[e].outcome
  BY <1>2, <1>3 DEF HandlerReturns, HandlerCanceled, Stop, IdleExec, ExecState, Fence
<1>7. UNCHANGED status
  BY <1>1 DEF storeVars
<1>8. QED
  BY <1>1, <1>2, <1>5, <1>6, <1>7, LoopRests

\* A renewal or a step of the terminal write.
LEMMA AroundStep ==
    ASSUME LoopInd, StoreTypeOK', Pinned, NEW e \in Executors, PoolStep(e),
           UNCHANGED <<claiming, ledger, effects, loop>>
    PROVE  LoopInd'
<1>1. ExecNext(e)
  BY DEF PoolStep, ExecNext
<1>2. PoolInd'
  BY <1>1, ExecStep DEF LoopInd
<1>3. StoreTypeOK /\ exec \in [Executors -> ExecState] /\ exec[e] \in ExecState
      /\ exec[e].fence \in Fence /\ exec[e].fence.task \in Tasks
  BY ExecFields DEF LoopInd, PoolInd, TypeOK
<1>4. loop[e].pc # "off" => exec[e].phase \in {"handler", "stale"}
  BY InsideLoop
<1>5. ASSUME NEW at \in Clock, TerminalWrite(e, at) \/ TerminalWriteLost(e, at),
             NEW u \in Tasks, status'[u] = "succeeded"
      PROVE  status[u] = "succeeded" \/ Answered(ledger[u])
  <2>1. /\ exec[e].phase = "persist"
        /\ status' = [status EXCEPT ![exec[e].fence.task] = OutcomeStatus(exec[e].outcome)]
    BY <1>5 DEF TerminalWrite, TerminalWriteLost, coreTerminal
  <2>2. CASE u = exec[e].fence.task
    <3>1. OutcomeStatus(exec[e].outcome) = "succeeded"
      BY <1>3, <1>5, <2>1, <2>2 DEF StoreTypeOK
    <3>2. exec[e].outcome = "succeeded"
      BY <3>1 DEF OutcomeStatus
    <3>3. QED
      BY <2>1, <2>2, <3>2 DEF LoopInd, SuccessFits
  <2>3. CASE u # exec[e].fence.task
    BY <1>3, <1>5, <2>1, <2>3 DEF StoreTypeOK
  <2>4. QED
    BY <2>2, <2>3
<1>6. \A u \in Tasks : status'[u] = "succeeded" => status[u] = "succeeded" \/ Answered(ledger[u])
  <2>1. CASE UNCHANGED status
    BY <2>1
  <2>2. QED
    BY <1>5, <2>1 DEF PoolStep, Renew, RenewLease, RenewFails, TerminalWriteFails, Reread, GiveUp,
                      storeVars
<1>7. /\ \A g \in Executors : g # e => exec'[g] = exec[g]
      /\ exec'[e].phase # "idle" =>
           /\ exec[e].phase # "idle" /\ exec'[e].fence.task = exec[e].fence.task
           /\ exec'[e].outcome = exec[e].outcome
      /\ exec[e].phase \in {"handler", "stale"} => exec'[e].phase \in {"handler", "stale"}
  BY <1>3 DEF PoolStep, Renew, RenewFails, TerminalWrite, TerminalWriteLost, TerminalWriteFails,
              Reread, GiveUp, Stop, IdleExec, ExecState, Fence
<1>8. QED
  BY <1>2, <1>4, <1>6, <1>7, LoopRests

\* The process dies: every loop ends, the ledger stays.
LEMMA RestartStep ==
    ASSUME LoopInd, StoreTypeOK', Pinned, Restart
    PROVE  LoopInd'
<1>1. /\ exec' = [e \in Executors |-> IdleExec] /\ claiming' = {}
      /\ loop' = [e \in Executors |-> NoLoop] /\ UNCHANGED <<storeVars, ledger, effects>>
  BY DEF Restart, Crash, ClaimPanics
<1>2. PoolInd'
  BY <1>1, AllStop DEF LoopInd
<1>3. LedgersFit'
  BY <1>1, LedgerRests
<1>4. NoLoop \in LoopState /\ NoLoop.pc = "off"
  BY LoopAssumption DEF NoLoop, LoopState, Pc, FirstKey, Key
<1>5. LedgerTypeOK'
  BY <1>1, <1>4 DEF LoopInd, LedgerTypeOK
<1>6. \A e \in Executors : loop'[e].pc = "off" /\ exec'[e].phase = "idle"
  BY <1>1, <1>4 DEF IdleExec
<1>7. LoopsFit' /\ OneInvokes'
  BY <1>6 DEF LoopsFit, LoopFits, OneInvokes
<1>8. SuccessFits'
  BY <1>1, <1>6 DEF LoopInd, SuccessFits, storeVars
<1>9. QED
  BY <1>2, <1>3, <1>5, <1>7, <1>8 DEF LoopInd

\* Every step of the loop is one operation of the queue or none.
LEMMA LoopUsesStore ==
    ASSUME LoopInd, [LoopNext]_loopVars
    PROVE  [StoreNext]_storeVars
<1>0. StoreTypeOK /\ PoolInd
  BY DEF LoopInd, PoolInd, TypeOK
<1>1. CASE ClientNext \/ Tick
  BY <1>1 DEF StoreNext
<1>2. ASSUME NEW at \in Clock, NEW t \in Tasks, NEW locked \in SUBSET Tasks,
             Claim(t, at, locked) \/ ClaimConverges(t, at, locked)
      PROVE  [StoreNext]_storeVars
  BY <1>2 DEF Claim, ClaimConverges, StoreNext, ExecutorNext
<1>3. CASE UNCHANGED storeVars
  BY <1>3
<1>4. ASSUME NEW e \in Executors, NEW at \in Clock,
             Prepare(e, at) \/ Dispatch(e, at) \/ Complete(e, at) \/ Mark(e, at)
      PROVE  [StoreNext]_storeVars
  <2>1. AppendProgress(exec[e].fence, at)
    BY <1>4 DEF Prepare, Dispatch, Complete, Mark, PrepareModelRound, PrepareToolCall,
                MarkModelDispatched, MarkToolDispatched, CompleteModelRound, CompleteToolCall,
                MarkModelUncertain, MarkToolUncertain, ledgerMutation
  <2>2. exec[e].fence \in Fence /\ "task_error" \in Outcome \ {"none"}
    BY <1>0, ExecFields DEF PoolInd, Outcome
  <2>3. QED
    BY <1>0, <2>1, <2>2, WritesMatch
<1>5. ASSUME NEW e \in Executors, PoolStep(e) PROVE [StoreNext]_storeVars
  <2>1. ExecNext(e)
    BY <1>5 DEF PoolStep, ExecNext
  <2>2. QED
    BY <1>0, <2>1, ExecUsesStore
<1>6. ASSUME NEW e \in Executors, LoopStep(e) PROVE [StoreNext]_storeVars
  BY <1>3, <1>4, <1>6
     DEF LoopStep, Invoke, GetModelRound, GetToolCall, InvokeFails, ToolUnavailable, CompleteFails,
         MarkFails, LoopFails, Return, LoopCanceled, HandlerReturns, HandlerCanceled
<1>7. CASE UNCHANGED loopVars
  BY <1>7 DEF loopVars, poolVars
<1>8. QED
  BY <1>1, <1>2, <1>3, <1>5, <1>6, <1>7
     DEF LoopNext, StartLoop, ClaimRead, ClaimReadFails, Restart, Crash, ClaimPanics

\* Every step of executeAgentLoop keeps the invariant.
LEMMA InsideStep ==
    ASSUME LoopInd, StoreTypeOK', Pinned, UNCHANGED claiming, NEW e \in Executors, LoopStep(e)
    PROVE  LoopInd'
<1>1. ASSUME NEW at \in Clock, Prepare(e, at) \/ Dispatch(e, at) \/ Mark(e, at) PROVE LoopInd'
  BY <1>1, WriteStep
<1>2. ASSUME NEW at \in Clock, Complete(e, at) PROVE LoopInd'
  BY <1>2, CompleteStep
<1>3. CASE InvokeFails(e) \/ \E calls \in 0..MaxCalls : Invoke(e, calls)
  BY <1>3, InvokeStep
<1>4. CASE GetModelRound(e) \/ GetToolCall(e)
  BY <1>4, GetModelStep, GetToolStep
<1>5. CASE ToolUnavailable(e) \/ CompleteFails(e) \/ LoopFails(e)
  <2>1. /\ loop[e].pc # "off" /\ UNCHANGED <<storeVars, ledger, effects>>
        /\ \E pc \in {"mark", "return"} : Goto(e, pc)
        /\ \E o \in Outcome \ {"none", "succeeded"} : Decide(e, o)
    BY <1>5 DEF ToolUnavailable, CompleteFails, LoopFails, At, Outcome
  <2>2. QED
    BY <2>1, GiveUpStep
<1>6. CASE MarkFails(e)
  BY <1>6, MarkFailsStep
<1>7. CASE Return(e) \/ LoopCanceled(e)
  BY <1>7, ReturnStep
<1>8. QED
  BY <1>1, <1>2, <1>3, <1>4, <1>5, <1>6, <1>7 DEF LoopStep

\* So does every step of the pool that runs it.
LEMMA LoopIndStep ==
    ASSUME LoopInd, [LoopNext]_loopVars
    PROVE  LoopInd'
<1>0. StoreTypeOK /\ PoolInd /\ [StoreNext]_storeVars
  BY LoopUsesStore DEF LoopInd, PoolInd, TypeOK
<1>1. StoreTypeOK' /\ Pinned
  BY <1>0, TypeStep, PinStep
<1>2. CASE (ClientNext \/ Tick \/ UNCHANGED storeVars)
           /\ UNCHANGED <<exec, claiming, ledger, effects, loop>>
  <2>1. PoolInd'
    BY <1>0, <1>1, <1>2, NoneMoves
  <2>2. \A u \in Tasks : status'[u] = "succeeded" => status[u] = "succeeded"
    BY <1>0, <1>2, OnlyExecutorsComplete
  <2>3. QED
    BY <1>1, <1>2, <2>1, <2>2, LoopsRest
<1>3. ASSUME NEW at \in Clock, NEW t \in Tasks, NEW locked \in SUBSET Tasks,
             Claim(t, at, locked) \/ ClaimConverges(t, at, locked),
             UNCHANGED <<ledger, effects, loop>>
      PROVE  LoopInd'
  <2>1. /\ ClaimLease(t, at, locked) \/ ClaimOverdue(t, at, locked)
        /\ UNCHANGED exec
    BY <1>3 DEF Claim, ClaimConverges
  <2>2. PoolInd'
    BY <1>0, <1>1, <1>3, ClaimMoves, NoneMoves DEF ClaimConverges
  <2>3. \A u \in Tasks : status'[u] = "succeeded" => status[u] = "succeeded"
    BY <1>0, <2>1, OnlyExecutorsComplete
  <2>4. QED
    BY <1>1, <1>3, <2>1, <2>2, <2>3, LoopsRest
<1>4. CASE ClaimReadFails /\ UNCHANGED <<ledger, effects, loop>>
  <2>1. claiming' = {} /\ UNCHANGED <<exec, storeVars>>
    BY <1>4 DEF ClaimReadFails
  <2>2. PoolInd'
    BY <1>0, <1>1, <2>1, NoneMoves
  <2>3. UNCHANGED status
    BY <2>1 DEF storeVars
  <2>4. QED
    BY <1>1, <1>4, <2>1, <2>2, <2>3, LoopsRest
<1>5. ASSUME NEW e \in Executors, NEW t \in Tasks, StartLoop(e, t) PROVE LoopInd'
  BY <1>1, <1>5, StartStep
<1>6. ASSUME NEW e \in Executors, LoopStep(e), UNCHANGED claiming PROVE LoopInd'
  BY <1>1, <1>6, InsideStep
<1>7. ASSUME NEW e \in Executors, PoolStep(e), UNCHANGED <<claiming, ledger, effects, loop>>
      PROVE  LoopInd'
  BY <1>1, <1>7, AroundStep
<1>8. CASE Restart
  BY <1>1, <1>8, RestartStep
<1>9. CASE UNCHANGED loopVars
  BY <1>2, <1>9 DEF loopVars, poolVars
<1>10. QED
  BY <1>2, <1>3, <1>4, <1>5, <1>6, <1>7, <1>8, <1>9 DEF LoopNext

\* Before the first task the ledgers are empty.
LEMMA LoopStart ==
    ASSUME LoopInit
    PROVE  LoopInd
<1>1. PoolInd /\ exec = [e \in Executors |-> IdleExec] /\ status = [t \in Tasks |-> "absent"]
  BY PoolStart DEF LoopInit, PoolInit, StoreInit
<1>2. NoLoop \in LoopState /\ NoLoop.pc = "off" /\ NoRow \in Row /\ NoRow.state = "absent"
      /\ NoRow.calls = 0
  BY LoopAssumption DEF NoLoop, LoopState, Pc, FirstKey, Key, NoRow, Row, RowState
<1>3. LedgerTypeOK
  BY <1>2 DEF LoopInit, LedgerTypeOK
<1>4. \A t \in Tasks, k \in Key : ledger[t][k] = NoRow /\ effects[t][k] = 0
  BY DEF LoopInit
<1>5. LedgersFit
  BY <1>2, <1>4 DEF LedgersFit, CallsFit, RowsFit, EffectsFit
<1>6. \A e \in Executors : loop[e].pc = "off" /\ exec[e].phase = "idle"
  BY <1>1, <1>2 DEF LoopInit, IdleExec
<1>7. LoopsFit /\ OneInvokes
  BY <1>6 DEF LoopsFit, LoopFits, OneInvokes
<1>8. SuccessFits
  BY <1>1, <1>6 DEF SuccessFits
<1>9. QED
  BY <1>1, <1>3, <1>5, <1>7, <1>8 DEF LoopInd

\* The invariant holds in every state.
LEMMA LoopInvariant == LoopSpec => []LoopInd
<1>1. LoopInit => LoopInd
  BY LoopStart
<1>2. LoopInd /\ [LoopNext]_loopVars => LoopInd'
  BY LoopIndStep
<1>3. QED
  BY <1>1, <1>2, PTL DEF LoopSpec

-----------------------------------------------------------------------------
(* The theorems *)

\* Whatever crashes, takes over or comes late, and for any number of rounds and
\* tool calls: executeAgentLoop starts no model call and no tool call of a task a
\* second time, and none that a later executor would not find dispatched.
THEOREM SideEffectsAtMostOnce == LoopSpec => []EffectsAtMostOnce
BY LoopInvariant, LoopIndImplies, PTL

\* The ledger that any number of successive, overlapping and stale executors
\* wrote reads as one run of executeAgentLoop, and only a live handler is in it.
THEOREM LedgerReadsAsOneRun == LoopSpec => []LoopInv
BY LoopInvariant, LoopIndImplies, PTL

\* A task is stored as succeeded only with a durable last answer and a durable
\* result of every side effect it started.
THEOREM SuccessNeedsAllResults == LoopSpec => []SuccessIsComplete
BY LoopInvariant, LoopIndImplies, PTL

\* With the agent handler inside, the pool still uses the durable queue only
\* through its operations, each ledger write being one fenced progress report.
THEOREM LoopImplementsQueue == LoopSpec => StoreSpec
<1>1. LoopInit => StoreInit
  BY DEF LoopInit, PoolInit
<1>2. LoopInd /\ [LoopNext]_loopVars => [StoreNext]_storeVars
  BY LoopUsesStore
<1>3. QED
  BY <1>1, <1>2, LoopInvariant, PTL DEF LoopSpec, StoreSpec

=============================================================================
