-------------------------- MODULE ResourcesProofs --------------------------
(***************************************************************************)
(* What the runs check of the Cloud Worker rows, of the credential tests   *)
(* and of the retained SSH Workers, for every number of executions,        *)
(* handlers, callers and keys.                                             *)
(***************************************************************************)
EXTENDS SSHWorker, CloudWorker, CredentialTest, FiniteSetTheorems, TLAPS

(***************************************************************************)
(* Cloud Worker executions.  The rows of one execution, with the state of  *)
(* the turn and the number of results it was given.                        *)
(***************************************************************************)
TaskRow == [status : LiveTask \cup {"none", "succeeded", "failed", "canceled"},
            epoch : Nat, rev : Nat, leased : BOOLEAN]
ConfRow == [state : {"none", "pending", "confirmed", "consumed", "rejected", "expired"},
            rev : Nat, released : BOOLEAN]
ExecRow == [state : LiveRun \cup {"none", "succeeded", "failed", "canceled", "rejected", "expired"},
            rev : Nat]
HoldRow == [active : BOOLEAN, epoch : Nat, rev : Nat]

HandRow == [pc : {"idle", "claimed", "begun", "working", "complete", "fail", "unsure", "failing"},
            run : CWRuns \cup {0}, epoch : Nat, rev : Nat, erev : Nat, proof : Nat, reports : Nat]

RowsTyped == CWTypeOK /\ cwres \in [CWRuns -> HoldRow] /\ answered \in [CWRuns -> Nat]

HandsTyped ==
    /\ cwhand \in [CWHandlers -> HandRow]
    /\ \A h \in CWHandlers : cwhand[h].pc # "idle" => cwhand[h].run \in CWRuns

(* One execution: its live task has the rows that every operation expects, *)
(* a live execution has parked the turn, and a result ends it.             *)
RunFits(t, c, r, x, a, turn) ==
    /\ t.status = "waiting_user" => c.state = "pending" /\ x.state = "waiting_user"
    /\ t.status = "queued" => c.state = "confirmed" /\ x.state = "queued"
    /\ t.status = "running" =>
          /\ x.state \in {"provisioning", "running"}
          /\ c.state = "consumed" /\ ~c.released
          /\ r = [active |-> TRUE, epoch |-> t.epoch, rev |-> t.rev]
    /\ t.status = "none" <=> x.state = "none"
    /\ t.leased => t.status = "running"
    /\ x.state \in LiveRun => turn = "waiting" /\ t.status \in LiveTask \cup {"canceled"}
    /\ a # 0 \/ c.released => x.state \notin LiveRun \cup {"none"}

RunsFit == \A e \in CWRuns :
               RunFits(cwtask[e], cwconf[e], cwres[e], cwexec[e], answered[e], cwturn)
OneRun == \A e, f \in CWRuns : cwexec[e].state \in LiveRun /\ cwexec[f].state \in LiveRun => e = f
Parked == cwturn = "waiting" => cwdeleted \/ \E e \in CWRuns : cwexec[e].state \in LiveRun

CWInd == RowsTyped /\ HandsTyped /\ RunsFit /\ OneRun /\ CWSlotsExact /\ Parked

RowsInd == RowsTyped /\ RunsFit /\ OneRun /\ CWSlotsExact /\ Parked

TurnStates == EndedTurn \cup {"running", "waiting", "accepted"}

(* A step that writes the rows of one execution.                           *)
Writes(e, t, c, r, x, a) ==
    /\ cwtask' = [cwtask EXCEPT ![e] = t] /\ cwconf' = [cwconf EXCEPT ![e] = c]
    /\ cwres' = [cwres EXCEPT ![e] = r] /\ cwexec' = [cwexec EXCEPT ![e] = x]
    /\ answered' = [answered EXCEPT ![e] = a]

Runs(t) == IF t.status = "running" THEN 1 ELSE 0

(* An execution that ended keeps its rows.                                 *)
EndedStays ==
    \A e \in CWRuns : cwexec[e].state \notin LiveRun \cup {"none"} =>
        cwexec'[e] = cwexec[e] /\ cwtask'[e] = cwtask[e] /\ cwconf'[e] = cwconf[e]

(* What such a step owes: rows that fit, one live execution, the slot.     *)
LEMMA WritesKeepRows ==
    ASSUME RowsInd, NEW e \in CWRuns,
           NEW t \in TaskRow, NEW c \in ConfRow, NEW r \in HoldRow, NEW x \in ExecRow,
           NEW a \in Nat, Writes(e, t, c, r, x, a), cwturn' \in TurnStates,
           RunFits(t, c, r, x, a, cwturn'), cwexec[e].state \in LiveRun \cup {"none"},
           cwturn' = cwturn \/ \A f \in CWRuns \ {e} : cwexec[f].state \notin LiveRun,
           x.state \in LiveRun => \A f \in CWRuns \ {e} : cwexec[f].state \notin LiveRun,
           cwslots' = cwslots + Runs(t) - Runs(cwtask[e]),
           cwturn' = "waiting" => cwdeleted' \/ x.state \in LiveRun
    PROVE  RowsInd' /\ EndedStays
<1> DEFINE S == {f \in CWRuns : cwtask[f].status = "running"}
           T == {f \in CWRuns : cwtask'[f].status = "running"}
<1>1. /\ cwtask \in [CWRuns -> TaskRow] /\ cwconf \in [CWRuns -> ConfRow]
      /\ cwexec \in [CWRuns -> ExecRow] /\ cwres \in [CWRuns -> HoldRow]
      /\ answered \in [CWRuns -> Nat]
  BY DEF RowsInd, RowsTyped, CWTypeOK, TaskRow, ConfRow, ExecRow
<1>2. /\ cwtask' \in [CWRuns -> TaskRow] /\ cwconf' \in [CWRuns -> ConfRow]
      /\ cwexec' \in [CWRuns -> ExecRow] /\ cwres' \in [CWRuns -> HoldRow]
      /\ answered' \in [CWRuns -> Nat]
  BY <1>1 DEF Writes
<1>3. RowsTyped'
  BY <1>2 DEF RowsTyped, CWTypeOK, TaskRow, ConfRow, ExecRow, TurnStates
<1>4. /\ cwtask'[e] = t /\ cwconf'[e] = c /\ cwres'[e] = r /\ cwexec'[e] = x
      /\ answered'[e] = a
  BY <1>1 DEF Writes
<1>5. \A f \in CWRuns \ {e} :
          /\ cwtask'[f] = cwtask[f] /\ cwconf'[f] = cwconf[f] /\ cwres'[f] = cwres[f]
          /\ cwexec'[f] = cwexec[f] /\ answered'[f] = answered[f]
  BY <1>1 DEF Writes
<1>6. RunsFit'
  <2> SUFFICES ASSUME NEW f \in CWRuns
               PROVE  RunFits(cwtask'[f], cwconf'[f], cwres'[f], cwexec'[f], answered'[f], cwturn')
    BY DEF RunsFit
  <2>1. CASE f = e
    BY <1>4, <2>1
  <2>2. CASE f # e
    <3>1. RunFits(cwtask[f], cwconf[f], cwres[f], cwexec[f], answered[f], cwturn)
      BY DEF RowsInd, RunsFit
    <3>2. RunFits(cwtask[f], cwconf[f], cwres[f], cwexec[f], answered[f], cwturn')
      BY <2>2, <3>1 DEF RunFits
    <3> QED  BY <1>5, <2>2, <3>2
  <2> QED  BY <2>1, <2>2
<1>7. OneRun'
  BY <1>4, <1>5 DEF RowsInd, OneRun
<1>8. CWSlotsExact'
  <2>1. IsFiniteSet(S) /\ IsFiniteSet(T)
    BY FS_Subset, CloudWorkerAssumption
  <2>2. cwslots = Cardinality(S)
    BY DEF RowsInd, CWSlotsExact
  <2>3. Cardinality(S) \in Nat
    BY <2>1, FS_CardinalityType
  <2>4. CASE Runs(t) = Runs(cwtask[e])
    <3>1. T = S
      BY <1>4, <1>5, <2>4 DEF Runs
    <3>2. cwslots' = cwslots
      BY <2>2, <2>3, <2>4 DEF Runs
    <3> QED  BY <2>2, <3>1, <3>2 DEF CWSlotsExact
  <2>5. CASE Runs(t) = 1 /\ Runs(cwtask[e]) = 0
    <3>1. T = S \cup {e} /\ e \notin S
      BY <1>4, <1>5, <2>5 DEF Runs
    <3>2. Cardinality(T) = Cardinality(S) + 1
      BY <2>1, <3>1, FS_AddElement
    <3> QED  BY <2>2, <2>3, <2>5, <3>2 DEF CWSlotsExact
  <2>6. CASE Runs(t) = 0 /\ Runs(cwtask[e]) = 1
    <3>1. T = S \ {e} /\ e \in S
      BY <1>4, <1>5, <2>6 DEF Runs
    <3>2. Cardinality(T) = Cardinality(S) - 1
      BY <2>1, <3>1, FS_RemoveElement
    <3> QED  BY <2>2, <2>3, <2>6, <3>2 DEF CWSlotsExact
  <2> QED  BY <2>4, <2>5, <2>6 DEF Runs
<1>9. Parked'
  BY <1>4 DEF Parked
<1>10. EndedStays
  BY <1>5 DEF EndedStays
<1> QED  BY <1>3, <1>6, <1>7, <1>8, <1>9, <1>10 DEF RowsInd

LEMMA RowsAreTyped ==
    ASSUME RowsInd
    PROVE  /\ cwtask \in [CWRuns -> TaskRow] /\ cwconf \in [CWRuns -> ConfRow]
           /\ cwexec \in [CWRuns -> ExecRow] /\ cwres \in [CWRuns -> HoldRow]
           /\ answered \in [CWRuns -> Nat] /\ cwturn \in TurnStates /\ cwslots \in Int
<1>1. /\ cwtask \in [CWRuns -> TaskRow] /\ cwconf \in [CWRuns -> ConfRow]
      /\ cwexec \in [CWRuns -> ExecRow] /\ cwres \in [CWRuns -> HoldRow]
      /\ answered \in [CWRuns -> Nat] /\ cwturn \in TurnStates
  BY DEF RowsInd, RowsTyped, CWTypeOK, TaskRow, ConfRow, ExecRow, TurnStates
<1>2. IsFiniteSet({e \in CWRuns : cwtask[e].status = "running"})
  BY FS_Subset, CloudWorkerAssumption
<1>3. cwslots \in Int
  BY <1>2, FS_CardinalityType DEF RowsInd, CWSlotsExact
<1> QED  BY <1>1, <1>3

(* A live execution holds the turn, alone.                                 *)
LEMMA LiveIsAlone ==
    ASSUME RowsInd, NEW e \in CWRuns, cwexec[e].state \in LiveRun
    PROVE  /\ cwturn = "waiting"
           /\ \A f \in CWRuns \ {e} : cwexec[f].state \notin LiveRun
  BY DEF RowsInd, RunsFit, RunFits, OneRun

LEMMA CreateOfferKeepsRows ==
    ASSUME RowsInd, NEW e \in CWRuns, CreateOffer(e)
    PROVE  RowsInd' /\ EndedStays
<1> DEFINE asks == e \notin CWReuse
           t == [status |-> IF asks THEN "waiting_user" ELSE "queued", epoch |-> cwtask[e].epoch,
                 rev |-> cwtask[e].rev, leased |-> cwtask[e].leased]
           c == [state |-> IF asks THEN "pending" ELSE "confirmed", rev |-> cwconf[e].rev,
                 released |-> cwconf[e].released]
           x == [state |-> IF asks THEN "waiting_user" ELSE "queued", rev |-> cwexec[e].rev]
           r == cwres[e]
           a == answered[e]
<1> USE RowsAreTyped
<1>1. t \in TaskRow /\ c \in ConfRow /\ x \in ExecRow /\ r \in HoldRow /\ a \in Nat
  BY DEF TaskRow, ConfRow, ExecRow, LiveTask, LiveRun
<1>2. Writes(e, t, c, r, x, a)
  <2>1. t = [cwtask[e] EXCEPT !.status = IF asks THEN "waiting_user" ELSE "queued"]
    BY DEF TaskRow
  <2>2. c = [cwconf[e] EXCEPT !.state = IF asks THEN "pending" ELSE "confirmed"]
    BY DEF ConfRow
  <2>3. x = [cwexec[e] EXCEPT !.state = IF asks THEN "waiting_user" ELSE "queued"]
    BY DEF ExecRow
  <2>4. cwtask' = [cwtask EXCEPT ![e] = t]
    BY <2>1 DEF CreateOffer
  <2>5. cwconf' = [cwconf EXCEPT ![e] = c]
    BY <2>2 DEF CreateOffer
  <2>6. cwexec' = [cwexec EXCEPT ![e] = x]
    BY <2>3 DEF CreateOffer
  <2>7. cwres' = [cwres EXCEPT ![e] = r] /\ answered' = [answered EXCEPT ![e] = a]
    BY DEF CreateOffer
  <2> HIDE DEF t, c, x, r, a
  <2> QED  BY <2>4, <2>5, <2>6, <2>7 DEF Writes
<1>3. RunFits(cwtask[e], cwconf[e], cwres[e], cwexec[e], answered[e], cwturn)
  BY DEF RowsInd, RunsFit
<1>4. cwexec[e].state = "none" /\ cwturn = "running" /\ cwturn' = "waiting" /\ cwslots' = cwslots
  BY DEF CreateOffer
<1>5. cwtask[e].status = "none" /\ ~cwtask[e].leased /\ a = 0 /\ ~cwconf[e].released
  BY <1>3, <1>4 DEF RunFits, TaskRow
<1>6. RunFits(t, c, r, x, a, cwturn')
  BY <1>4, <1>5 DEF RunFits, LiveTask, LiveRun
<1>7. \A f \in CWRuns : cwexec[f].state \notin LiveRun
  BY <1>4, LiveIsAlone
<1>8. cwslots' = cwslots + Runs(t) - Runs(cwtask[e])
  BY <1>4, <1>5 DEF Runs
<1>9. x.state \in LiveRun /\ cwturn' \in TurnStates
  BY <1>4 DEF LiveRun, TurnStates
<1> HIDE DEF t, c, x, r, a
<1> QED  BY <1>1, <1>2, <1>4, <1>6, <1>7, <1>8, <1>9, WritesKeepRows

(* The writes that the operations share, as rows.                          *)
TaskAs(e, s) == [cwtask[e] EXCEPT !.status = s, !.rev = @ + 1, !.leased = FALSE]
ConfAs(e, s) == [cwconf[e] EXCEPT !.state = s, !.rev = @ + 1]
ExecAs(e, s) == [state |-> s, rev |-> cwexec[e].rev + 1]

LEMMA TaskWritten ==
    ASSUME RowsInd, NEW e \in CWRuns,
           NEW s \in LiveTask \cup {"none", "succeeded", "failed", "canceled"}
    PROVE  /\ TaskAs(e, s) \in TaskRow /\ TaskAs(e, s).status = s
           /\ TaskAs(e, s).leased = FALSE
           /\ TaskBecomes(e, s) => cwtask' = [cwtask EXCEPT ![e] = TaskAs(e, s)]
<1>0. cwtask \in [CWRuns -> TaskRow]
  BY RowsAreTyped
<1>1. TaskAs(e, s) \in TaskRow
  <2>1. \A t \in TaskRow : [t EXCEPT !.status = s] \in TaskRow
    BY DEF TaskRow
  <2>2. \A t \in TaskRow : [t EXCEPT !.rev = @ + 1] \in TaskRow
    BY DEF TaskRow
  <2>3. \A t \in TaskRow : [t EXCEPT !.leased = FALSE] \in TaskRow
    BY DEF TaskRow
  <2> QED  BY <1>0, <2>1, <2>2, <2>3 DEF TaskAs
<1>2. TaskAs(e, s).status = s /\ TaskAs(e, s).leased = FALSE
  BY <1>0 DEF TaskRow, TaskAs
<1>3. ASSUME TaskBecomes(e, s) PROVE cwtask' = [cwtask EXCEPT ![e] = TaskAs(e, s)]
  BY <1>0, <1>3 DEF TaskBecomes, TaskAs
<1> QED  BY <1>1, <1>2, <1>3

LEMMA ConfWritten ==
    ASSUME RowsInd, NEW e \in CWRuns,
           NEW s \in {"none", "pending", "confirmed", "consumed", "rejected", "expired"}
    PROVE  /\ ConfAs(e, s) \in ConfRow /\ ConfAs(e, s).state = s
           /\ ConfAs(e, s).released = cwconf[e].released
           /\ ConfBecomes(e, s) => cwconf' = [cwconf EXCEPT ![e] = ConfAs(e, s)]
<1>0. cwconf \in [CWRuns -> ConfRow]
  BY RowsAreTyped
<1>1. ConfAs(e, s) \in ConfRow
  <2>1. \A c \in ConfRow : [c EXCEPT !.state = s] \in ConfRow
    BY DEF ConfRow
  <2>2. \A c \in ConfRow : [c EXCEPT !.rev = @ + 1] \in ConfRow
    BY DEF ConfRow
  <2> QED  BY <1>0, <2>1, <2>2 DEF ConfAs
<1>2. ConfAs(e, s).state = s /\ ConfAs(e, s).released = cwconf[e].released
  BY <1>0 DEF ConfRow, ConfAs
<1>3. ASSUME ConfBecomes(e, s) PROVE cwconf' = [cwconf EXCEPT ![e] = ConfAs(e, s)]
  BY <1>0, <1>3 DEF ConfBecomes, ConfAs
<1> QED  BY <1>1, <1>2, <1>3

(* An execution changes while it is live, and so holds the turn.           *)
LEMMA ExecWritten ==
    ASSUME RowsInd, NEW e \in CWRuns,
           NEW s \in LiveRun \cup {"none", "succeeded", "failed", "canceled", "rejected", "expired"}
    PROVE  /\ ExecAs(e, s) \in ExecRow
           /\ SaveExecution(e, s) =>
                 /\ cwexec' = [cwexec EXCEPT ![e] = ExecAs(e, s)]
                 /\ cwexec[e].state \in LiveRun /\ CanTransition(cwexec[e].state, s)
<1> USE RowsAreTyped
<1>1. ExecAs(e, s) \in ExecRow
  BY DEF ExecRow, ExecAs
<1> QED  BY <1>1 DEF SaveExecution, CanTransition, LiveRun, ExecAs

LEMMA RowsKept ==
    ASSUME RowsInd, NEW e \in CWRuns
    PROVE  /\ UNCHANGED cwtask => cwtask' = [cwtask EXCEPT ![e] = cwtask[e]]
           /\ UNCHANGED cwconf => cwconf' = [cwconf EXCEPT ![e] = cwconf[e]]
           /\ UNCHANGED cwres => cwres' = [cwres EXCEPT ![e] = cwres[e]]
           /\ UNCHANGED cwexec => cwexec' = [cwexec EXCEPT ![e] = cwexec[e]]
           /\ UNCHANGED answered => answered' = [answered EXCEPT ![e] = answered[e]]
           /\ cwtask[e] \in TaskRow /\ cwconf[e] \in ConfRow /\ cwres[e] \in HoldRow
           /\ cwexec[e] \in ExecRow /\ answered[e] \in Nat
           /\ RunFits(cwtask[e], cwconf[e], cwres[e], cwexec[e], answered[e], cwturn)
  BY RowsAreTyped DEF RowsInd, RunsFit

(* The owner's answer.                                                     *)
LEMMA ConfirmOfferKeepsRows ==
    ASSUME RowsInd, NEW e \in CWRuns, ConfirmOffer(e)
    PROVE  RowsInd' /\ EndedStays
<1> DEFINE t == TaskAs(e, "queued")
           c == ConfAs(e, "confirmed")
           x == ExecAs(e, "queued")
<1>1. /\ cwconf[e].state = "pending" /\ cwtask[e].status = "waiting_user"
      /\ TaskBecomes(e, "queued") /\ ConfBecomes(e, "confirmed") /\ SaveExecution(e, "queued")
      /\ UNCHANGED cwres /\ UNCHANGED cwturn /\ UNCHANGED cwdeleted
      /\ UNCHANGED cwslots /\ UNCHANGED answered
  BY DEF ConfirmOffer
<1>2. t \in TaskRow /\ cwtask' = [cwtask EXCEPT ![e] = t]
  BY <1>1, TaskWritten DEF LiveTask
<1>3. c \in ConfRow /\ cwconf' = [cwconf EXCEPT ![e] = c]
  BY <1>1, ConfWritten
<1>4. x \in ExecRow /\ cwexec' = [cwexec EXCEPT ![e] = x] /\ cwexec[e].state \in LiveRun
  BY <1>1, ExecWritten DEF LiveRun
<1>5. Writes(e, t, c, cwres[e], x, answered[e])
  BY <1>1, <1>2, <1>3, <1>4, RowsKept DEF Writes
<1>6. cwturn = "waiting" /\ \A f \in CWRuns \ {e} : cwexec[f].state \notin LiveRun
  BY <1>4, LiveIsAlone
<1>7. RunFits(t, c, cwres[e], x, answered[e], cwturn')
  <2>1. t.status = "queued" /\ t.leased = FALSE
    BY TaskWritten DEF LiveTask
  <2>2. c.state = "confirmed" /\ c.released = cwconf[e].released /\ x.state = "queued"
    BY ConfWritten DEF ExecAs
  <2>3. answered[e] = 0 /\ ~cwconf[e].released
    BY <1>4, RowsKept DEF RunFits
  <2> HIDE DEF t, c, x
  <2> QED  BY <1>1, <1>6, <2>1, <2>2, <2>3 DEF RunFits, LiveTask, LiveRun
<1>8. cwslots' = cwslots + Runs(t) - Runs(cwtask[e])
  BY <1>1, RowsAreTyped DEF Runs, TaskAs
<1>9. x.state \in LiveRun /\ cwturn' \in TurnStates
  BY <1>1, <1>6 DEF LiveRun, TurnStates, ExecAs
<1>10. cwres[e] \in HoldRow /\ answered[e] \in Nat
  BY RowsKept
<1> HIDE DEF t, c, x
<1> QED  BY <1>2, <1>3, <1>4, <1>5, <1>6, <1>7, <1>8, <1>9, <1>10, WritesKeepRows

LEMMA RejectOfferKeepsRows ==
    ASSUME RowsInd, NEW e \in CWRuns, RejectOffer(e)
    PROVE  RowsInd' /\ EndedStays
<1> DEFINE t == TaskAs(e, "canceled")
           c == ConfAs(e, "rejected")
           x == ExecAs(e, "rejected")
<1>1. /\ cwconf[e].state = "pending" /\ cwtask[e].status = "waiting_user"
      /\ TaskBecomes(e, "canceled") /\ ConfBecomes(e, "rejected") /\ SaveExecution(e, "rejected")
      /\ EndTurn("canceled") /\ UNCHANGED cwres /\ UNCHANGED cwdeleted
      /\ UNCHANGED cwslots /\ UNCHANGED answered
  BY DEF RejectOffer
<1>2. t \in TaskRow /\ cwtask' = [cwtask EXCEPT ![e] = t]
  BY <1>1, TaskWritten
<1>3. c \in ConfRow /\ cwconf' = [cwconf EXCEPT ![e] = c]
  BY <1>1, ConfWritten
<1>4. x \in ExecRow /\ cwexec' = [cwexec EXCEPT ![e] = x] /\ cwexec[e].state \in LiveRun
  BY <1>1, ExecWritten
<1>5. Writes(e, t, c, cwres[e], x, answered[e])
  BY <1>1, <1>2, <1>3, <1>4, RowsKept DEF Writes
<1>6. \A f \in CWRuns \ {e} : cwexec[f].state \notin LiveRun
  BY <1>4, LiveIsAlone
<1>7. RunFits(t, c, cwres[e], x, answered[e], cwturn')
  BY RowsKept DEF RunFits, TaskAs, ConfAs, ExecAs, LiveTask, LiveRun
<1>8. cwslots' = cwslots + Runs(t) - Runs(cwtask[e])
  BY <1>1, RowsAreTyped DEF Runs, TaskAs
<1>9. cwturn' \in TurnStates /\ (cwturn' = "waiting" => cwdeleted')
  BY <1>1 DEF EndTurn, TurnStates, EndedTurn
<1>10. cwres[e] \in HoldRow /\ answered[e] \in Nat /\ x.state \notin LiveRun
  BY RowsKept DEF ExecAs, LiveRun
<1> HIDE DEF t, c, x
<1> QED  BY <1>2, <1>3, <1>4, <1>5, <1>6, <1>7, <1>8, <1>9, <1>10, WritesKeepRows

LEMMA ExpireOfferKeepsRows ==
    ASSUME RowsInd, NEW e \in CWRuns, ExpireOffer(e)
    PROVE  RowsInd' /\ EndedStays
<1> DEFINE t == IF cwtask[e].status \in LiveTask THEN TaskAs(e, "failed") ELSE cwtask[e]
           c == ConfAs(e, "expired")
           x == ExecAs(e, "expired")
<1>1. /\ cwconf[e].state \in {"pending", "confirmed"}
      /\ cwslots' = IF cwtask[e].status = "running" THEN cwslots - 1 ELSE cwslots
      /\ IF cwtask[e].status \in LiveTask THEN TaskBecomes(e, "failed") ELSE UNCHANGED cwtask
      /\ ConfBecomes(e, "expired") /\ SaveExecution(e, "expired") /\ EndTurn("failed")
      /\ UNCHANGED cwres /\ UNCHANGED cwdeleted /\ UNCHANGED answered
  BY DEF ExpireOffer
<1>2. t \in TaskRow /\ cwtask' = [cwtask EXCEPT ![e] = t]
  <2>1. CASE cwtask[e].status \in LiveTask
    BY <1>1, <2>1, TaskWritten
  <2>2. CASE cwtask[e].status \notin LiveTask
    BY <1>1, <2>2, RowsKept
  <2> QED  BY <2>1, <2>2
<1>3. c \in ConfRow /\ cwconf' = [cwconf EXCEPT ![e] = c]
  BY <1>1, ConfWritten
<1>4. x \in ExecRow /\ cwexec' = [cwexec EXCEPT ![e] = x] /\ cwexec[e].state \in LiveRun
  BY <1>1, ExecWritten
<1>5. Writes(e, t, c, cwres[e], x, answered[e])
  BY <1>1, <1>2, <1>3, <1>4, RowsKept DEF Writes
<1>6. \A f \in CWRuns \ {e} : cwexec[f].state \notin LiveRun
  BY <1>4, LiveIsAlone
<1>7. t.status \in {"failed", "canceled"} /\ (t.leased => FALSE)
  <2>1. CASE cwtask[e].status \in LiveTask
    BY <2>1, TaskWritten
  <2>2. CASE cwtask[e].status \notin LiveTask
    BY <1>4, <2>2, RowsKept DEF RunFits, LiveTask
  <2> QED  BY <2>1, <2>2
<1>8. x.state = "expired"
  BY DEF ExecAs
<1>9. cwslots' = cwslots + Runs(t) - Runs(cwtask[e])
  BY <1>1, <1>7, RowsAreTyped DEF Runs
<1>10. cwturn' \in TurnStates /\ (cwturn' = "waiting" => cwdeleted')
  BY <1>1 DEF EndTurn, TurnStates, EndedTurn
<1>11. cwres[e] \in HoldRow /\ answered[e] \in Nat
  BY RowsKept
<1> HIDE DEF t, c, x
<1>12. RunFits(t, c, cwres[e], x, answered[e], cwturn')
  BY <1>7, <1>8 DEF RunFits, LiveTask, LiveRun
<1>13. x.state \notin LiveRun
  BY <1>8 DEF LiveRun
<1> QED  BY <1>2, <1>3, <1>4, <1>5, <1>6, <1>9, <1>10, <1>11, <1>12, <1>13, WritesKeepRows

(* A stop of one execution.                                                *)
LEMMA CancelKeepsRows ==
    ASSUME RowsInd, NEW e \in CWRuns, CancelExecutions({e})
    PROVE  RowsInd' /\ EndedStays /\ answered' = answered
<1> DEFINE held == {f \in {e} : cwtask[f].status = "running"}
           n == IF e \in held THEN cwtask[e].epoch + 1 ELSE cwtask[e].epoch
           used == cwconf[e].state = "consumed"
           t == [cwtask[e] EXCEPT !.status = "canceled", !.rev = @ + 1, !.leased = FALSE, !.epoch = n]
           c == [state |-> IF used THEN "consumed" ELSE "expired",
                 rev |-> cwconf[e].rev + 1, released |-> used]
           r == [cwres[e] EXCEPT !.active = FALSE]
           x == ExecAs(e, "canceled")
<1>0. /\ cwtask \in [CWRuns -> TaskRow] /\ cwconf \in [CWRuns -> ConfRow]
      /\ cwexec \in [CWRuns -> ExecRow] /\ cwres \in [CWRuns -> HoldRow] /\ cwslots \in Int
  BY RowsAreTyped
<1>1. /\ Cancelable(e) /\ EndTurn("canceled") /\ UNCHANGED cwdeleted /\ UNCHANGED answered
      /\ cwslots' = cwslots - Cardinality(held)
  BY DEF CancelExecutions
<1>2. cwtask' = [cwtask EXCEPT ![e] = t]
  BY <1>0 DEF CancelExecutions
<1>3. cwconf' = [cwconf EXCEPT ![e] = c]
  BY <1>0 DEF CancelExecutions
<1>4. cwres' = [cwres EXCEPT ![e] = r]
  <2>1. \A f \in CWRuns \ {e} : [cwres[f] EXCEPT !.active = @ /\ f \notin {e}] = cwres[f]
    BY <1>0 DEF HoldRow
  <2>2. [cwres[e] EXCEPT !.active = @ /\ e \notin {e}] = r
    BY <1>0 DEF HoldRow
  <2> HIDE DEF r
  <2>3. cwres' = [f \in CWRuns |-> [cwres[f] EXCEPT !.active = @ /\ f \notin {e}]]
    BY DEF CancelExecutions
  <2>4. cwres'[e] = r /\ \A f \in CWRuns \ {e} : cwres'[f] = cwres[f]
    BY <2>1, <2>2, <2>3
  <2> QED  BY <1>0, <2>3, <2>4
<1>5. cwexec' = [cwexec EXCEPT ![e] = x]
  BY <1>0 DEF CancelExecutions, ExecAs
<1>6. /\ cwexec[e].state \in LiveRun /\ cwtask[e].status \in LiveTask
      /\ \A f \in CWRuns \ {e} : cwexec[f].state \notin LiveRun
  BY <1>1, LiveIsAlone DEF Cancelable
<1>7. t \in TaskRow /\ t.status = "canceled" /\ (t.leased => FALSE)
  <2>1. n \in Nat
    BY <1>0 DEF TaskRow
  <2>2. ASSUME NEW u \in TaskRow
        PROVE  /\ [u EXCEPT !.epoch = n] \in TaskRow
               /\ [u EXCEPT !.epoch = n].status = u.status
               /\ [u EXCEPT !.epoch = n].leased = u.leased
    BY <2>1 DEF TaskRow
  <2>3. t = [TaskAs(e, "canceled") EXCEPT !.epoch = n]
    BY DEF TaskAs
  <2> HIDE DEF t, n
  <2>4. PICK u \in TaskRow :
           u = TaskAs(e, "canceled") /\ u.status = "canceled" /\ u.leased = FALSE
    BY TaskWritten
  <2>5. t = [u EXCEPT !.epoch = n]
    BY <2>3, <2>4
  <2> QED  BY <2>2, <2>4, <2>5
<1>8. c \in ConfRow /\ x \in ExecRow /\ x.state = "canceled"
  BY <1>0, ExecWritten DEF ConfRow, ExecAs
<1>9. r \in HoldRow /\ answered[e] \in Nat
  BY <1>0, RowsKept DEF HoldRow
<1>10. cwslots' = cwslots + Runs(t) - Runs(cwtask[e])
  <2>1. CASE cwtask[e].status = "running"
    <3>1. Cardinality(held) = 1
      <4>1. held = {e}
        BY <2>1
      <4> QED  BY <4>1, FS_Singleton
    <3> QED  BY <1>0, <1>1, <1>7, <2>1, <3>1 DEF Runs
  <2>2. CASE cwtask[e].status # "running"
    <3>1. Cardinality(held) = 0
      <4>1. held = {}
        BY <2>2
      <4> QED  BY <4>1, FS_EmptySet
    <3> QED  BY <1>0, <1>1, <1>7, <2>2, <3>1 DEF Runs
  <2> QED  BY <2>1, <2>2
<1> HIDE DEF t, c, r, x
<1>11. Writes(e, t, c, r, x, answered[e])
  BY <1>1, <1>2, <1>3, <1>4, <1>5, RowsKept DEF Writes
<1>12. RunFits(t, c, r, x, answered[e], cwturn')
  BY <1>7, <1>8 DEF RunFits, LiveTask, LiveRun
<1>13. x.state \notin LiveRun /\ cwturn' \in TurnStates /\ (cwturn' = "waiting" => cwdeleted')
  BY <1>1, <1>8 DEF LiveRun, EndTurn, TurnStates, EndedTurn
<1>14. RowsInd' /\ EndedStays
  BY <1>6, <1>7, <1>8, <1>9, <1>10, <1>11, <1>12, <1>13, WritesKeepRows
<1> QED  BY <1>1, <1>14

(* A live task has a live execution, so a stop of all is a stop of one.    *)
LEMMA LiveTaskLiveRun ==
    ASSUME RowsInd, NEW e \in CWRuns, cwtask[e].status \in LiveTask
    PROVE  cwexec[e].state \in LiveRun /\ answered[e] = 0 /\ ~cwconf[e].released
  BY RowsKept DEF RunFits, LiveTask, LiveRun

LEMMA StopAllKeepsRows ==
    ASSUME RowsInd, StopWorkerExecutions
    PROVE  RowsInd' /\ EndedStays /\ answered' = answered
<1> DEFINE runs == {e \in CWRuns : cwtask[e].status \in LiveTask}
<1>1. runs # {} /\ CancelExecutions(runs)
  BY DEF StopWorkerExecutions
<1>2. PICK e \in CWRuns : e \in runs
  BY <1>1
<1>3. runs = {e}
  BY <1>2, LiveTaskLiveRun DEF RowsInd, OneRun
<1>4. CancelExecutions({e})
  BY <1>1, <1>3, Zenon
<1> QED  BY <1>4, CancelKeepsRows

(* CancelTask takes the task and the open confirmation.                    *)
LEMMA CancelTaskKeepsRows ==
    ASSUME RowsInd, NEW e \in CWRuns, CancelCloudTask(e)
    PROVE  RowsInd' /\ EndedStays
<1> DEFINE t == [status |-> "canceled", rev |-> cwtask[e].rev + 1, leased |-> FALSE,
                 epoch |-> IF cwtask[e].status = "running" THEN cwtask[e].epoch + 1
                                                           ELSE cwtask[e].epoch]
           c == IF cwconf[e].state \in {"pending", "confirmed"} THEN ConfAs(e, "expired") ELSE cwconf[e]
<1>0. cwtask \in [CWRuns -> TaskRow] /\ cwslots \in Int
  BY RowsAreTyped
<1>1. /\ cwtask[e].status \in LiveTask /\ cwtask' = [cwtask EXCEPT ![e] = t]
      /\ cwslots' = IF cwtask[e].status = "running" THEN cwslots - 1 ELSE cwslots
      /\ IF cwconf[e].state \in {"pending", "confirmed"} THEN ConfBecomes(e, "expired")
                                                          ELSE UNCHANGED cwconf
      /\ UNCHANGED cwres /\ UNCHANGED cwexec /\ UNCHANGED cwturn /\ UNCHANGED cwdeleted
      /\ UNCHANGED answered
  BY <1>0 DEF CancelCloudTask
<1>2. t \in TaskRow /\ t.status = "canceled" /\ (t.leased => FALSE)
  BY <1>0 DEF TaskRow
<1>3. c \in ConfRow /\ cwconf' = [cwconf EXCEPT ![e] = c]
  <2>1. CASE cwconf[e].state \in {"pending", "confirmed"}
    BY <1>1, <2>1, ConfWritten
  <2>2. CASE cwconf[e].state \notin {"pending", "confirmed"}
    BY <1>1, <2>2, RowsKept
  <2> QED  BY <2>1, <2>2
<1>4. /\ cwexec[e].state \in LiveRun /\ answered[e] = 0 /\ cwturn = "waiting" /\ ~c.released
      /\ \A f \in CWRuns \ {e} : cwexec[f].state \notin LiveRun
  BY <1>1, LiveTaskLiveRun, LiveIsAlone, ConfWritten
<1>5. cwslots' = cwslots + Runs(t) - Runs(cwtask[e])
  BY <1>0, <1>1, <1>2 DEF Runs
<1> HIDE DEF t, c
<1>6. Writes(e, t, c, cwres[e], cwexec[e], answered[e])
  BY <1>1, <1>3, RowsKept DEF Writes
<1>7. RunFits(t, c, cwres[e], cwexec[e], answered[e], cwturn')
  BY <1>1, <1>2, <1>4 DEF RunFits, LiveTask, LiveRun
<1>8. cwres[e] \in HoldRow /\ cwexec[e] \in ExecRow /\ answered[e] \in Nat /\ cwturn' \in TurnStates
  BY <1>1, RowsKept, RowsAreTyped
<1> QED  BY <1>1, <1>2, <1>3, <1>4, <1>5, <1>6, <1>7, <1>8, WritesKeepRows

(* A lease that runs out, or is renewed late.                              *)
LEMMA LeaseFlipKeepsRows ==
    ASSUME RowsInd, NEW e \in CWRuns, NEW b \in BOOLEAN, cwtask[e].status = "running",
           cwtask' = [cwtask EXCEPT ![e].leased = b],
           UNCHANGED cwconf, UNCHANGED cwres, UNCHANGED cwexec, UNCHANGED cwturn,
           UNCHANGED cwdeleted, UNCHANGED cwslots, UNCHANGED answered
    PROVE  RowsInd' /\ EndedStays
<1> DEFINE t == [cwtask[e] EXCEPT !.leased = b]
<1>1. cwtask[e] \in TaskRow /\ cwslots \in Int
  BY RowsAreTyped
<1>2. /\ t \in TaskRow /\ t.status = "running" /\ t.epoch = cwtask[e].epoch
      /\ t.rev = cwtask[e].rev
  BY <1>1 DEF TaskRow
<1>3. cwtask' = [cwtask EXCEPT ![e] = t]
  OBVIOUS
<1>4. /\ cwexec[e].state \in LiveRun /\ cwturn = "waiting"
      /\ \A f \in CWRuns \ {e} : cwexec[f].state \notin LiveRun
  BY LiveTaskLiveRun, LiveIsAlone DEF LiveTask
<1> HIDE DEF t
<1>5. Writes(e, t, cwconf[e], cwres[e], cwexec[e], answered[e])
  BY <1>3, RowsKept DEF Writes
<1>6. RunFits(t, cwconf[e], cwres[e], cwexec[e], answered[e], cwturn')
  BY <1>2, RowsKept DEF RunFits, LiveTask, LiveRun
<1>7. cwslots' = cwslots + Runs(t) - Runs(cwtask[e])
  BY <1>1, <1>2 DEF Runs
<1>8. /\ cwconf[e] \in ConfRow /\ cwres[e] \in HoldRow /\ cwexec[e] \in ExecRow
      /\ answered[e] \in Nat /\ cwturn' \in TurnStates
  BY RowsKept, RowsAreTyped
<1> QED  BY <1>2, <1>4, <1>5, <1>6, <1>7, <1>8, WritesKeepRows

LEMMA HoldRowIs ==
    ASSUME NEW r \in HoldRow, NEW m, NEW n, r.active = TRUE, r.epoch = m, r.rev = n
    PROVE  r = [active |-> TRUE, epoch |-> m, rev |-> n]
  BY DEF HoldRow

(* A report moves the task's revision and the reservation's together.      *)
LEMMA ProgressKeepsRows ==
    ASSUME RowsInd, NEW h \in CWHandlers, cwhand[h].run \in CWRuns, ProgressWrites(h)
    PROVE  RowsInd' /\ EndedStays /\ answered' = answered
<1> DEFINE e == cwhand[h].run
           t == [cwtask[e] EXCEPT !.rev = @ + 1]
           r == [cwres[e] EXCEPT !.rev = @ + 1]
<1>1. cwtask[e] \in TaskRow /\ cwres[e] \in HoldRow /\ cwslots \in Int
  BY RowsAreTyped
<1>2. /\ cwtask' = [cwtask EXCEPT ![e] = t] /\ cwres' = [cwres EXCEPT ![e] = r]
      /\ UNCHANGED cwconf /\ UNCHANGED cwexec /\ UNCHANGED cwturn /\ UNCHANGED cwdeleted
      /\ UNCHANGED cwslots /\ UNCHANGED answered
  BY DEF ProgressWrites
<1>3. cwtask[e].status = "running"
  BY DEF ProgressWrites, Fenced
<1>4. RunFits(cwtask[e], cwconf[e], cwres[e], cwexec[e], answered[e], cwturn)
  BY RowsKept
<1>5. cwres[e] = [active |-> TRUE, epoch |-> cwtask[e].epoch, rev |-> cwtask[e].rev]
  BY <1>3, <1>4 DEF RunFits
<1>6. /\ t \in TaskRow /\ t.status = "running" /\ t.epoch = cwtask[e].epoch
      /\ t.rev = cwtask[e].rev + 1
  BY <1>1, <1>3 DEF TaskRow
<1>7. r \in HoldRow
  BY <1>1 DEF HoldRow
<1>8. r = [active |-> TRUE, epoch |-> t.epoch, rev |-> t.rev]
  <2>1. /\ cwres[e].active = TRUE /\ cwres[e].epoch = cwtask[e].epoch
        /\ cwres[e].rev = cwtask[e].rev
    BY <1>5
  <2>2. r.active = TRUE /\ r.epoch = t.epoch /\ r.rev = t.rev
    BY <1>1, <1>6, <2>1 DEF HoldRow
  <2> HIDE DEF r, t
  <2> QED  BY <1>7, <2>2, HoldRowIs
<1>9. /\ cwexec[e].state \in LiveRun /\ cwturn = "waiting"
      /\ \A f \in CWRuns \ {e} : cwexec[f].state \notin LiveRun
  BY <1>3, LiveTaskLiveRun, LiveIsAlone DEF LiveTask
<1> HIDE DEF t, r
<1>10. Writes(e, t, cwconf[e], r, cwexec[e], answered[e])
  BY <1>2, RowsKept DEF Writes
<1>11. RunFits(t, cwconf[e], r, cwexec[e], answered[e], cwturn')
  BY <1>2, <1>3, <1>4, <1>6, <1>8 DEF RunFits, LiveTask, LiveRun
<1>12. cwslots' = cwslots + Runs(t) - Runs(cwtask[e])
  BY <1>1, <1>2, <1>3, <1>6 DEF Runs
<1>13. /\ cwconf[e] \in ConfRow /\ cwexec[e] \in ExecRow
       /\ answered[e] \in Nat /\ cwturn' \in TurnStates /\ e \in CWRuns
  BY <1>2, RowsKept, RowsAreTyped
<1> HIDE DEF e
<1>14. RowsInd' /\ EndedStays
  BY <1>2, <1>6, <1>7, <1>9, <1>10, <1>11, <1>12, <1>13, WritesKeepRows
<1> QED  BY <1>2, <1>14

(* A claim: the first uses the consent, a later one rebinds the hold.      *)
LEMMA ClaimKeepsRows ==
    ASSUME RowsInd, NEW e \in CWRuns, NEW h \in CWHandlers, ClaimCloudTask(e, h)
    PROVE  RowsInd' /\ EndedStays
<1> DEFINE t == [status |-> "running", leased |-> TRUE, epoch |-> cwtask[e].epoch + 1,
                 rev |-> cwtask[e].rev + 1]
           r == [active |-> TRUE, epoch |-> cwtask[e].epoch + 1, rev |-> cwtask[e].rev + 1]
<1>0. cwtask[e] \in TaskRow /\ cwres[e] \in HoldRow /\ cwslots \in Int
  BY RowsAreTyped
<1>1. cwtask' = [cwtask EXCEPT ![e] = t] /\ UNCHANGED cwturn /\ UNCHANGED cwdeleted /\ UNCHANGED answered
  BY DEF ClaimCloudTask
<1>2. t \in TaskRow /\ t.status = "running" /\ t.epoch = r.epoch /\ t.rev = r.rev
  BY <1>0 DEF TaskRow, LiveTask
<1>3. r \in HoldRow /\ r = [active |-> TRUE, epoch |-> t.epoch, rev |-> t.rev]
  BY <1>0 DEF HoldRow, TaskRow
<1>4. cwturn' \in TurnStates /\ answered[e] \in Nat
  BY <1>1, RowsKept, RowsAreTyped
<1>5. CASE cwtask[e].status = "queued" /\ BeginExecution(e) /\ cwslots' = cwslots + 1
  <2> DEFINE c == ConfAs(e, "consumed")
             x == ExecAs(e, "provisioning")
  <2>1. c \in ConfRow /\ c.state = "consumed" /\ cwconf' = [cwconf EXCEPT ![e] = c]
    BY <1>5, ConfWritten DEF BeginExecution
  <2>2. /\ x \in ExecRow /\ x.state = "provisioning" /\ cwexec' = [cwexec EXCEPT ![e] = x]
    BY <1>5, ExecWritten DEF BeginExecution, ExecAs, LiveRun
  <2>3. cwres' = [cwres EXCEPT ![e] = r]
    BY <1>5 DEF BeginExecution
  <2>4. /\ cwexec[e].state \in LiveRun /\ answered[e] = 0 /\ cwturn = "waiting"
        /\ \A f \in CWRuns \ {e} : cwexec[f].state \notin LiveRun
    BY <1>5, LiveTaskLiveRun, LiveIsAlone DEF LiveTask
  <2>5. cwslots' = cwslots + Runs(t) - Runs(cwtask[e])
    BY <1>0, <1>2, <1>5 DEF Runs
  <2>6. ~c.released
    <3>1. ~cwconf[e].released
      BY <1>5, LiveTaskLiveRun DEF LiveTask
    <3> QED  BY <3>1, ConfWritten
  <2> HIDE DEF t, c, x, r
  <2>7. Writes(e, t, c, r, x, answered[e])
    BY <1>1, <2>1, <2>2, <2>3, RowsKept DEF Writes
  <2>8. RunFits(t, c, r, x, answered[e], cwturn')
    BY <1>1, <1>2, <1>3, <2>1, <2>2, <2>4, <2>6 DEF RunFits, LiveTask, LiveRun
  <2>9. x.state \in LiveRun
    BY <2>2 DEF LiveRun
  <2> QED  BY <1>1, <1>2, <1>3, <1>4, <2>1, <2>2, <2>4, <2>5, <2>7, <2>8, <2>9, WritesKeepRows
<1>6. CASE Reclaimable(e) /\ Rebind(e) /\ UNCHANGED <<cwconf, cwexec, cwslots>>
  <2>1. cwtask[e].status = "running" /\ UNCHANGED cwconf /\ UNCHANGED cwexec /\ UNCHANGED cwslots
    BY <1>6 DEF Reclaimable
  <2>2. RunFits(cwtask[e], cwconf[e], cwres[e], cwexec[e], answered[e], cwturn)
    BY RowsKept
  <2>3. /\ cwres[e].active = TRUE /\ cwres[e].epoch = cwtask[e].epoch
        /\ cwres[e].rev = cwtask[e].rev
    BY <2>1, <2>2 DEF RunFits
  <2>4. cwres' = [cwres EXCEPT ![e] = r]
    <3> DEFINE q == [cwres[e] EXCEPT !.epoch = @ + 1, !.rev = @ + 1]
    <3>1. cwres' = [cwres EXCEPT ![e] = q]
      BY <1>6, RowsAreTyped DEF Rebind
    <3>2. q \in HoldRow
      <4>1. \A u \in HoldRow : [u EXCEPT !.epoch = @ + 1] \in HoldRow
        BY DEF HoldRow
      <4>2. \A u \in HoldRow : [u EXCEPT !.rev = @ + 1] \in HoldRow
        BY DEF HoldRow
      <4> QED  BY <1>0, <4>1, <4>2
    <3>3. q.active = TRUE /\ q.epoch = r.epoch /\ q.rev = r.rev
      BY <1>0, <2>3 DEF HoldRow
    <3>4. q = r
      <4>1. PICK m \in Nat, n \in Nat : m = cwtask[e].epoch + 1 /\ n = cwtask[e].rev + 1
        BY <1>0 DEF TaskRow
      <4>2. q.active = TRUE /\ q.epoch = m /\ q.rev = n
        BY <3>3, <4>1
      <4> HIDE DEF q
      <4>3. q = [active |-> TRUE, epoch |-> m, rev |-> n]
        BY <3>2, <4>2, HoldRowIs
      <4> QED  BY <4>1, <4>3
    <3> HIDE DEF q, r
    <3> QED  BY <3>1, <3>4
  <2>5. /\ cwexec[e].state \in LiveRun /\ cwturn = "waiting"
        /\ \A f \in CWRuns \ {e} : cwexec[f].state \notin LiveRun
    BY <2>1, LiveTaskLiveRun, LiveIsAlone DEF LiveTask
  <2>6. cwslots' = cwslots + Runs(t) - Runs(cwtask[e])
    BY <1>0, <1>2, <2>1 DEF Runs
  <2> HIDE DEF t, r
  <2>7. Writes(e, t, cwconf[e], r, cwexec[e], answered[e])
    BY <1>1, <2>1, <2>4, RowsKept DEF Writes
  <2>8. RunFits(t, cwconf[e], r, cwexec[e], answered[e], cwturn')
    BY <1>1, <1>2, <1>3, <2>1, <2>2 DEF RunFits, LiveTask, LiveRun
  <2> QED  BY <1>1, <1>2, <1>3, <1>4, <2>1, <2>5, <2>6, <2>7, <2>8, RowsKept, WritesKeepRows
<1> QED  BY <1>5, <1>6 DEF ClaimCloudTask

(* Begin notes on the execution that its handler runs.                     *)
LEMMA BeginRunKeepsRows ==
    ASSUME RowsInd, NEW h \in CWHandlers, cwhand[h].run \in CWRuns, BeginRun(h)
    PROVE  RowsInd' /\ EndedStays /\ answered' = answered
<1> DEFINE e == cwhand[h].run
           x == IF cwexec[e].state = "provisioning" THEN ExecAs(e, "running") ELSE cwexec[e]
<1>1. /\ Authorized(h)
      /\ IF cwexec[e].state = "provisioning" THEN SaveExecution(e, "running") ELSE UNCHANGED cwexec
      /\ UNCHANGED cwtask /\ UNCHANGED cwconf /\ UNCHANGED cwres /\ UNCHANGED cwturn
      /\ UNCHANGED cwdeleted /\ UNCHANGED cwslots /\ UNCHANGED answered
  BY DEF BeginRun
<1>2. cwtask[e].status = "running" /\ cwexec[e].state \in {"provisioning", "running"}
  BY <1>1 DEF Authorized, Fenced
<1>3. x \in ExecRow /\ x.state = "running" /\ cwexec' = [cwexec EXCEPT ![e] = x]
  <2>1. CASE cwexec[e].state = "provisioning"
    <3>1. "running" \in LiveRun
      BY DEF LiveRun
    <3>2. x \in ExecRow /\ cwexec' = [cwexec EXCEPT ![e] = x]
      BY <1>1, <2>1, <3>1, ExecWritten
    <3> QED  BY <2>1, <3>2 DEF ExecAs
  <2>2. CASE cwexec[e].state # "provisioning"
    BY <1>1, <1>2, <2>2, RowsKept
  <2> QED  BY <2>1, <2>2
<1>4. /\ cwexec[e].state \in LiveRun /\ cwturn = "waiting"
      /\ \A f \in CWRuns \ {e} : cwexec[f].state \notin LiveRun
  BY <1>2, LiveTaskLiveRun, LiveIsAlone DEF LiveTask
<1>5. RunFits(cwtask[e], cwconf[e], cwres[e], cwexec[e], answered[e], cwturn)
  BY RowsKept
<1>6. answered[e] = 0 /\ ~cwconf[e].released
  BY <1>2, LiveTaskLiveRun DEF LiveTask
<1> HIDE DEF x
<1>7. Writes(e, cwtask[e], cwconf[e], cwres[e], x, answered[e])
  BY <1>1, <1>3, RowsKept DEF Writes
<1>8. RunFits(cwtask[e], cwconf[e], cwres[e], x, answered[e], cwturn')
  BY <1>1, <1>2, <1>3, <1>4, <1>5, <1>6 DEF RunFits, LiveTask, LiveRun
<1>9. /\ cwtask[e] \in TaskRow /\ cwconf[e] \in ConfRow /\ cwres[e] \in HoldRow
      /\ answered[e] \in Nat /\ cwturn' \in TurnStates /\ x.state \in LiveRun /\ e \in CWRuns
  BY <1>1, <1>3, RowsKept, RowsAreTyped DEF LiveRun
<1>10. cwslots' = cwslots + Runs(cwtask[e]) - Runs(cwtask[e])
  BY <1>1, RowsAreTyped DEF Runs
<1> HIDE DEF e
<1>11. RowsInd' /\ EndedStays
  BY <1>1, <1>3, <1>4, <1>7, <1>8, <1>9, <1>10, WritesKeepRows
<1> QED  BY <1>1, <1>11

(* The end of a run gives the turn its result.                             *)
LEMMA EndRunKeepsRows ==
    ASSUME RowsInd, NEW h \in CWHandlers, cwhand[h].run \in CWRuns,
           NEW s \in {"succeeded", "failed"}, EndRun(h, s)
    PROVE  /\ RowsInd' /\ EndedStays
           /\ \A f \in CWRuns : answered'[f] # answered[f] =>
                 /\ f = cwhand[h].run /\ cwhand[h].epoch = cwtask[f].epoch
                 /\ answered[f] = 0 /\ cwturn = "waiting" /\ cwturn' = "accepted"
                 /\ cwexec[f].state \in LiveRun /\ cwexec'[f].state = cwtask'[f].status
<1> DEFINE e == cwhand[h].run
           t == TaskAs(e, s)
           c == [cwconf[e] EXCEPT !.released = TRUE, !.rev = @ + 1]
           r == [cwres[e] EXCEPT !.active = FALSE]
           x == ExecAs(e, s)
           a == answered[e] + 1
<1>0. /\ cwtask[e] \in TaskRow /\ cwconf[e] \in ConfRow /\ cwres[e] \in HoldRow
      /\ cwconf \in [CWRuns -> ConfRow] /\ cwslots \in Int /\ answered[e] \in Nat
      /\ answered \in [CWRuns -> Nat]
  BY RowsAreTyped
<1>1. /\ Fenced(h) /\ TaskBecomes(e, s) /\ SaveExecution(e, s)
      /\ cwconf' = [cwconf EXCEPT ![e] = c]
      /\ cwres' = [cwres EXCEPT ![e] = r]
      /\ cwslots' = cwslots - 1 /\ cwturn' = "accepted" /\ cwturn = "waiting"
      /\ answered' = [answered EXCEPT ![e] = a] /\ UNCHANGED cwdeleted
  BY <1>0 DEF EndRun
<1>2. cwtask[e].status = "running" /\ cwtask[e].epoch = cwhand[h].epoch
  BY <1>1 DEF Fenced
<1>3. t \in TaskRow /\ t.status = s /\ t.leased = FALSE /\ cwtask' = [cwtask EXCEPT ![e] = t]
  BY <1>1, TaskWritten
<1>4. x \in ExecRow /\ x.state = s /\ cwexec' = [cwexec EXCEPT ![e] = x]
  BY <1>1, ExecWritten DEF ExecAs
<1>5. c \in ConfRow /\ r \in HoldRow /\ a \in Nat
  <2>1. \A u \in ConfRow : [u EXCEPT !.released = TRUE] \in ConfRow
    BY DEF ConfRow
  <2>2. \A u \in ConfRow : [u EXCEPT !.rev = @ + 1] \in ConfRow
    BY DEF ConfRow
  <2>3. c \in ConfRow
    BY <1>0, <2>1, <2>2
  <2>4. r \in HoldRow
    BY <1>0 DEF HoldRow
  <2> QED  BY <1>0, <2>3, <2>4
<1>6. /\ cwexec[e].state \in LiveRun /\ answered[e] = 0
      /\ \A f \in CWRuns \ {e} : cwexec[f].state \notin LiveRun
  BY <1>2, LiveTaskLiveRun, LiveIsAlone DEF LiveTask
<1>7. cwslots' = cwslots + Runs(t) - Runs(cwtask[e])
  BY <1>0, <1>1, <1>2, <1>3 DEF Runs
<1>8. answered'[e] = a /\ \A f \in CWRuns \ {e} : answered'[f] = answered[f]
  BY <1>0, <1>1
<1> HIDE DEF t, c, r, x, a
<1>9. Writes(e, t, c, r, x, a)
  BY <1>1, <1>3, <1>4 DEF Writes
<1>10. RunFits(t, c, r, x, a, cwturn')
  BY <1>3, <1>4 DEF RunFits, LiveTask, LiveRun
<1>11. cwturn' \in TurnStates /\ cwturn' # "waiting" /\ x.state \notin LiveRun /\ e \in CWRuns
  BY <1>1, <1>4 DEF TurnStates, LiveRun
<1>12. cwexec'[e].state = cwtask'[e].status
  BY <1>3, <1>4, RowsAreTyped
<1>13. RowsInd' /\ EndedStays
  <2> HIDE DEF e
  <2> QED  BY <1>1, <1>3, <1>4, <1>5, <1>6, <1>7, <1>9, <1>10, <1>11, WritesKeepRows
<1> QED  BY <1>1, <1>2, <1>6, <1>8, <1>12, <1>13

(* Steps of the turn, when no execution is live, and a deletion.           *)
LEMMA TurnKeepsRows ==
    ASSUME RowsInd, TurnGoesOn
    PROVE  RowsInd' /\ EndedStays /\ answered' = answered
<1>1. /\ UNCHANGED cwtask /\ UNCHANGED cwconf /\ UNCHANGED cwres /\ UNCHANGED cwexec
      /\ UNCHANGED cwdeleted /\ UNCHANGED cwslots /\ UNCHANGED answered
      /\ cwturn # "waiting" /\ cwturn' # "waiting" /\ cwturn' \in TurnStates
  BY DEF TurnGoesOn, TurnStates, EndedTurn
<1>2. \A e \in CWRuns : cwexec[e].state \notin LiveRun
  BY <1>1, LiveIsAlone
<1>3. RowsTyped'
  BY <1>1 DEF RowsInd, RowsTyped, CWTypeOK, TurnStates
<1>4. RunsFit'
  BY <1>1, <1>2 DEF RowsInd, RunsFit, RunFits
<1>5. OneRun' /\ CWSlotsExact' /\ Parked'
  BY <1>1 DEF RowsInd, OneRun, CWSlotsExact, Parked
<1> QED  BY <1>1, <1>3, <1>4, <1>5 DEF RowsInd, EndedStays

LEMMA DeletionKeepsRows ==
    ASSUME RowsInd, UNCHANGED <<cwtask, cwconf, cwres, cwexec, cwturn, cwslots, answered>>,
           cwdeleted' = cwdeleted \/ cwdeleted'
    PROVE  RowsInd' /\ EndedStays /\ answered' = answered
<1>1. RowsTyped' /\ RunsFit' /\ OneRun' /\ CWSlotsExact'
  BY DEF RowsInd, RowsTyped, CWTypeOK, RunsFit, RunFits, OneRun, CWSlotsExact
<1>2. Parked'
  BY DEF RowsInd, Parked
<1> QED  BY <1>1, <1>2 DEF RowsInd, EndedStays

(* The handlers keep their shape.                                          *)
LEMMA HandKept ==
    ASSUME HandsTyped, NEW h \in CWHandlers, NEW w \in HandRow, w.pc # "idle" => w.run \in CWRuns,
           cwhand' = [cwhand EXCEPT ![h] = w]
    PROVE  HandsTyped'
  BY DEF HandsTyped

LEMMA HandReturnsKept ==
    ASSUME HandsTyped, NEW h \in CWHandlers, HandReturns(h)
    PROVE  HandsTyped'
<1>1. NoHand \in HandRow /\ NoHand.pc = "idle"
  BY DEF NoHand, HandRow
<1> QED  BY <1>1, HandKept DEF HandReturns

Pcs == {"claimed", "begun", "working", "complete", "fail", "unsure", "failing"}

LEMMA HandGoesKept ==
    ASSUME HandsTyped, NEW h \in CWHandlers, cwhand[h].pc # "idle", NEW pc \in Pcs, HandGoes(h, pc)
    PROVE  HandsTyped' /\ cwhand'[h].pc = pc
<1> DEFINE w == [cwhand[h] EXCEPT !.pc = pc]
<1>1. cwhand[h] \in HandRow /\ cwhand[h].run \in CWRuns /\ cwhand \in [CWHandlers -> HandRow]
  BY DEF HandsTyped
<1>2. w \in HandRow /\ w.run \in CWRuns /\ w.pc = pc
  BY <1>1 DEF HandRow, Pcs
<1>3. cwhand' = [cwhand EXCEPT ![h] = w]
  BY DEF HandGoes
<1> HIDE DEF w
<1> QED  BY <1>1, <1>2, <1>3, HandKept

LEMMA ClaimKeepsHands ==
    ASSUME RowsInd, HandsTyped, NEW e \in CWRuns, NEW h \in CWHandlers, ClaimCloudTask(e, h)
    PROVE  HandsTyped'
<1> DEFINE n == cwtask[e].epoch + 1
           m == cwtask[e].rev + 1
           w == [NoHand EXCEPT !.pc = "claimed", !.run = e, !.epoch = n, !.rev = m]
<1>1. cwtask \in [CWRuns -> TaskRow] /\ n \in Nat /\ m \in Nat
  BY RowsAreTyped DEF TaskRow
<1>2. cwtask'[e].epoch = n /\ cwtask'[e].rev = m
  BY <1>1 DEF ClaimCloudTask
<1>3. cwhand' = [cwhand EXCEPT ![h] = w]
  <2> HIDE DEF n, m
  <2> QED  BY <1>2 DEF ClaimCloudTask
<1>4. w \in HandRow /\ w.run = e
  <2> HIDE DEF n, m
  <2>1. NoHand \in HandRow
    BY DEF NoHand, HandRow
  <2>2. \A u \in HandRow : [u EXCEPT !.pc = "claimed"] \in HandRow
    BY DEF HandRow
  <2>3. \A u \in HandRow : [u EXCEPT !.run = e] \in HandRow
    BY DEF HandRow
  <2>4. \A u \in HandRow : [u EXCEPT !.epoch = n] \in HandRow
    BY <1>1 DEF HandRow
  <2>5. \A u \in HandRow : [u EXCEPT !.rev = m] \in HandRow
    BY <1>1 DEF HandRow
  <2>6. w \in HandRow
    BY <2>1, <2>2, <2>3, <2>4, <2>5
  <2> QED  BY <2>1, <2>6 DEF HandRow
<1> HIDE DEF w
<1> QED  BY <1>3, <1>4, HandKept

LEMMA BeginRunKeepsHands ==
    ASSUME RowsInd, RowsInd', HandsTyped, NEW h \in CWHandlers, BeginRun(h)
    PROVE  HandsTyped'
<1> DEFINE n == cwexec'[cwhand[h].run].rev
           m == cwconf[cwhand[h].run].rev
           w == [cwhand[h] EXCEPT !.pc = "begun", !.erev = n, !.proof = m]
<1>1. /\ cwhand \in [CWHandlers -> HandRow] /\ cwhand[h] \in HandRow /\ cwhand[h].run \in CWRuns
      /\ cwhand[h].pc = "claimed"
  BY DEF HandsTyped, BeginRun
<1>2. n \in Nat /\ m \in Nat
  BY <1>1 DEF RowsInd, RowsTyped, CWTypeOK
<1> HIDE DEF n, m
<1>3. CASE HandReturns(h)
  BY <1>3, HandReturnsKept
<1>4. CASE cwhand' = [cwhand EXCEPT ![h].pc = "begun", ![h].erev = n, ![h].proof = m]
  <2>1. cwhand' = [cwhand EXCEPT ![h] = w]
    BY <1>1, <1>4
  <2>2. w \in HandRow
    <3>1. \A u \in HandRow : [u EXCEPT !.pc = "begun"] \in HandRow
      BY DEF HandRow
    <3>2. \A u \in HandRow : [u EXCEPT !.erev = n] \in HandRow
      BY <1>2 DEF HandRow
    <3>3. \A u \in HandRow : [u EXCEPT !.proof = m] \in HandRow
      BY <1>2 DEF HandRow
    <3> QED  BY <1>1, <3>1, <3>2, <3>3
  <2>3. w.run \in CWRuns
    BY <1>1 DEF HandRow
  <2> HIDE DEF w
  <2> QED  BY <2>1, <2>2, <2>3, HandKept
<1> QED  BY <1>3, <1>4 DEF BeginRun, n, m

LEMMA ReportKeepsHands ==
    ASSUME HandsTyped, NEW h \in CWHandlers, Report(h)
    PROVE  HandsTyped'
<1> DEFINE n == cwhand[h].rev + 1
           m == cwhand[h].reports + 1
           w == [cwhand[h] EXCEPT !.pc = "working", !.rev = n, !.reports = m]
<1>1. /\ cwhand \in [CWHandlers -> HandRow] /\ cwhand[h] \in HandRow /\ cwhand[h].run \in CWRuns
      /\ cwhand[h].pc # "idle"
  BY DEF HandsTyped, Report
<1>2. CASE HandGoes(h, "fail")
  BY <1>1, <1>2, HandGoesKept DEF Pcs
<1>3. CASE cwhand' = [cwhand EXCEPT ![h].pc = "working", ![h].rev = @ + 1, ![h].reports = @ + 1]
  <2>1. cwhand' = [cwhand EXCEPT ![h] = w]
    BY <1>1, <1>3
  <2>2. w \in HandRow
    <3>1. \A u \in HandRow : [u EXCEPT !.pc = "working"] \in HandRow
      BY DEF HandRow
    <3>2. n \in Nat /\ m \in Nat
      BY <1>1 DEF HandRow
    <3> HIDE DEF n, m
    <3>3. \A u \in HandRow : [u EXCEPT !.rev = n] \in HandRow
      BY <3>2 DEF HandRow
    <3>4. \A u \in HandRow : [u EXCEPT !.reports = m] \in HandRow
      BY <3>2 DEF HandRow
    <3> QED  BY <1>1, <3>1, <3>3, <3>4
  <2>3. w.run \in CWRuns
    BY <1>1 DEF HandRow
  <2> HIDE DEF w
  <2> QED  BY <2>1, <2>2, <2>3, HandKept
<1> QED  BY <1>2, <1>3 DEF Report

(* A result is new, and given by the handler of the last claim.            *)
ResultIsNew ==
    \A e \in CWRuns : answered'[e] # answered[e] =>
        /\ answered[e] = 0 /\ cwturn = "waiting" /\ cwturn' = "accepted"
        /\ cwexec[e].state \in LiveRun /\ cwexec'[e].state = cwtask'[e].status
        /\ \E h \in CWHandlers :
              /\ cwhand'[h] # cwhand[h]
              /\ cwhand[h].run = e /\ cwhand[h].epoch = cwtask[e].epoch

LEMMA EndRunIsNew ==
    ASSUME RowsInd, HandsTyped, NEW h \in CWHandlers, cwhand[h].pc # "idle",
           NEW s \in {"succeeded", "failed"}, EndRun(h, s), cwhand'[h].pc # cwhand[h].pc
    PROVE  RowsInd' /\ EndedStays /\ ResultIsNew
<1>1. cwhand[h].run \in CWRuns
  BY DEF HandsTyped
<1>2. cwhand'[h] # cwhand[h]
  OBVIOUS
<1> QED  BY <1>1, <1>2, EndRunKeepsRows DEF ResultIsNew

LEMMA RowsUntouched ==
    ASSUME RowsInd, UNCHANGED cwRows
    PROVE  RowsInd' /\ EndedStays /\ ResultIsNew
  BY DeletionKeepsRows DEF cwRows, ResultIsNew

LEMMA ReturnedIsIdle ==
    ASSUME HandsTyped, NEW h \in CWHandlers, HandReturns(h)
    PROVE  cwhand'[h].pc = "idle"
  BY DEF HandsTyped, HandReturns, NoHand

(* Every step keeps the rows and the handlers and owes the two facts.      *)
LEMMA CloudWorkerStep ==
    ASSUME CWInd, [CWNext]_cwVars
    PROVE  CWInd' /\ EndedStays /\ ResultIsNew
<1> DEFINE Goal == RowsInd' /\ HandsTyped' /\ EndedStays /\ ResultIsNew
<1>0. RowsInd /\ HandsTyped
  BY DEF CWInd, RowsInd
<1>a. UNCHANGED cwhand => HandsTyped'
  BY <1>0 DEF HandsTyped
<1>b. answered' = answered => ResultIsNew
  BY DEF ResultIsNew
<1>c. ASSUME NEW h \in CWHandlers, cwhand[h].pc # "idle" PROVE cwhand[h].run \in CWRuns
  BY <1>0, <1>c DEF HandsTyped
<1>1. ASSUME NEW e \in CWRuns, CreateOffer(e) PROVE Goal
  BY <1>0, <1>1, <1>a, <1>b, CreateOfferKeepsRows DEF CreateOffer
<1>2. ASSUME NEW e \in CWRuns, ConfirmOffer(e) PROVE Goal
  BY <1>0, <1>2, <1>a, <1>b, ConfirmOfferKeepsRows DEF ConfirmOffer
<1>3. ASSUME NEW e \in CWRuns, RejectOffer(e) PROVE Goal
  BY <1>0, <1>3, <1>a, <1>b, RejectOfferKeepsRows DEF RejectOffer
<1>4. ASSUME NEW e \in CWRuns, ExpireOffer(e) PROVE Goal
  BY <1>0, <1>4, <1>a, <1>b, ExpireOfferKeepsRows DEF ExpireOffer
<1>5. ASSUME NEW e \in CWRuns, RequestCancel(e) \/ StopTurn(e) PROVE Goal
  <2>1. CancelExecutions({e})
    BY <1>5 DEF RequestCancel, StopTurn
  <2>2. UNCHANGED cwhand
    BY <2>1 DEF CancelExecutions
  <2> QED  BY <1>0, <2>1, <2>2, <1>a, <1>b, CancelKeepsRows
<1>6. ASSUME NEW e \in CWRuns, CancelCloudTask(e) PROVE Goal
  BY <1>0, <1>6, <1>a, <1>b, CancelTaskKeepsRows DEF CancelCloudTask
<1>7. ASSUME NEW e \in CWRuns, LeaseRunsOut(e) PROVE Goal
  <2>1. cwtask[e].status = "running"
    BY <1>0, <1>7, RowsKept DEF LeaseRunsOut, RunFits
  <2>2. /\ cwtask' = [cwtask EXCEPT ![e].leased = FALSE] /\ UNCHANGED cwconf /\ UNCHANGED cwres
        /\ UNCHANGED cwexec /\ UNCHANGED cwturn /\ UNCHANGED cwdeleted /\ UNCHANGED cwslots
        /\ UNCHANGED answered /\ UNCHANGED cwhand
    BY <1>7 DEF LeaseRunsOut
  <2> QED  BY <1>0, <2>1, <2>2, <1>a, <1>b, LeaseFlipKeepsRows
<1>8. ASSUME NEW e \in CWRuns, NEW h \in CWHandlers, ClaimCloudTask(e, h) PROVE Goal
  <2>1. answered' = answered
    BY <1>8 DEF ClaimCloudTask
  <2> QED  BY <1>0, <1>8, <1>b, <2>1, ClaimKeepsRows, ClaimKeepsHands
<1>9. ASSUME NEW h \in CWHandlers, BeginRun(h) PROVE Goal
  <2>1. cwhand[h].run \in CWRuns
    BY <1>9, <1>c DEF BeginRun
  <2>2. RowsInd' /\ EndedStays /\ answered' = answered
    BY <1>0, <1>9, <2>1, BeginRunKeepsRows
  <2>3. HandsTyped'
    BY <1>0, <1>9, <2>2, BeginRunKeepsHands
  <2> QED  BY <2>2, <2>3, <1>b
<1>10. ASSUME NEW h \in CWHandlers, Report(h) PROVE Goal
  <2>1. cwhand[h].run \in CWRuns /\ ProgressWrites(h)
    BY <1>10, <1>c DEF Report
  <2> QED  BY <1>0, <1>10, <1>b, <2>1, ProgressKeepsRows, ReportKeepsHands
<1>11. ASSUME NEW h \in CWHandlers, ReportFails(h) \/ ExecutorReturns(h) PROVE Goal
  <2>1. /\ UNCHANGED cwRows /\ cwhand[h].pc # "idle"
        /\ \E pc \in Pcs : HandGoes(h, pc)
    BY <1>11 DEF ReportFails, ExecutorReturns, Pcs
  <2> QED  BY <1>0, <2>1, RowsUntouched, HandGoesKept
<1>12. ASSUME NEW h \in CWHandlers, LastReport(h) PROVE Goal
  <2>1. cwhand[h].run \in CWRuns /\ HandReturns(h) /\ (ProgressWrites(h) \/ UNCHANGED cwRows)
    BY <1>12, <1>c DEF LastReport
  <2> QED  BY <1>0, <1>b, <2>1, ProgressKeepsRows, RowsUntouched, HandReturnsKept
<1>13. ASSUME NEW h \in CWHandlers, Complete(h) PROVE Goal
  <2>1. /\ cwhand[h].pc = "complete" /\ HandReturns(h)
        /\ EndRun(h, "succeeded") \/ UNCHANGED cwRows
    BY <1>13 DEF Complete
  <2>2. cwhand'[h].pc # cwhand[h].pc /\ HandsTyped'
    BY <1>0, <2>1, ReturnedIsIdle, HandReturnsKept
  <2>3. CASE EndRun(h, "succeeded")
    BY <1>0, <2>1, <2>2, <2>3, EndRunIsNew
  <2>4. CASE UNCHANGED cwRows
    BY <1>0, <2>2, <2>4, RowsUntouched
  <2> QED  BY <2>1, <2>3, <2>4
<1>14. ASSUME NEW h \in CWHandlers, Fail(h) PROVE Goal
  <2>1. /\ cwhand[h].pc = "fail" /\ (HandReturns(h) \/ HandGoes(h, "failing"))
        /\ EndRun(h, "failed") \/ UNCHANGED cwRows
    BY <1>14 DEF Fail
  <2>2. cwhand'[h].pc # cwhand[h].pc /\ HandsTyped'
    <3>1. CASE HandReturns(h)
      BY <1>0, <2>1, <3>1, ReturnedIsIdle, HandReturnsKept
    <3>2. CASE HandGoes(h, "failing")
      <4>1. "failing" \in Pcs
        BY DEF Pcs
      <4> QED  BY <1>0, <2>1, <3>2, <4>1, HandGoesKept
    <3> QED  BY <2>1, <3>1, <3>2
  <2>3. CASE EndRun(h, "failed")
    BY <1>0, <2>1, <2>2, <2>3, EndRunIsNew
  <2>4. CASE UNCHANGED cwRows
    BY <1>0, <2>2, <2>4, RowsUntouched
  <2> QED  BY <2>1, <2>3, <2>4
<1>15. ASSUME NEW h \in CWHandlers, HandlerEnds(h) PROVE Goal
  BY <1>0, <1>15, RowsUntouched, HandReturnsKept DEF HandlerEnds
<1>16. ASSUME NEW h \in CWHandlers, RenewLate(h) PROVE Goal
  <2>1. PICK e \in CWRuns : e = cwhand[h].run
    BY <1>16, <1>c DEF RenewLate
  <2>2. /\ cwtask[e].status = "running"
        /\ cwtask' = [cwtask EXCEPT ![e].leased = TRUE] /\ UNCHANGED cwconf /\ UNCHANGED cwres
        /\ UNCHANGED cwexec /\ UNCHANGED cwturn /\ UNCHANGED cwdeleted /\ UNCHANGED cwslots
        /\ UNCHANGED answered /\ UNCHANGED cwhand
    BY <1>16, <2>1 DEF RenewLate
  <2> QED  BY <1>0, <2>2, <1>a, <1>b, LeaseFlipKeepsRows
<1>17. ASSUME TurnGoesOn PROVE Goal
  BY <1>0, <1>17, <1>a, <1>b, TurnKeepsRows DEF TurnGoesOn
<1>18. ASSUME DeleteConversation PROVE Goal
  BY <1>0, <1>18, <1>a, <1>b, DeletionKeepsRows DEF DeleteConversation
<1>19. ASSUME StopWorkerExecutions PROVE Goal
  <2>1. UNCHANGED cwhand
    BY <1>19 DEF StopWorkerExecutions, CancelExecutions
  <2> QED  BY <1>0, <1>19, <2>1, <1>a, <1>b, StopAllKeepsRows
<1>20. ASSUME UNCHANGED cwVars PROVE Goal
  <2>1. UNCHANGED cwRows /\ UNCHANGED cwhand
    BY <1>20 DEF cwVars, cwRows
  <2>2. RowsInd' /\ EndedStays /\ ResultIsNew
    BY <1>0, <2>1, RowsUntouched
  <2> QED  BY <1>a, <2>1, <2>2
<1>21. Goal
  <2> HIDE DEF Goal
  <2>1. ASSUME NEW e \in CWRuns,
               \/ CreateOffer(e) \/ ConfirmOffer(e) \/ RejectOffer(e) \/ ExpireOffer(e)
               \/ RequestCancel(e) \/ StopTurn(e) \/ CancelCloudTask(e) \/ LeaseRunsOut(e)
               \/ \E h \in CWHandlers : ClaimCloudTask(e, h)
        PROVE  Goal
    BY <2>1, <1>1, <1>2, <1>3, <1>4, <1>5, <1>6, <1>7, <1>8
  <2>2. ASSUME NEW h \in CWHandlers,
               \/ BeginRun(h) \/ Report(h) \/ ReportFails(h) \/ ExecutorReturns(h) \/ LastReport(h)
               \/ Complete(h) \/ Fail(h) \/ HandlerEnds(h) \/ RenewLate(h)
        PROVE  Goal
    BY <2>2, <1>9, <1>10, <1>11, <1>12, <1>13, <1>14, <1>15, <1>16
  <2> QED  BY <2>1, <2>2, <1>17, <1>18, <1>19, <1>20 DEF CWNext
<1> QED  BY <1>21 DEF CWInd, RowsInd

LEMMA CloudWorkerStarts ==
    ASSUME CWInit
    PROVE  CWInd
<1>1. RowsTyped
  BY DEF CWInit, RowsTyped, CWTypeOK, HoldRow, LiveTask, LiveRun
<1>2. HandsTyped
  BY DEF CWInit, HandsTyped, HandRow, NoHand
<1>3. RunsFit
  BY DEF CWInit, RunsFit, RunFits, LiveTask, LiveRun
<1>4. OneRun /\ Parked
  BY DEF CWInit, OneRun, Parked, LiveRun
<1>5. CWSlotsExact
  <2>1. {e \in CWRuns : cwtask[e].status = "running"} = {}
    BY DEF CWInit
  <2> QED  BY <2>1, FS_EmptySet DEF CWInit, CWSlotsExact
<1> QED  BY <1>1, <1>2, <1>3, <1>4, <1>5 DEF CWInd

LEMMA CloudWorkerImplied ==
    ASSUME CWInd
    PROVE  CloudWorkerInv
<1>1. CWTypeOK /\ CWSlotsExact
  BY DEF CWInd, RowsTyped
<1>2. LiveRunComplete
  BY DEF CWInd, RunsFit, RunFits, LiveRunComplete, LiveTask, LiveRun
<1>3. \A e \in CWRuns : cwexec[e].state \in LiveRun => cwtask[e].status \in LiveTask \/ Orphaned(e)
  BY DEF CWInd, RunsFit, RunFits, Orphaned
<1>4. Cardinality({e \in CWRuns : cwexec[e].state \in LiveRun}) <= 1
  <2> DEFINE S == {e \in CWRuns : cwexec[e].state \in LiveRun}
  <2>1. CASE S = {}
    BY <2>1, FS_EmptySet
  <2>2. CASE S # {}
    <3>1. PICK e : e \in S
      BY <2>2
    <3>2. S = {e}
      BY <3>1 DEF CWInd, OneRun
    <3>3. Cardinality(S) = 1
      BY <3>2, FS_Singleton
    <3> QED  BY <3>3
  <2> QED  BY <2>1, <2>2
<1>5. ParkedTurnHasRun
  BY <1>3, <1>4 DEF CWInd, Parked, ParkedTurnHasRun
<1> QED  BY <1>1, <1>2, <1>5 DEF CloudWorkerInv

(* The rows of a Cloud Worker execution agree, whatever claims, reports,   *)
(* stops and expiries meet: a live task can be claimed, rebound and        *)
(* stopped, the slot counter is exact, and a parked turn has its one run.  *)
THEOREM CloudWorkerRowsAgree == CWSpec => []CloudWorkerInv
<1>1. CWInit => CWInd
  BY CloudWorkerStarts
<1>2. CWInd /\ [CWNext]_cwVars => CWInd'
  BY CloudWorkerStep
<1>3. CWInd => CloudWorkerInv
  BY CloudWorkerImplied
<1> QED  BY <1>1, <1>2, <1>3, PTL DEF CWSpec

(* SSHWorkerStore.terminal gives the turn one result of an execution, and  *)
(* no late handler, report or stop changes the rows of one that ended.     *)
THEOREM ResultIsGivenOnce == CWSpec => ResultGivenOnce
<1>1. CWInit => CWInd
  BY CloudWorkerStarts
<1>2. CWInd /\ [CWNext]_cwVars => CWInd'
  BY CloudWorkerStep
<1>3. CWInd /\ [CWNext]_cwVars =>
        [\A e \in CWRuns :
           /\ answered'[e] # answered[e] =>
                /\ answered[e] = 0 /\ cwturn = "waiting" /\ cwturn' = "accepted"
                /\ cwexec[e].state \in LiveRun /\ cwexec'[e].state = cwtask'[e].status
                /\ \E h \in CWHandlers :
                      /\ cwhand'[h] # cwhand[h]
                      /\ cwhand[h].run = e /\ cwhand[h].epoch = cwtask[e].epoch
           /\ cwexec[e].state \notin LiveRun \cup {"none"} =>
                cwexec'[e] = cwexec[e] /\ cwtask'[e] = cwtask[e] /\ cwconf'[e] = cwconf[e]
        ]_cwVars
  BY CloudWorkerStep DEF EndedStays, ResultIsNew
<1> QED  BY <1>1, <1>2, <1>3, PTL DEF CWSpec, ResultGivenOnce

-----------------------------------------------------------------------------
(***************************************************************************)
(* Credential tests.  A call that got past BeginCredentialTest owns its    *)
(* key: no other call is there, its claim is not settled by anyone else,   *)
(* and until it has called the provider nobody has.                        *)
(***************************************************************************)
Claims == [state : {"none", "in_progress", "completed", "failed", "uncertain"},
           response : SUBSET CTIdentities]
Creds == [rev : 0..CTRevisions, live : BOOLEAN, verified : Nat, account : SUBSET CTIdentities]
TestPcs == {"sts", "complete", "failed", "uncertain"}
Tests == [pc : TestPcs, key : CTKeys, cred : CTCreds, rev : 1..CTRevisions,
          ident : SUBSET CTIdentities]

CTTyped ==
    /\ ctcred \in [CTCreds -> Creds]
    /\ ctevid \in [CTCreds -> [1..CTRevisions -> SUBSET CTIdentities]]
    /\ ctclaim \in [CTKeys -> Claims]
    /\ ctsts \in [CTKeys -> Nat]
    /\ cttold = [k \in CTKeys |-> cttold[k]]

(* A call has the fields of where it is, and a test those of its key.      *)
CallTyped(a) ==
    /\ a.pc \in TestPcs \cup {"idle", "begin", "wait", "plain"}
    /\ a.pc \in {"begin", "wait"} => a.key \in CTKeys
    /\ a.pc \in TestPcs =>
          a \in Tests /\ a.cred = CTBinding[a.key].cred /\ a.rev = CTBinding[a.key].rev
    /\ a.pc = "plain" => a.cred \in CTCreds /\ a.rev \in 1..CTRevisions

(* What the stage of a test says of the claim and of the provider.         *)
StageFits(a, claim, sts) ==
    /\ a.pc = "sts" => claim.state = "in_progress" /\ sts = 0
    /\ a.pc = "complete" => claim.state = "in_progress" /\ a.ident # {}
    /\ a.pc = "failed" => claim.state = "in_progress"
    /\ a.pc = "uncertain" => claim.state \in {"in_progress", "completed"}

Testing(a) == a.pc \in TestPcs

CallsFit ==
    /\ ctcall = [x \in CTCallers |-> ctcall[x]]
    /\ \A x \in CTCallers :
          /\ CallTyped(ctcall[x])
          /\ Testing(ctcall[x]) =>
                StageFits(ctcall[x], ctclaim[ctcall[x].key], ctsts[ctcall[x].key])
    /\ \A x, y \in CTCallers :
          Testing(ctcall[x]) /\ Testing(ctcall[y]) /\ ctcall[x].key = ctcall[y].key => x = y

(* What callers heard, and the provider calls, against the claim.          *)
TellFits(s, claim) ==
    \/ s = <<"uncertain", {}>>
    \/ claim.state = "failed" /\ s = <<"failed", {}>>
    \/ claim.state = "completed" /\ s = <<"identity", claim.response>>

KeyFits(claim, sts, evidence, told) ==
    /\ sts <= 1 /\ (claim.state = "none" => sts = 0)
    /\ claim.state = "completed" => claim.response # {} /\ claim.response = evidence
    /\ \A s \in told : TellFits(s, claim)

KeysFit ==
    \A k \in CTKeys :
        KeyFits(ctclaim[k], ctsts[k], ctevid[CTBinding[k].cred][CTBinding[k].rev], cttold[k])

CredFits(c, evidence) ==
    /\ c.live => c.rev # 0
    /\ c.verified # 0 =>
          c.verified = c.rev /\ c.account # {} /\ evidence[c.rev] = c.account

CredsFit ==
    /\ \A c \in CTCreds : CredFits(ctcred[c], ctevid[c])
    /\ \A c, d \in CTCreds : ctcred[c].live /\ ctcred[d].live => c = d

CTInd == CTTyped /\ CallsFit /\ KeysFit /\ CredsFit

(* One call moves; the other tests keep their claims.                      *)
LEMMA CallMoves ==
    ASSUME CTInd, NEW x \in CTCallers, NEW a, CallTyped(a), ctcall' = [ctcall EXCEPT ![x] = a],
           Testing(a) =>
             /\ StageFits(a, ctclaim'[a.key], ctsts'[a.key])
             /\ \A y \in CTCallers \ {x} : Testing(ctcall[y]) => ctcall[y].key # a.key,
           \A y \in CTCallers \ {x} : Testing(ctcall[y]) =>
              /\ ctclaim'[ctcall[y].key] = ctclaim[ctcall[y].key]
              /\ ctsts'[ctcall[y].key] = ctsts[ctcall[y].key]
    PROVE  CallsFit'
<1>1. CallsFit
  BY DEF CTInd
<1>2. ctcall = [y \in CTCallers |-> ctcall[y]]
  BY <1>1 DEF CallsFit
<1>3. ctcall'[x] = a /\ \A y \in CTCallers \ {x} : ctcall'[y] = ctcall[y]
  BY <1>2
<1>4. ctcall' = [y \in CTCallers |-> ctcall'[y]]
  BY <1>2
<1>5. ASSUME NEW y \in CTCallers
      PROVE  /\ CallTyped(ctcall'[y])
             /\ Testing(ctcall'[y]) =>
                   StageFits(ctcall'[y], ctclaim'[ctcall'[y].key], ctsts'[ctcall'[y].key])
  <2>1. CASE y = x
    BY <1>3, <2>1
  <2>2. CASE y # x
    BY <1>1, <1>3, <2>2 DEF CallsFit
  <2> QED  BY <2>1, <2>2
<1>6. ASSUME NEW y \in CTCallers, NEW z \in CTCallers,
             Testing(ctcall'[y]), Testing(ctcall'[z]), ctcall'[y].key = ctcall'[z].key
      PROVE  y = z
  BY <1>1, <1>3, <1>6 DEF CallsFit
<1> QED  BY <1>4, <1>5, <1>6 DEF CallsFit

(* The rows of one key move, and evidence that is there stays.             *)
EvidenceStays ==
    \A c \in CTCreds : \A r \in 1..CTRevisions : ctevid[c][r] # {} => ctevid'[c][r] = ctevid[c][r]

EvidenceOf(k) == ctevid[CTBinding[k].cred][CTBinding[k].rev]

LEMMA BindingTyped ==
    ASSUME NEW k \in CTKeys
    PROVE  CTBinding[k].cred \in CTCreds /\ CTBinding[k].rev \in 1..CTRevisions
  BY CredentialTestAssumption

LEMMA KeyMoves ==
    ASSUME CTInd, NEW k \in CTKeys, EvidenceStays,
           \A j \in CTKeys \ {k} :
              ctclaim'[j] = ctclaim[j] /\ ctsts'[j] = ctsts[j] /\ cttold'[j] = cttold[j],
           KeyFits(ctclaim'[k], ctsts'[k], EvidenceOf(k)', cttold'[k])
    PROVE  KeysFit'
<1> SUFFICES ASSUME NEW j \in CTKeys
             PROVE  KeyFits(ctclaim'[j], ctsts'[j], EvidenceOf(j)', cttold'[j])
  BY DEF KeysFit, EvidenceOf
<1>1. CASE j = k
  BY <1>1
<1>2. CASE j # k
  <2>1. KeyFits(ctclaim[j], ctsts[j], EvidenceOf(j), cttold[j])
    BY DEF CTInd, KeysFit, EvidenceOf
  <2>2. EvidenceOf(j) # {} => EvidenceOf(j)' = EvidenceOf(j)
    BY BindingTyped DEF EvidenceStays, EvidenceOf
  <2>3. KeyFits(ctclaim[j], ctsts[j], EvidenceOf(j)', cttold[j])
    BY <2>1, <2>2 DEF KeyFits
  <2> QED  BY <1>2, <2>3
<1> QED  BY <1>1, <1>2

LEMMA EvidenceMoves ==
    ASSUME CTInd, EvidenceStays, UNCHANGED ctclaim, UNCHANGED ctsts, UNCHANGED cttold
    PROVE  KeysFit'
<1> SUFFICES ASSUME NEW j \in CTKeys
             PROVE  KeyFits(ctclaim[j], ctsts[j], EvidenceOf(j)', cttold[j])
  BY DEF KeysFit, EvidenceOf
<1>1. KeyFits(ctclaim[j], ctsts[j], EvidenceOf(j), cttold[j])
  BY DEF CTInd, KeysFit, EvidenceOf
<1>2. EvidenceOf(j) # {} => EvidenceOf(j)' = EvidenceOf(j)
  BY BindingTyped DEF EvidenceStays, EvidenceOf
<1> QED  BY <1>1, <1>2 DEF KeyFits

(* An identity that agrees is recorded for its revision only.              *)
LEMMA RecordedFits ==
    ASSUME CTInd, NEW c \in CTCreds, NEW r \in 1..CTRevisions, NEW ident \in SUBSET CTIdentities,
           ident # {}, EvidenceAgrees(c, r, ident), Recorded(c, r, ident)
    PROVE  /\ ctcred' \in [CTCreds -> Creds]
           /\ ctevid' \in [CTCreds -> [1..CTRevisions -> SUBSET CTIdentities]]
           /\ EvidenceStays /\ ctevid'[c][r] = ident /\ CredsFit'
<1>1. /\ ctcred \in [CTCreds -> Creds]
      /\ ctevid \in [CTCreds -> [1..CTRevisions -> SUBSET CTIdentities]]
  BY DEF CTInd, CTTyped
<1>2. ctevid' = [ctevid EXCEPT ![c] = [ctevid[c] EXCEPT ![r] = ident]]
  BY DEF Recorded
<1>3. [ctevid[c] EXCEPT ![r] = ident] \in [1..CTRevisions -> SUBSET CTIdentities]
  BY <1>1
<1>4. ctevid' \in [CTCreds -> [1..CTRevisions -> SUBSET CTIdentities]]
  BY <1>1, <1>2, <1>3
<1>5. /\ \A d \in CTCreds \ {c} : ctevid'[d] = ctevid[d]
      /\ ctevid'[c] = [ctevid[c] EXCEPT ![r] = ident]
  BY <1>1, <1>2
<1>6. ctevid'[c][r] = ident /\ \A q \in 1..CTRevisions \ {r} : ctevid'[c][q] = ctevid[c][q]
  BY <1>1, <1>5
<1>7. EvidenceStays
  BY <1>5, <1>6 DEF EvidenceStays, EvidenceAgrees
<1>8. \A d \in CTCreds : CredFits(ctcred[d], ctevid'[d])
  BY <1>1, <1>7 DEF CTInd, CredsFit, CredFits, EvidenceStays, Creds
<1>9. CASE ~Current(c, r)
  <2>1. ctcred' = ctcred
    BY <1>9 DEF Recorded, VerifyCurrent
  <2>2. CredsFit'
    BY <1>8, <2>1 DEF CTInd, CredsFit
  <2> QED  BY <1>1, <1>4, <1>6, <1>7, <2>1, <2>2
<1>10. CASE Current(c, r)
  <2> DEFINE n == [ctcred[c] EXCEPT !.verified = r, !.account = ident]
  <2>1. ctcred' = [ctcred EXCEPT ![c] = n]
    BY <1>1, <1>10 DEF Recorded, VerifyCurrent
  <2>2. /\ n \in Creds /\ n.live = ctcred[c].live /\ n.rev = ctcred[c].rev /\ n.verified = r
        /\ n.account = ident
    <3>1. \A u \in Creds : [u EXCEPT !.verified = r] \in Creds
      BY DEF Creds
    <3>2. \A u \in Creds : [u EXCEPT !.account = ident] \in Creds
      BY DEF Creds
    <3>3. n \in Creds
      BY <1>1, <3>1, <3>2
    <3> QED  BY <1>1, <3>3 DEF Creds
  <2>3. ctcred[c].rev = r
    BY <1>10 DEF Current
  <2> HIDE DEF n
  <2>4. ctcred' \in [CTCreds -> Creds]
    BY <1>1, <2>1, <2>2
  <2>5. ctcred'[c] = n /\ \A d \in CTCreds \ {c} : ctcred'[d] = ctcred[d]
    BY <1>1, <2>1
  <2>6. CredFits(n, ctevid'[c])
    BY <1>6, <1>8, <2>2, <2>3 DEF CredFits
  <2>7. CredsFit'
    BY <1>8, <2>2, <2>5, <2>6 DEF CTInd, CredsFit
  <2> QED  BY <1>4, <1>6, <1>7, <2>4, <2>7
<1> QED  BY <1>9, <1>10

LEMMA CTTypes ==
    ASSUME CTInd
    PROVE  /\ ctcred \in [CTCreds -> Creds]
           /\ ctevid \in [CTCreds -> [1..CTRevisions -> SUBSET CTIdentities]]
           /\ ctclaim \in [CTKeys -> Claims] /\ ctsts \in [CTKeys -> Nat]
           /\ cttold = [k \in CTKeys |-> cttold[k]]
  BY DEF CTInd, CTTyped

(* A call that is not a test, in particular none.                          *)
LEMMA CallLeaves ==
    ASSUME CTInd, NEW x \in CTCallers, NEW a, CallTyped(a), ~Testing(a),
           ctcall' = [ctcall EXCEPT ![x] = a], UNCHANGED ctsts,
           \A y \in CTCallers \ {x} : Testing(ctcall[y]) =>
              ctclaim'[ctcall[y].key] = ctclaim[ctcall[y].key]
    PROVE  CallsFit'
  BY CallMoves

LEMMA NoCallTyped == CallTyped(NoCall) /\ ~Testing(NoCall)
  BY DEF NoCall, CallTyped, Testing, TestPcs

LEMMA TestOwnsKey ==
    ASSUME CTInd, NEW x \in CTCallers, Testing(ctcall[x])
    PROVE  /\ ctcall[x] \in Tests /\ ctcall[x].key \in CTKeys
           /\ ctcall[x].cred = CTBinding[ctcall[x].key].cred
           /\ ctcall[x].rev = CTBinding[ctcall[x].key].rev
           /\ ctcall[x].ident \in SUBSET CTIdentities
           /\ StageFits(ctcall[x], ctclaim[ctcall[x].key], ctsts[ctcall[x].key])
           /\ \A y \in CTCallers \ {x} : Testing(ctcall[y]) => ctcall[y].key # ctcall[x].key
<1>1. CallTyped(ctcall[x])
  BY DEF CTInd, CallsFit
<1>2. /\ ctcall[x] \in Tests /\ ctcall[x].cred = CTBinding[ctcall[x].key].cred
      /\ ctcall[x].rev = CTBinding[ctcall[x].key].rev
  BY <1>1 DEF CallTyped, Testing
<1>3. ctcall[x].key \in CTKeys /\ ctcall[x].ident \in SUBSET CTIdentities
  BY <1>2 DEF Tests
<1> QED  BY <1>2, <1>3 DEF CTInd, CallsFit

LEMMA KeyNow ==
    ASSUME CTInd, NEW k \in CTKeys
    PROVE  /\ KeyFits(ctclaim[k], ctsts[k], EvidenceOf(k), cttold[k])
           /\ ctclaim[k] \in Claims /\ ctsts[k] \in Nat
  BY CTTypes DEF CTInd, KeysFit, EvidenceOf

LEMMA EvidenceKept ==
    ASSUME UNCHANGED ctevid
    PROVE  EvidenceStays /\ \A k \in CTKeys : EvidenceOf(k)' = EvidenceOf(k)
  BY DEF EvidenceStays, EvidenceOf

(* Someone is told something that fits.                                    *)
LEMMA ToldFits ==
    ASSUME CTInd, NEW k \in CTKeys, NEW answer, TellFits(answer, ctclaim[k]), Told(k, answer),
           UNCHANGED ctevid, UNCHANGED ctclaim, UNCHANGED ctsts
    PROVE  KeysFit' /\ cttold' = [j \in CTKeys |-> cttold'[j]]
<1>1. cttold = [j \in CTKeys |-> cttold[j]]
  BY CTTypes
<1>2. cttold' = [j \in CTKeys |-> cttold'[j]]
  BY <1>1 DEF Told
<1>3. cttold'[k] = cttold[k] \cup {answer} /\ \A j \in CTKeys \ {k} : cttold'[j] = cttold[j]
  BY <1>1 DEF Told
<1>4. KeyFits(ctclaim'[k], ctsts'[k], EvidenceOf(k)', cttold'[k])
  <2>1. KeyFits(ctclaim[k], ctsts[k], EvidenceOf(k), cttold[k])
    BY KeyNow
  <2>2. EvidenceOf(k)' = EvidenceOf(k)
    BY EvidenceKept
  <2> QED  BY <1>3, <2>1, <2>2 DEF KeyFits
<1> QED  BY <1>2, <1>3, <1>4, KeyMoves, EvidenceKept

(* The owner's operations change the credential only.                      *)
LEMMA CredentialOwnerStep ==
    ASSUME CTInd, NEW c \in CTCreds, SaveCredential(c) \/ ReplaceCredential(c) \/ DeleteCredential(c)
    PROVE  CTInd'
<1>0. ctcred \in [CTCreds -> Creds]
  BY CTTypes
<1>1. /\ UNCHANGED ctevid /\ UNCHANGED ctclaim /\ UNCHANGED ctcall /\ UNCHANGED ctsts
      /\ UNCHANGED cttold
  BY DEF SaveCredential, ReplaceCredential, DeleteCredential
<1>2. PICK n \in Creds :
          /\ ctcred' = [ctcred EXCEPT ![c] = n] /\ CredFits(n, ctevid[c])
          /\ n.live => \A d \in CTCreds \ {c} : ~ctcred[d].live
  <2>1. CASE SaveCredential(c)
    <3> DEFINE n == [rev |-> 1, live |-> TRUE, verified |-> 0, account |-> {}]
    <3>1. n \in Creds /\ CredFits(n, ctevid[c])
      BY CredentialTestAssumption DEF Creds, CredFits
    <3>2. ctcred' = [ctcred EXCEPT ![c] = n] /\ \A d \in CTCreds : ~ctcred[d].live
      BY <2>1 DEF SaveCredential
    <3> QED  BY <3>1, <3>2
  <2>2. CASE ReplaceCredential(c)
    <3> DEFINE n == [rev |-> ctcred[c].rev + 1, live |-> TRUE, verified |-> 0, account |-> {}]
    <3>1. n \in Creds /\ CredFits(n, ctevid[c])
      BY <1>0, <2>2, CredentialTestAssumption DEF Creds, CredFits, ReplaceCredential
    <3>2. ctcred' = [ctcred EXCEPT ![c] = n]
      BY <2>2 DEF ReplaceCredential
    <3>3. \A d \in CTCreds \ {c} : ~ctcred[d].live
      BY <2>2 DEF ReplaceCredential, CTInd, CredsFit
    <3> QED  BY <3>1, <3>2, <3>3
  <2>3. CASE DeleteCredential(c)
    <3> DEFINE n == [ctcred[c] EXCEPT !.live = FALSE]
    <3>1. /\ n \in Creds /\ n.live = FALSE /\ n.rev = ctcred[c].rev
          /\ n.verified = ctcred[c].verified /\ n.account = ctcred[c].account
      BY <1>0 DEF Creds
    <3>2. ctcred' = [ctcred EXCEPT ![c] = n]
      BY <2>3 DEF DeleteCredential
    <3> HIDE DEF n
    <3>3. CredFits(n, ctevid[c])
      BY <3>1 DEF CTInd, CredsFit, CredFits
    <3> QED  BY <3>1, <3>2, <3>3
  <2> QED  BY <2>1, <2>2, <2>3
<1>3. ctcred' \in [CTCreds -> Creds]
  BY <1>0, <1>2
<1>4. ctcred'[c] = n /\ \A d \in CTCreds \ {c} : ctcred'[d] = ctcred[d]
  BY <1>0, <1>2
<1>5. CredsFit'
  BY <1>1, <1>2, <1>4 DEF CTInd, CredsFit
<1>6. CTTyped' /\ CallsFit' /\ KeysFit'
  BY <1>1, <1>3 DEF CTInd, CTTyped, CallsFit, KeysFit
<1> QED  BY <1>5, <1>6 DEF CTInd

LEMMA CredsKept ==
    ASSUME CTInd, UNCHANGED ctcred, UNCHANGED ctevid
    PROVE  CredsFit'
  BY DEF CTInd, CredsFit

(* BeginCredentialTest: a settled key answers, a claimed one waits, a free *)
(* one is claimed by the caller and no other test is under it.             *)
LEMMA BeginStep ==
    ASSUME CTInd, NEW x \in CTCallers, ctcall[x].pc \in {"begin", "wait"},
           NEW k \in CTKeys, BeginCredentialTest(x, k)
    PROVE  CTInd'
<1>0. /\ UNCHANGED ctcred /\ UNCHANGED ctevid /\ UNCHANGED ctsts
      /\ ctclaim \in [CTKeys -> Claims] /\ ctsts \in [CTKeys -> Nat]
      /\ cttold = [j \in CTKeys |-> cttold[j]]
  BY CTTypes DEF BeginCredentialTest
<1>a. EvidenceStays /\ EvidenceOf(k)' = EvidenceOf(k) /\ CredsFit'
  BY <1>0, EvidenceKept, CredsKept
<1>b. ctclaim' \in [CTKeys -> Claims] /\ cttold' = [j \in CTKeys |-> cttold'[j]] => CTTyped'
  BY <1>0 DEF CTInd, CTTyped
<1>c. KeyFits(ctclaim[k], ctsts[k], EvidenceOf(k), cttold[k]) /\ ctclaim[k] \in Claims
  BY KeyNow
<1>d. Ends(x) => ctcall' = [ctcall EXCEPT ![x] = NoCall]
  BY DEF Ends
<1>1. CASE ctclaim[k].state # "none"
  <2>0. Replays(x, k) /\ UNCHANGED ctclaim
    BY <1>1 DEF BeginCredentialTest
  <2>1. CASE ctclaim[k].state = "in_progress"
    <3> DEFINE a == [pc |-> "wait", key |-> k]
    <3>1. ctcall' = [ctcall EXCEPT ![x] = a] /\ UNCHANGED cttold
      BY <2>0, <2>1 DEF Replays
    <3>2. CallTyped(a) /\ ~Testing(a)
      BY DEF CallTyped, Testing, TestPcs
    <3> HIDE DEF a
    <3>3. CallsFit'
      BY <1>0, <2>0, <3>1, <3>2, CallLeaves
    <3>4. KeysFit'
      BY <1>0, <1>a, <2>0, <3>1, EvidenceMoves
    <3> QED  BY <1>0, <1>a, <1>b, <2>0, <3>1, <3>3, <3>4 DEF CTInd
  <2>2. CASE ctclaim[k].state # "in_progress"
    <3>1. PICK answer : Ends(x) /\ Told(k, answer) /\ TellFits(answer, ctclaim[k])
      <4>1. CASE ctclaim[k].state = "completed"
        BY <2>0, <4>1 DEF Replays, TellFits
      <4>2. CASE ctclaim[k].state # "completed"
        <5>1. Ends(x) /\ Told(k, <<ctclaim[k].state, {}>>)
          BY <2>0, <2>2, <4>2 DEF Replays
        <5>2. ctclaim[k].state \in {"failed", "uncertain"}
          BY <1>1, <1>c, <2>2, <4>2 DEF Claims
        <5> QED  BY <5>1, <5>2 DEF TellFits
      <4> QED  BY <4>1, <4>2
    <3>2. CallsFit'
      BY <1>0, <1>d, <2>0, <3>1, NoCallTyped, CallLeaves
    <3>3. KeysFit' /\ cttold' = [j \in CTKeys |-> cttold'[j]]
      BY <1>0, <2>0, <3>1, ToldFits
    <3> QED  BY <1>0, <1>a, <1>b, <2>0, <3>2, <3>3 DEF CTInd
  <2> QED  BY <2>1, <2>2
<1>2. CASE ctclaim[k].state = "none" /\ ~Current(CTBinding[k].cred, CTBinding[k].rev)
  <2>1. Ends(x) /\ UNCHANGED ctclaim /\ UNCHANGED cttold
    BY <1>2 DEF BeginCredentialTest
  <2>2. CallsFit'
    BY <1>0, <1>d, <2>1, NoCallTyped, CallLeaves
  <2>3. KeysFit'
    BY <1>0, <1>a, <2>1, EvidenceMoves
  <2> QED  BY <1>0, <1>a, <1>b, <2>1, <2>2, <2>3 DEF CTInd
<1>3. CASE ctclaim[k].state = "none" /\ Current(CTBinding[k].cred, CTBinding[k].rev)
  <2> DEFINE n == [state |-> "in_progress", response |-> {}]
             b == CTBinding[k]
             a == [pc |-> "sts", key |-> k, cred |-> b.cred, rev |-> b.rev, ident |-> {}]
  <2>1. /\ ctclaim' = [ctclaim EXCEPT ![k] = n] /\ UNCHANGED cttold
        /\ ctcall' = [ctcall EXCEPT ![x] = a] \/ Ends(x)
    BY <1>3 DEF BeginCredentialTest, ClaimedFresh
  <2>2. n \in Claims /\ n.state = "in_progress"
    BY DEF Claims
  <2>3. CallTyped(a) /\ a.key = k /\ a.pc = "sts"
    <3>1. b.cred \in CTCreds /\ b.rev \in 1..CTRevisions
      BY BindingTyped
    <3>2. a \in Tests
      BY <3>1 DEF Tests, TestPcs
    <3> QED  BY <3>2 DEF CallTyped, TestPcs
  <2> HIDE DEF n, a
  <2>4. /\ ctclaim' \in [CTKeys -> Claims] /\ ctclaim'[k] = n
        /\ \A j \in CTKeys \ {k} : ctclaim'[j] = ctclaim[j]
    BY <1>0, <2>1, <2>2
  <2>5. ASSUME NEW y \in CTCallers, Testing(ctcall[y])
        PROVE  ctcall[y].key \in CTKeys \ {k}
    BY <1>3, <2>5, TestOwnsKey DEF StageFits, Testing, TestPcs
  <2>6. ctsts[k] = 0
    BY <1>3, <1>c DEF KeyFits
  <2>7. CallsFit'
    <3>1. CASE Ends(x)
      BY <1>0, <1>d, <2>4, <2>5, <3>1, NoCallTyped, CallLeaves
    <3>2. CASE ctcall' = [ctcall EXCEPT ![x] = a]
      <4>1. StageFits(a, ctclaim'[a.key], ctsts'[a.key])
        BY <1>0, <2>2, <2>3, <2>4, <2>6 DEF StageFits
      <4> QED  BY <1>0, <2>3, <2>4, <2>5, <3>2, <4>1, CallMoves
    <3> QED  BY <2>1, <3>1, <3>2
  <2>8. KeyFits(n, ctsts[k], EvidenceOf(k), cttold[k])
    <3>1. \A s \in cttold[k] : s = <<"uncertain", {}>>
      BY <1>3, <1>c DEF KeyFits, TellFits
    <3> QED  BY <2>2, <2>6, <3>1 DEF KeyFits, TellFits
  <2>9. KeysFit'
    BY <1>0, <1>a, <2>1, <2>4, <2>8, KeyMoves
  <2> QED  BY <1>0, <1>a, <1>b, <2>1, <2>4, <2>7, <2>9 DEF CTInd
<1> QED  BY <1>1, <1>2, <1>3

(* A call starts, or a waiter gives up.                                    *)
LEMMA StartStep ==
    ASSUME CTInd, NEW x \in CTCallers,
           \/ \E k \in CTKeys : TestCredentialIdempotent(x, k)
           \/ \E c \in CTCreds : TestCredential(x, c)
    PROVE  CTInd'
<1>1. /\ UNCHANGED ctcred /\ UNCHANGED ctevid /\ UNCHANGED ctclaim /\ UNCHANGED ctsts
      /\ UNCHANGED cttold
  BY DEF TestCredentialIdempotent, TestCredential, ctRows
<1>2. PICK a : ctcall' = [ctcall EXCEPT ![x] = a] /\ CallTyped(a) /\ ~Testing(a)
  <2>1. ASSUME NEW k \in CTKeys, TestCredentialIdempotent(x, k)
        PROVE  \E a : ctcall' = [ctcall EXCEPT ![x] = a] /\ CallTyped(a) /\ ~Testing(a)
    <3> DEFINE a == [pc |-> "begin", key |-> k]
    <3>1. ctcall' = [ctcall EXCEPT ![x] = a]
      BY <2>1 DEF TestCredentialIdempotent
    <3>2. CallTyped(a) /\ ~Testing(a)
      BY DEF CallTyped, Testing, TestPcs
    <3> QED  BY <3>1, <3>2
  <2>2. ASSUME NEW c \in CTCreds, TestCredential(x, c)
        PROVE  \E a : ctcall' = [ctcall EXCEPT ![x] = a] /\ CallTyped(a) /\ ~Testing(a)
    <3> DEFINE a == [pc |-> "plain", cred |-> c, rev |-> ctcred[c].rev]
    <3>1. ctcall' = [ctcall EXCEPT ![x] = a] /\ ctcred[c].live
      BY <2>2 DEF TestCredential
    <3>2. ctcred[c].rev \in 1..CTRevisions
      BY <3>1, CTTypes, CredentialTestAssumption DEF CTInd, CredsFit, CredFits, Creds
    <3>3. CallTyped(a) /\ ~Testing(a)
      BY <3>2 DEF CallTyped, Testing, TestPcs
    <3> QED  BY <3>1, <3>3
  <2> QED  BY <2>1, <2>2
<1>3. CallsFit'
  BY <1>1, <1>2, CallLeaves
<1>4. CTTyped' /\ KeysFit' /\ CredsFit'
  BY <1>1 DEF CTInd, CTTyped, KeysFit, CredsFit
<1> QED  BY <1>3, <1>4 DEF CTInd

LEMMA GiveUpStep ==
    ASSUME CTInd, NEW x \in CTCallers, GiveUp(x)
    PROVE  CTInd'
<1> DEFINE k == ctcall[x].key
<1>1. /\ UNCHANGED ctcred /\ UNCHANGED ctevid /\ UNCHANGED ctclaim /\ UNCHANGED ctsts
      /\ ctcall' = [ctcall EXCEPT ![x] = NoCall] /\ Told(k, <<"uncertain", {}>>)
  BY DEF GiveUp, ctRows, Ends
<1>2. k \in CTKeys
  BY DEF GiveUp, CTInd, CallsFit, CallTyped
<1>3. CallsFit'
  BY <1>1, NoCallTyped, CallLeaves
<1>4. TellFits(<<"uncertain", {}>>, ctclaim[k])
  BY DEF TellFits
<1> HIDE DEF k
<1>5. KeysFit' /\ cttold' = [j \in CTKeys |-> cttold'[j]]
  BY <1>1, <1>2, <1>4, ToldFits
<1>6. CTTyped' /\ CredsFit'
  BY <1>1, <1>5, CredsKept DEF CTInd, CTTyped
<1> QED  BY <1>3, <1>5, <1>6 DEF CTInd

(* The one call of the provider under a key.                               *)
LEMMA ProviderStep ==
    ASSUME CTInd, NEW x \in CTCallers, runCredentialTestProvider(x)
    PROVE  CTInd'
<1>0. Testing(ctcall[x])
  BY DEF runCredentialTestProvider, Testing, TestPcs
<1>k. PICK k \in CTKeys : k = ctcall[x].key
  BY <1>0, TestOwnsKey
<1>1. /\ UNCHANGED ctcred /\ UNCHANGED ctevid /\ UNCHANGED ctclaim /\ UNCHANGED cttold
      /\ ctcall[x].pc = "sts" /\ ctsts' = [ctsts EXCEPT ![k] = @ + 1]
  BY <1>k DEF runCredentialTestProvider, ctRows
<1>3. /\ ctcall[x] \in Tests /\ k \in CTKeys /\ ctsts[k] = 0 /\ ctclaim[k].state = "in_progress"
      /\ ctcall[x].cred = CTBinding[k].cred /\ ctcall[x].rev = CTBinding[k].rev
      /\ \A y \in CTCallers \ {x} : Testing(ctcall[y]) => ctcall[y].key # k
  BY <1>0, <1>1, <1>k, TestOwnsKey DEF StageFits
<1>4. PICK a \in Tests :
         /\ ctcall' = [ctcall EXCEPT ![x] = a] /\ a.pc \in {"complete", "failed", "uncertain"}
         /\ a.key = k /\ a.cred = ctcall[x].cred /\ a.rev = ctcall[x].rev
         /\ a.pc = "complete" => a.ident # {}
  <2>1. ASSUME NEW i \in CTIdentities,
               ctcall' = [ctcall EXCEPT ![x] = [@ EXCEPT !.pc = "complete", !.ident = {i}]]
        PROVE  \E a \in Tests :
                  /\ ctcall' = [ctcall EXCEPT ![x] = a] /\ a.pc \in {"complete", "failed", "uncertain"}
                  /\ a.key = k /\ a.cred = ctcall[x].cred /\ a.rev = ctcall[x].rev
                  /\ a.pc = "complete" => a.ident # {}
    <3> DEFINE b == [ctcall[x] EXCEPT !.pc = "complete"]
               a == [b EXCEPT !.ident = {i}]
    <3>1. /\ b \in Tests /\ b.pc = "complete" /\ b.key = k /\ b.cred = ctcall[x].cred
          /\ b.rev = ctcall[x].rev
      BY <1>3, <1>k DEF Tests, TestPcs
    <3>2. a = [ctcall[x] EXCEPT !.pc = "complete", !.ident = {i}]
      OBVIOUS
    <3> HIDE DEF b
    <3>3. /\ a \in Tests /\ a.pc = b.pc /\ a.key = b.key /\ a.cred = b.cred
          /\ a.rev = b.rev /\ a.ident = {i}
      BY <3>1 DEF Tests, TestPcs
    <3> HIDE DEF a
    <3>4. ctcall' = [ctcall EXCEPT ![x] = a]
      BY <2>1, <3>2
    <3> QED  BY <3>1, <3>3, <3>4
  <2>2. ASSUME NEW pc \in {"failed", "uncertain"}, Goes(x, pc)
        PROVE  \E a \in Tests :
                  /\ ctcall' = [ctcall EXCEPT ![x] = a] /\ a.pc \in {"complete", "failed", "uncertain"}
                  /\ a.key = k /\ a.cred = ctcall[x].cred /\ a.rev = ctcall[x].rev
                  /\ a.pc = "complete" => a.ident # {}
    <3> DEFINE a == [ctcall[x] EXCEPT !.pc = pc]
    <3>1. /\ a \in Tests /\ a.pc = pc /\ a.key = k /\ a.cred = ctcall[x].cred
          /\ a.rev = ctcall[x].rev
      BY <1>3, <1>k DEF Tests, TestPcs
    <3>2. ctcall' = [ctcall EXCEPT ![x] = a]
      BY <2>2 DEF Goes
    <3> HIDE DEF a
    <3> QED  BY <3>1, <3>2
  <2> QED  BY <2>1, <2>2 DEF runCredentialTestProvider
<1>5. /\ ctsts' \in [CTKeys -> Nat] /\ ctsts'[k] = 1
      /\ \A j \in CTKeys \ {k} : ctsts'[j] = ctsts[j]
  BY <1>1, <1>3, CTTypes
<1>6. CallTyped(a) /\ StageFits(a, ctclaim'[a.key], ctsts'[a.key])
  BY <1>1, <1>3, <1>4 DEF CallTyped, StageFits, TestPcs
<1>7. \A y \in CTCallers \ {x} : Testing(ctcall[y]) => ctcall[y].key \in CTKeys \ {k}
  BY <1>3, TestOwnsKey
<1>8. CallsFit'
  <2> QED  BY <1>1, <1>4, <1>5, <1>6, <1>7, CallMoves
<1>9. KeysFit'
  <2>1. KeyFits(ctclaim'[k], ctsts'[k], EvidenceOf(k)', cttold'[k])
    BY <1>1, <1>3, <1>5, KeyNow, EvidenceKept DEF KeyFits
  <2>2. EvidenceStays
    BY <1>1, EvidenceKept
  <2>3. \A j \in CTKeys \ {k} :
           ctclaim'[j] = ctclaim[j] /\ ctsts'[j] = ctsts[j] /\ cttold'[j] = cttold[j]
    BY <1>1, <1>5
  <2> QED  BY <1>3, <2>1, <2>2, <2>3, KeyMoves
<1>10. CTTyped' /\ CredsFit'
  BY <1>1, <1>5, CredsKept DEF CTInd, CTTyped
<1> QED  BY <1>8, <1>9, <1>10 DEF CTInd

(* A test that goes on under its key, which nobody else touches.           *)
LEMMA TestGoes ==
    ASSUME CTInd, NEW x \in CTCallers, Testing(ctcall[x]), Goes(x, "uncertain"),
           ctclaim'[ctcall[x].key].state \in {"in_progress", "completed"}, UNCHANGED ctsts,
           \A j \in CTKeys \ {ctcall[x].key} : ctclaim'[j] = ctclaim[j]
    PROVE  CallsFit'
<1> DEFINE k == ctcall[x].key
           a == [ctcall[x] EXCEPT !.pc = "uncertain"]
<1>1. /\ ctcall[x] \in Tests /\ ctcall[x].cred = CTBinding[k].cred /\ ctcall[x].rev = CTBinding[k].rev
      /\ \A y \in CTCallers \ {x} : Testing(ctcall[y]) => ctcall[y].key \in CTKeys \ {k}
  BY TestOwnsKey
<1>2. /\ a \in Tests /\ a.pc = "uncertain" /\ a.key = k /\ a.cred = ctcall[x].cred
      /\ a.rev = ctcall[x].rev
  BY <1>1 DEF Tests, TestPcs
<1>3. ctcall' = [ctcall EXCEPT ![x] = a]
  BY DEF Goes
<1> HIDE DEF a
<1>4. CallTyped(a) /\ StageFits(a, ctclaim'[a.key], ctsts'[a.key])
  BY <1>1, <1>2 DEF CallTyped, StageFits, TestPcs
<1> QED  BY <1>1, <1>2, <1>3, <1>4, CallMoves

LEMMA TestEnds ==
    ASSUME CTInd, NEW x \in CTCallers, Testing(ctcall[x]), Ends(x), UNCHANGED ctsts,
           \A j \in CTKeys \ {ctcall[x].key} : ctclaim'[j] = ctclaim[j]
    PROVE  CallsFit'
<1>1. \A y \in CTCallers \ {x} : Testing(ctcall[y]) => ctcall[y].key \in CTKeys \ {ctcall[x].key}
  BY TestOwnsKey
<1>2. ctcall' = [ctcall EXCEPT ![x] = NoCall]
  BY DEF Ends
<1> QED  BY <1>1, <1>2, NoCallTyped, CallLeaves

(* The claim of a test is settled, and its caller told or not.             *)
LEMMA Settles ==
    ASSUME CTInd, NEW k \in CTKeys, NEW n \in Claims, EvidenceStays,
           ctclaim' = [ctclaim EXCEPT ![k] = n],
           n = ctclaim[k] \/ ctclaim[k].state = "in_progress",
           n.state # "none" \/ n = ctclaim[k],
           n.state = "completed" /\ n # ctclaim[k] => n.response # {} /\ n.response = EvidenceOf(k)',
           NEW answer, TellFits(answer, n), Told(k, answer) \/ UNCHANGED cttold, UNCHANGED ctsts
    PROVE  /\ KeysFit' /\ ctclaim' \in [CTKeys -> Claims]
           /\ cttold' = [j \in CTKeys |-> cttold'[j]]
           /\ ctclaim'[k] = n /\ \A j \in CTKeys \ {k} : ctclaim'[j] = ctclaim[j]
<1>0. ctclaim \in [CTKeys -> Claims] /\ cttold = [j \in CTKeys |-> cttold[j]]
  BY CTTypes
<1>1. /\ ctclaim' \in [CTKeys -> Claims] /\ ctclaim'[k] = n
      /\ \A j \in CTKeys \ {k} : ctclaim'[j] = ctclaim[j]
  BY <1>0
<1>2. /\ cttold' = [j \in CTKeys |-> cttold'[j]] /\ cttold'[k] \subseteq cttold[k] \cup {answer}
      /\ \A j \in CTKeys \ {k} : cttold'[j] = cttold[j]
  BY <1>0 DEF Told
<1>3. KeyFits(ctclaim[k], ctsts[k], EvidenceOf(k), cttold[k])
  BY KeyNow
<1>4. EvidenceOf(k) # {} => EvidenceOf(k)' = EvidenceOf(k)
  BY BindingTyped DEF EvidenceStays, EvidenceOf
<1>5. \A s \in cttold[k] : TellFits(s, n)
  <2>1. CASE n = ctclaim[k]
    BY <1>3, <2>1 DEF KeyFits
  <2>2. CASE ctclaim[k].state = "in_progress"
    BY <1>3, <2>2 DEF KeyFits, TellFits
  <2> QED  BY <2>1, <2>2
<1>6. KeyFits(n, ctsts[k], EvidenceOf(k)', cttold'[k])
  BY <1>2, <1>3, <1>4, <1>5 DEF KeyFits
<1>7. KeysFit'
  BY <1>1, <1>2, <1>6, KeyMoves
<1> QED  BY <1>1, <1>2, <1>7

(* CompleteCredentialTest: the identity, the evidence and the answer.      *)
LEMMA CompleteStep ==
    ASSUME CTInd, NEW x \in CTCallers, CompleteCredentialTest(x)
    PROVE  CTInd'
<1>1. ctcall[x].pc = "complete" /\ UNCHANGED ctsts
  BY DEF CompleteCredentialTest
<1>2. Testing(ctcall[x])
  BY <1>1 DEF Testing, TestPcs
<1>k. PICK k \in CTKeys, ident \in SUBSET CTIdentities :
         k = ctcall[x].key /\ ident = ctcall[x].ident
  BY <1>2, TestOwnsKey
<1>3. /\ k \in CTKeys /\ ident \in SUBSET CTIdentities /\ ident # {}
      /\ ctclaim[k].state = "in_progress"
      /\ ctcall[x].cred = CTBinding[k].cred /\ ctcall[x].rev = CTBinding[k].rev
      /\ ctcall[x].cred \in CTCreds /\ ctcall[x].rev \in 1..CTRevisions
  BY <1>1, <1>2, <1>k, TestOwnsKey, BindingTyped DEF StageFits
<1>4. CASE /\ EvidenceAgrees(ctcall[x].cred, ctcall[x].rev, ctcall[x].ident) /\ Completed(x)
           /\ \/ Ends(x) /\ Told(k, <<"identity", ident>>)
              \/ Goes(x, "uncertain") /\ UNCHANGED cttold
  <2> DEFINE n == [state |-> "completed", response |-> ident]
  <2>1. /\ Recorded(ctcall[x].cred, ctcall[x].rev, ctcall[x].ident)
        /\ ctclaim' = [ctclaim EXCEPT ![k] = n]
    BY <1>4, <1>k DEF Completed
  <2>2. /\ ctcred' \in [CTCreds -> Creds]
        /\ ctevid' \in [CTCreds -> [1..CTRevisions -> SUBSET CTIdentities]]
        /\ EvidenceStays /\ EvidenceOf(k)' = ident /\ CredsFit'
    <3>1. PICK c \in CTCreds, r \in 1..CTRevisions : c = ctcall[x].cred /\ r = ctcall[x].rev
      BY <1>3
    <3>2. EvidenceAgrees(c, r, ident) /\ Recorded(c, r, ident)
      BY <1>4, <1>k, <2>1, <3>1
    <3>3. c = CTBinding[k].cred /\ r = CTBinding[k].rev
      BY <1>3, <3>1
    <3> QED  BY <1>3, <3>2, <3>3, RecordedFits DEF EvidenceOf
  <2>3. n \in Claims /\ n.state = "completed" /\ n.response = ident
    BY <1>3 DEF Claims
  <2>4. TellFits(<<"identity", ident>>, n)
    BY <2>3 DEF TellFits
  <2>5. Told(k, <<"identity", ident>>) \/ UNCHANGED cttold
    BY <1>4
  <2> HIDE DEF n
  <2>6. /\ KeysFit' /\ ctclaim' \in [CTKeys -> Claims]
        /\ cttold' = [j \in CTKeys |-> cttold'[j]]
        /\ ctclaim'[k] = n /\ \A j \in CTKeys \ {k} : ctclaim'[j] = ctclaim[j]
    BY <1>1, <1>3, <2>1, <2>2, <2>3, <2>4, <2>5, Settles
  <2>7. CallsFit'
    <3>1. CASE Ends(x)
      BY <1>1, <1>2, <2>6, <3>1, <1>k, TestEnds
    <3>2. CASE Goes(x, "uncertain")
      BY <1>1, <1>2, <2>3, <2>6, <3>2, <1>k, TestGoes
    <3> QED  BY <1>4, <3>1, <3>2
  <2>8. CTTyped'
    BY <1>1, <2>2, <2>6 DEF CTInd, CTTyped
  <2> QED  BY <2>2, <2>6, <2>7, <2>8 DEF CTInd
<1>5. CASE Goes(x, "uncertain") /\ UNCHANGED <<ctRows, cttold>>
  <2>1. UNCHANGED ctcred /\ UNCHANGED ctevid /\ UNCHANGED ctclaim /\ UNCHANGED cttold
    BY <1>5 DEF ctRows
  <2>2. CallsFit'
    BY <1>1, <1>2, <1>3, <1>5, <1>k, <2>1, TestGoes
  <2>3. CTTyped' /\ KeysFit' /\ CredsFit'
    BY <1>1, <2>1 DEF CTInd, CTTyped, KeysFit, CredsFit
  <2> QED  BY <2>2, <2>3 DEF CTInd
<1> QED  BY <1>4, <1>5, <1>k DEF CompleteCredentialTest

(* A mark changes a claim in progress only, and what the caller is then    *)
(* told is true of the claim as it is.                                     *)
LEMMA MarkStep ==
    ASSUME CTInd, NEW x \in CTCallers,
           MarkCredentialTestUncertain(x) \/ MarkCredentialTestFailed(x)
    PROVE  CTInd'
<1>1. /\ ctcall[x].pc \in {"uncertain", "failed"} /\ Ends(x)
      /\ UNCHANGED ctcred /\ UNCHANGED ctevid /\ UNCHANGED ctsts
  BY DEF MarkCredentialTestUncertain, MarkCredentialTestFailed
<1>2. Testing(ctcall[x])
  BY <1>1 DEF Testing, TestPcs
<1>3. PICK k \in CTKeys : k = ctcall[x].key
  BY <1>2, TestOwnsKey
<1>4. ctclaim \in [CTKeys -> Claims] /\ ctclaim[k] \in Claims
  BY CTTypes
<1>5. ASSUME NEW s \in {"failed", "uncertain"}, Marked(k, s)
      PROVE  \E n \in Claims :
                /\ ctclaim' = [ctclaim EXCEPT ![k] = n]
                /\ n = ctclaim[k] \/ (ctclaim[k].state = "in_progress" /\ n.state = s)
                /\ ctclaim[k].state = "in_progress" => n.state = s
  <2> DEFINE v == IF ctclaim[k].state = "in_progress" THEN s ELSE ctclaim[k].state
             n == [ctclaim[k] EXCEPT !.state = v]
  <2>1. ctclaim' = [ctclaim EXCEPT ![k] = n]
    BY <1>4, <1>5 DEF Marked
  <2>2. v \in {"none", "in_progress", "completed", "failed", "uncertain"}
    BY <1>4 DEF Claims
  <2>3. n \in Claims /\ n.state = v
    <3> HIDE DEF v
    <3> QED  BY <1>4, <2>2 DEF Claims
  <2>4. CASE ctclaim[k].state = "in_progress"
    <3>1. n.state = s
      BY <2>3, <2>4
    <3> HIDE DEF n
    <3> QED  BY <2>1, <2>3, <2>4, <3>1
  <2>5. CASE ctclaim[k].state # "in_progress"
    <3>1. n = ctclaim[k]
      BY <1>4, <2>5 DEF Claims
    <3> HIDE DEF n
    <3> QED  BY <2>1, <2>3, <2>5, <3>1
  <2> QED  BY <2>4, <2>5
<1> DEFINE Marks == {<<"uncertain", {}>>, <<"failed", {}>>}
<1>6. PICK n \in Claims, answer \in Marks :
         /\ ctclaim' = [ctclaim EXCEPT ![k] = n] /\ Told(k, answer) /\ TellFits(answer, n)
         /\ n = ctclaim[k] \/ (ctclaim[k].state = "in_progress" /\ n.state \in {"failed", "uncertain"})
  <2>1. CASE UNCHANGED ctclaim /\ Told(k, <<"uncertain", {}>>)
    <3>1. ctclaim' = [ctclaim EXCEPT ![k] = ctclaim[k]]
      BY <1>4, <2>1
    <3> QED  BY <1>4, <2>1, <3>1 DEF TellFits
  <2>2. ASSUME NEW s \in {"failed", "uncertain"}, Marked(k, s), Told(k, <<"uncertain", {}>>)
        PROVE  \E n \in Claims, answer \in Marks :
                 /\ ctclaim' = [ctclaim EXCEPT ![k] = n] /\ Told(k, answer) /\ TellFits(answer, n)
                 /\ n = ctclaim[k] \/ (ctclaim[k].state = "in_progress" /\ n.state \in {"failed", "uncertain"})
    BY <1>5, <2>2 DEF TellFits
  <2>3. ASSUME Marked(k, "failed"), Told(k, <<"failed", {}>>), ctcall[x].pc = "failed"
        PROVE  \E n \in Claims, answer \in Marks :
                 /\ ctclaim' = [ctclaim EXCEPT ![k] = n] /\ Told(k, answer) /\ TellFits(answer, n)
                 /\ n = ctclaim[k] \/ (ctclaim[k].state = "in_progress" /\ n.state \in {"failed", "uncertain"})
    <3>1. ctclaim[k].state = "in_progress"
      BY <1>2, <1>3, <2>3, TestOwnsKey DEF StageFits
    <3> QED  BY <1>5, <2>3, <3>1 DEF TellFits
  <2>4. CASE MarkCredentialTestUncertain(x)
    BY <1>3, <2>1, <2>2, <2>4 DEF MarkCredentialTestUncertain
  <2>5. CASE MarkCredentialTestFailed(x)
    BY <1>3, <2>1, <2>2, <2>3, <2>5 DEF MarkCredentialTestFailed
  <2> QED  BY <2>4, <2>5
<1>7. EvidenceStays
  BY <1>1, EvidenceKept
<1>8. /\ KeysFit' /\ ctclaim' \in [CTKeys -> Claims]
      /\ cttold' = [j \in CTKeys |-> cttold'[j]]
      /\ \A j \in CTKeys \ {k} : ctclaim'[j] = ctclaim[j]
  BY <1>1, <1>6, <1>7, Settles
<1>9. CallsFit'
  BY <1>1, <1>2, <1>3, <1>8, TestEnds
<1>10. CTTyped' /\ CredsFit'
  BY <1>1, <1>8, CredsKept DEF CTInd, CTTyped
<1> QED  BY <1>8, <1>9, <1>10 DEF CTInd

LEMMA PlainStep ==
    ASSUME CTInd, NEW x \in CTCallers, RecordCredentialIdentity(x)
    PROVE  CTInd'
<1>1. /\ ctcall[x].pc = "plain" /\ ctcall' = [ctcall EXCEPT ![x] = NoCall]
      /\ UNCHANGED ctclaim /\ UNCHANGED ctsts /\ UNCHANGED cttold
  BY DEF RecordCredentialIdentity, Ends
<1>2. PICK c \in CTCreds, r \in 1..CTRevisions : c = ctcall[x].cred /\ r = ctcall[x].rev
  BY <1>1 DEF CTInd, CallsFit, CallTyped
<1>3. /\ ctcred' \in [CTCreds -> Creds]
      /\ ctevid' \in [CTCreds -> [1..CTRevisions -> SUBSET CTIdentities]]
      /\ EvidenceStays /\ CredsFit'
  <2>1. CASE UNCHANGED <<ctcred, ctevid>>
    BY <2>1, CTTypes, EvidenceKept, CredsKept
  <2>2. ASSUME NEW i \in CTIdentities, EvidenceAgrees(c, r, {i}), Recorded(c, r, {i})
        PROVE  /\ ctcred' \in [CTCreds -> Creds]
               /\ ctevid' \in [CTCreds -> [1..CTRevisions -> SUBSET CTIdentities]]
               /\ EvidenceStays /\ CredsFit'
    <3>1. {i} \in SUBSET CTIdentities /\ {i} # {}
      OBVIOUS
    <3> QED  BY <2>2, <3>1, RecordedFits
  <2> QED  BY <1>2, <2>1, <2>2 DEF RecordCredentialIdentity
<1>4. CallsFit'
  BY <1>1, NoCallTyped, CallLeaves
<1>5. KeysFit'
  BY <1>1, <1>3, EvidenceMoves
<1>6. CTTyped'
  BY <1>1, <1>3 DEF CTInd, CTTyped
<1> QED  BY <1>3, <1>4, <1>5, <1>6 DEF CTInd

LEMMA CrashStep ==
    ASSUME CTInd, Crash
    PROVE  CTInd'
<1>1. /\ UNCHANGED ctcred /\ UNCHANGED ctevid /\ UNCHANGED ctclaim /\ UNCHANGED ctsts
      /\ UNCHANGED cttold /\ ctcall' = [x \in CTCallers |-> NoCall]
  BY DEF Crash, ctRows
<1>2. CallsFit'
  BY <1>1, NoCallTyped DEF CallsFit
<1>3. CTTyped' /\ KeysFit' /\ CredsFit'
  BY <1>1 DEF CTInd, CTTyped, KeysFit, CredsFit
<1> QED  BY <1>2, <1>3 DEF CTInd

LEMMA CredentialStarts ==
    ASSUME CredentialInit
    PROVE  CTInd
<1>1. CTTyped
  BY CredentialTestAssumption DEF CredentialInit, CTTyped, Creds, Claims, NoClaim
<1>2. CallsFit
  BY NoCallTyped DEF CredentialInit, CallsFit
<1>3. KeysFit
  BY DEF CredentialInit, KeysFit, KeyFits, NoClaim
<1>4. CredsFit
  BY DEF CredentialInit, CredsFit, CredFits
<1> QED  BY <1>1, <1>2, <1>3, <1>4 DEF CTInd

LEMMA CredentialStep ==
    ASSUME CTInd, [CredentialNext]_ctVars
    PROVE  CTInd'
<1>1. CASE Crash
  BY <1>1, CrashStep
<1>2. ASSUME NEW c \in CTCreds, SaveCredential(c) \/ ReplaceCredential(c) \/ DeleteCredential(c)
      PROVE  CTInd'
  BY <1>2, CredentialOwnerStep
<1>3. ASSUME NEW x \in CTCallers,
             \/ \E k \in CTKeys : TestCredentialIdempotent(x, k)
             \/ \E c \in CTCreds : TestCredential(x, c)
      PROVE  CTInd'
  BY <1>3, StartStep
<1>4. ASSUME NEW x \in CTCallers, Begin(x) \/ Poll(x) PROVE CTInd'
  <2>1. ctcall[x].pc \in {"begin", "wait"} /\ BeginCredentialTest(x, ctcall[x].key)
    BY <1>4 DEF Begin, Poll
  <2>2. PICK k \in CTKeys : k = ctcall[x].key
    BY <2>1 DEF CTInd, CallsFit, CallTyped
  <2>3. BeginCredentialTest(x, k)
    BY <2>1, <2>2, Zenon
  <2> QED  BY <2>1, <2>3, BeginStep
<1>5. ASSUME NEW x \in CTCallers,
             \/ GiveUp(x) \/ runCredentialTestProvider(x) \/ CompleteCredentialTest(x)
             \/ MarkCredentialTestUncertain(x) \/ MarkCredentialTestFailed(x)
             \/ RecordCredentialIdentity(x)
      PROVE  CTInd'
  BY <1>5, GiveUpStep, ProviderStep, CompleteStep, MarkStep, PlainStep
<1>6. CASE UNCHANGED ctVars
  <2>1. /\ UNCHANGED ctcred /\ UNCHANGED ctevid /\ UNCHANGED ctclaim /\ UNCHANGED ctcall
        /\ UNCHANGED ctsts /\ UNCHANGED cttold
    BY <1>6 DEF ctVars, ctRows
  <2> QED  BY <2>1 DEF CTInd, CTTyped, CallsFit, KeysFit, CredsFit
<1> QED  BY <1>1, <1>2, <1>3, <1>4, <1>5, <1>6 DEF CredentialNext

LEMMA CredentialImplied ==
    ASSUME CTInd
    PROVE  CredentialInv
<1>1. Cardinality({c \in CTCreds : ctcred[c].live}) <= 1
  <2> DEFINE S == {c \in CTCreds : ctcred[c].live}
  <2>1. CASE S = {}
    BY <2>1, FS_EmptySet
  <2>2. CASE S # {}
    <3>1. PICK c : c \in S
      BY <2>2
    <3>2. S = {c}
      BY <3>1 DEF CTInd, CredsFit
    <3>3. Cardinality(S) = 1
      BY <3>2, FS_Singleton
    <3> QED  BY <3>3
  <2> QED  BY <2>1, <2>2
<1>2. ProviderOncePerKey
  BY KeyNow DEF ProviderOncePerKey, KeyFits
<1>3. VerifiedIsCurrent
  BY DEF CTInd, CredsFit, CredFits, VerifiedIsCurrent
<1>4. AnswersAgree
  <2> SUFFICES ASSUME NEW k \in CTKeys
               PROVE  /\ \A s, t \in cttold[k] : s = t \/ s[1] = "uncertain" \/ t[1] = "uncertain"
                      /\ ctclaim[k].state = "completed" => ctclaim[k].response = EvidenceOf(k)
                      /\ \A s \in cttold[k] :
                            /\ s[1] = "identity" =>
                                  ctclaim[k] = [state |-> "completed", response |-> s[2]]
                            /\ s[1] = "failed" => ctclaim[k].state = "failed"
    BY DEF AnswersAgree, EvidenceOf
  <2>1. /\ ctclaim[k] \in Claims /\ \A s \in cttold[k] : TellFits(s, ctclaim[k])
        /\ ctclaim[k].state = "completed" => ctclaim[k].response = EvidenceOf(k)
    BY KeyNow DEF KeyFits
  <2>2. ASSUME NEW s \in cttold[k], NEW t \in cttold[k]
        PROVE  s = t \/ s[1] = "uncertain" \/ t[1] = "uncertain"
    BY <2>1 DEF TellFits
  <2>3. ASSUME NEW s \in cttold[k], s[1] = "identity"
        PROVE  ctclaim[k] = [state |-> "completed", response |-> s[2]]
    <3>1. ctclaim[k].state = "completed" /\ ctclaim[k].response = s[2]
      BY <2>1, <2>3 DEF TellFits
    <3> QED  BY <2>1, <3>1 DEF Claims
  <2>4. ASSUME NEW s \in cttold[k], s[1] = "failed" PROVE ctclaim[k].state = "failed"
    BY <2>1, <2>4 DEF TellFits
  <2> QED  BY <2>1, <2>2, <2>3, <2>4
<1> QED  BY <1>1, <1>2, <1>3, <1>4 DEF CredentialInv

(* A scope has one live credential, a key reaches GetCallerIdentity once   *)
(* over callers, retries and restarts, and neither a late answer nor a     *)
(* replaced credential changes what callers heard or what is kept.         *)
THEOREM CredentialTestsAgree == CredentialSpec => []CredentialInv
<1>1. CredentialInit => CTInd
  BY CredentialStarts
<1>2. CTInd /\ [CredentialNext]_ctVars => CTInd'
  BY CredentialStep
<1>3. CTInd => CredentialInv
  BY CredentialImplied
<1> QED  BY <1>1, <1>2, <1>3, PTL DEF CredentialSpec

(***************************************************************************)
(* Retained SSH Workers.  Making: a creating run before its lease; Placed: *)
(* a run whose execution is recorded; Torn: a destruction that has saved   *)
(* its intent; Doomed: a Worker that has one.                              *)
(***************************************************************************)
Making == {"key", "group", "instance", "boot"}
Placed == {"prepare", "resume", "start", "wait", "collect", "complete"}
Torn == {"drain", "discover", "teardown", "mark"}
Doomed == {"destroying", "destroyed"}
Standing == {"provisioning", "busy", "idle"}

SWRow == [phase : {"none", "failed"} \cup Standing \cup Doomed,
          cur : SWExecs \cup {0}, known : SUBSET Resources, gone : BOOLEAN]
SXRow == [phase : {"none", "running", "completed", "failed"}, remote : BOOLEAN]
SRunRow == [pc : Making \cup Placed \cup {"none", "lease", "leased", "fail"}, cancelled : BOOLEAN]
SDRow == [pc : Torn \cup {"none", "fence"}, stopped : SUBSET SWExecs]
SProc == {"none", "running", "ended"}

SWTyped ==
    /\ sworker \in [SWWorkers -> SWRow] /\ sexec \in [SWExecs -> SXRow]
    /\ cloud \in [SWWorkers -> SUBSET Resources]
    /\ srun \in [SWExecs -> SRunRow] /\ sdestroy \in [SWWorkers -> SDRow]
    /\ proc \in [SWExecs -> SProc] /\ started \in [SWExecs -> Nat]
    /\ etask \in [SWExecs -> {"live", "ended"}]

(* One execution: its run r, its record x, its process p, the number n of  *)
(* starts, and the record k of its Worker.  Only an execution without a    *)
(* record is leased and prepared; a creating run finds its own intent.     *)
ExecFits(e, r, x, p, n, k) ==
    /\ n <= 1 /\ (n = 1 => p # "none") /\ (x.phase = "none" \/ r.pc = "prepare" => n = 0)
    /\ r.pc \in Making \cup {"leased"} => x.phase = "none"
    /\ r.pc \in Making => SWTarget[e] = e /\ k.phase = "provisioning"
    /\ r.pc \in Placed \cup {"leased"} => (k.phase = "busy" /\ k.cur = e) \/ k.phase \in Doomed
    /\ r.pc \in Placed \cup {"fail"} => x.phase \in {"running", "failed"}
    /\ r.pc \in Placed /\ k.phase \notin Doomed => x.phase = "running"

(* Worker w: its record k, what AWS has of it c, its destruction d.      *)
WorkerFits(w, k, c, d) ==
    /\ d.pc \in Torn => k.phase = "destroying" /\ ~k.gone
    /\ k.phase = "destroyed" => k.gone
    /\ k.gone => k.phase \in Doomed /\ c = {}
    /\ k.cur # 0 => k.phase \in {"busy", "destroying"} /\ SWTarget[k.cur] = w
    /\ d.pc = "teardown" => c \subseteq k.known
    /\ d.pc = "mark" => c = {}

ExecsFit ==
    \A e \in SWExecs : ExecFits(e, srun[e], sexec[e], proc[e], started[e], sworker[SWTarget[e]])
WorkersFit == \A w \in SWWorkers : WorkerFits(w, sworker[w], cloud[w], sdestroy[w])

(* The Workers that have an instance or may still get one.                 *)
Up == {w \in SWWorkers : "instance" \in cloud[w] \/ sworker[w].phase \in Standing}
UpBounded == Cardinality(Up) <= SWMaxWorkers

SSHInd == SWTyped /\ ExecsFit /\ WorkersFit /\ UpBounded

(* What no step does to a record: a destruction is never undone and an     *)
(* ended execution keeps its outcome.                                      *)
WorkerStays(k, l) ==
    /\ k.phase = "destroying" => l.phase \in Doomed
    /\ k.phase = "destroyed" => l = k
    /\ k.gone => l.gone
ExecStays(x, y) == x.phase \in {"completed", "failed"} => y.phase = x.phase
SSHStays ==
    /\ \A w \in SWWorkers : WorkerStays(sworker[w], sworker'[w])
    /\ \A e \in SWExecs : ExecStays(sexec[e], sexec'[e])

(* The record of the Worker of e may change from k to l without taking it  *)
(* from another execution.                                                 *)
Yields(e, k, l) ==
    \/ l.phase = k.phase /\ l.cur = k.cur
    \/ k.phase \in {"none", "idle"}
    \/ k.phase = "busy" /\ k.cur = e
    \/ k.phase = "provisioning" /\ SWTarget[e] = e

(* A step of execution e on its Worker w, and what it writes.              *)
SWWrites(e, w, r, x, p, n, k, c) ==
    /\ srun' = [srun EXCEPT ![e] = r] /\ sexec' = [sexec EXCEPT ![e] = x]
    /\ proc' = [proc EXCEPT ![e] = p] /\ started' = [started EXCEPT ![e] = n]
    /\ sworker' = [sworker EXCEPT ![w] = k] /\ cloud' = [cloud EXCEPT ![w] = c]
    /\ sdestroy' = sdestroy /\ etask' \in [SWExecs -> {"live", "ended"}]

SWWritesFit(e, w, r, x, p, n, k, c) ==
    /\ r \in SRunRow /\ x \in SXRow /\ p \in SProc /\ n \in Nat /\ k \in SWRow
    /\ c \in SUBSET Resources
    /\ ExecFits(e, r, x, p, n, k) /\ WorkerFits(w, k, c, sdestroy[w])
    /\ Yields(e, sworker[w], k) /\ WorkerStays(sworker[w], k) /\ ExecStays(sexec[e], x)
    /\ ("instance" \in c \/ k.phase \in Standing) => w \in Up \/ Cardinality(Up) < SWMaxWorkers

LEMMA UpGrows ==
    ASSUME SSHWorkerAssumption, SWTyped, UpBounded, NEW w \in SWWorkers,
           Up' \subseteq Up \cup {w}, w \in Up' => w \in Up \/ Cardinality(Up) < SWMaxWorkers
    PROVE  UpBounded'
<1>1. IsFiniteSet(SWWorkers)
  BY FS_Subset DEF SSHWorkerAssumption, SWWorkers
<1>2. IsFiniteSet(Up) /\ Cardinality(Up) \in Nat
  <2>1. Up \subseteq SWWorkers
    BY DEF Up
  <2>2. QED BY <1>1, <2>1, FS_Subset, FS_CardinalityType
<1>3. CASE Up' \subseteq Up
  <2>1. Cardinality(Up') <= Cardinality(Up) /\ Cardinality(Up') \in Nat
    BY <1>2, <1>3, FS_Subset, FS_CardinalityType
  <2>2. QED BY <1>2, <2>1 DEF UpBounded, SSHWorkerAssumption
<1>4. CASE w \in Up' /\ w \notin Up
  <2>1. IsFiniteSet(Up \cup {w}) /\ Cardinality(Up \cup {w}) = Cardinality(Up) + 1
    BY <1>2, <1>4, FS_AddElement
  <2>2. Cardinality(Up') <= Cardinality(Up) + 1 /\ Cardinality(Up') \in Nat
    BY <2>1, FS_Subset, FS_CardinalityType
  <2>3. Cardinality(Up) < SWMaxWorkers
    BY <1>4
  <2>4. QED BY <1>2, <2>2, <2>3 DEF UpBounded, SSHWorkerAssumption
<1>5. QED BY <1>3, <1>4

LEMMA OthersFit ==
    ASSUME SSHWorkerAssumption, NEW e \in SWExecs, NEW f \in SWExecs, e # f,
           SWTarget[e] = SWTarget[f], NEW r, NEW x, NEW p, NEW n, NEW k, NEW l,
           ExecFits(f, r, x, p, n, k), Yields(e, k, l), WorkerStays(k, l)
    PROVE  ExecFits(f, r, x, p, n, l)
BY DEF ExecFits, Yields, WorkerStays, Making, Placed, Doomed

LEMMA ExecMoves ==
    ASSUME SSHWorkerAssumption, SSHInd, NEW e \in SWExecs, NEW w, w = SWTarget[e], NEW r, NEW x,
           NEW p, NEW n, NEW k, NEW c,
           SWWrites(e, w, r, x, p, n, k, c), SWWritesFit(e, w, r, x, p, n, k, c)
    PROVE  SSHInd' /\ SSHStays
<1> USE DEF SSHInd
<1>1. w \in SWWorkers
  BY DEF SSHWorkerAssumption
<1>2. SWTyped'
  BY <1>1 DEF SWTyped, SWWrites, SWWritesFit
<1>3. ExecsFit'
  <2> SUFFICES ASSUME NEW f \in SWExecs
               PROVE  ExecFits(f, srun'[f], sexec'[f], proc'[f], started'[f], sworker'[SWTarget[f]])
    BY DEF ExecsFit
  <2>1. CASE f = e
    BY <1>1, <2>1 DEF SWTyped, SWWrites, SWWritesFit
  <2>2. CASE f # e
    <3>1. srun'[f] = srun[f] /\ sexec'[f] = sexec[f] /\ proc'[f] = proc[f] /\ started'[f] = started[f]
      BY <2>2 DEF SWTyped, SWWrites
    <3>2. ExecFits(f, srun[f], sexec[f], proc[f], started[f], sworker[SWTarget[f]])
      BY DEF ExecsFit
    <3>3. CASE SWTarget[f] = w
      <4>1. sworker'[SWTarget[f]] = k
        BY <1>1, <3>3 DEF SWTyped, SWWrites
      <4>2. QED BY <2>2, <3>1, <3>2, <3>3, <4>1, OthersFit DEF SWWritesFit
    <3>4. CASE SWTarget[f] # w
      <4>1. sworker'[SWTarget[f]] = sworker[SWTarget[f]]
        BY <1>1, <3>4 DEF SWTyped, SWWrites, SSHWorkerAssumption
      <4>2. QED BY <3>1, <3>2, <4>1
    <3>5. QED BY <3>3, <3>4
  <2>3. QED BY <2>1, <2>2
<1>4. WorkersFit'
  <2> SUFFICES ASSUME NEW v \in SWWorkers PROVE WorkerFits(v, sworker'[v], cloud'[v], sdestroy'[v])
    BY DEF WorkersFit
  <2>1. CASE v = w
    BY <1>1, <2>1 DEF SWTyped, SWWrites, SWWritesFit
  <2>2. CASE v # w
    <3>1. sworker'[v] = sworker[v] /\ cloud'[v] = cloud[v] /\ sdestroy'[v] = sdestroy[v]
      BY <2>2 DEF SWTyped, SWWrites
    <3>2. QED BY <3>1 DEF WorkersFit
  <2>3. QED BY <2>1, <2>2
<1>5. UpBounded'
  <2>1. sworker'[w] = k /\ cloud'[w] = c
    BY <1>1 DEF SWTyped, SWWrites
  <2>2. ASSUME NEW v \in SWWorkers, v # w
        PROVE  sworker'[v] = sworker[v] /\ cloud'[v] = cloud[v]
    BY <2>2 DEF SWTyped, SWWrites
  <2>3. Up' \subseteq Up \cup {w}
    BY <2>2 DEF Up
  <2>4. w \in Up' => w \in Up \/ Cardinality(Up) < SWMaxWorkers
    BY <2>1 DEF Up, SWWritesFit
  <2>5. QED BY <1>1, <2>3, <2>4, UpGrows
<1>6. SSHStays
  <2>1. ASSUME NEW v \in SWWorkers PROVE WorkerStays(sworker[v], sworker'[v])
    <3>1. CASE v = w
      BY <1>1, <3>1 DEF SWTyped, SWWrites, SWWritesFit
    <3>2. CASE v # w
      BY <3>2 DEF SWTyped, SWWrites, WorkerStays, Doomed
    <3>3. QED BY <3>1, <3>2
  <2>2. ASSUME NEW f \in SWExecs PROVE ExecStays(sexec[f], sexec'[f])
    BY DEF SWTyped, SWWrites, SWWritesFit, ExecStays
  <2>3. QED BY <2>1, <2>2 DEF SSHStays
<1>7. QED BY <1>2, <1>3, <1>4, <1>5, <1>6

(* The entries of execution e and of its Worker, by name.                  *)
SWKnown(e, w, r, x, p, n, k, c) ==
    /\ w = SWTarget[e] /\ w \in SWWorkers
    /\ r = srun[e] /\ x = sexec[e] /\ p = proc[e] /\ n = started[e]
    /\ k = sworker[w] /\ c = cloud[w]
    /\ r \in SRunRow /\ x \in SXRow /\ p \in SProc /\ n \in Nat /\ k \in SWRow
    /\ c \in SUBSET Resources
    /\ srun = [srun EXCEPT ![e] = r] /\ sexec = [sexec EXCEPT ![e] = x]
    /\ proc = [proc EXCEPT ![e] = p] /\ started = [started EXCEPT ![e] = n]
    /\ sworker = [sworker EXCEPT ![w] = k] /\ cloud = [cloud EXCEPT ![w] = c]
    /\ ExecFits(e, r, x, p, n, k) /\ WorkerFits(w, k, c, sdestroy[w])
    /\ ("instance" \in c \/ k.phase \in Standing) => w \in Up

LEMMA ExecKnown ==
    ASSUME SSHWorkerAssumption, SSHInd, NEW e \in SWExecs
    PROVE  \E w, r, x, p, n, k, c : SWKnown(e, w, r, x, p, n, k, c)
<1> DEFINE w == SWTarget[e]
<1>1. w \in SWWorkers
  BY DEF SSHWorkerAssumption
<1>2. /\ srun[e] \in SRunRow /\ sexec[e] \in SXRow /\ proc[e] \in SProc /\ started[e] \in Nat
      /\ sworker[w] \in SWRow /\ cloud[w] \in SUBSET Resources
  BY <1>1 DEF SSHInd, SWTyped
<1>3. /\ srun = [srun EXCEPT ![e] = srun[e]] /\ sexec = [sexec EXCEPT ![e] = sexec[e]]
      /\ proc = [proc EXCEPT ![e] = proc[e]] /\ started = [started EXCEPT ![e] = started[e]]
      /\ sworker = [sworker EXCEPT ![w] = sworker[w]] /\ cloud = [cloud EXCEPT ![w] = cloud[w]]
  BY <1>1 DEF SSHInd, SWTyped
<1>4. /\ ExecFits(e, srun[e], sexec[e], proc[e], started[e], sworker[w])
      /\ WorkerFits(w, sworker[w], cloud[w], sdestroy[w])
      /\ ("instance" \in cloud[w] \/ sworker[w].phase \in Standing) => w \in Up
  BY <1>1 DEF SSHInd, ExecsFit, WorkersFit, Up
<1>5. SWKnown(e, w, srun[e], sexec[e], proc[e], started[e], sworker[w], cloud[w])
  BY <1>1, <1>2, <1>3, <1>4 DEF SWKnown
<1>6. QED BY <1>5

(* A step that leaves the Worker alone.                                    *)
LEMMA QuietFits ==
    ASSUME NEW e, NEW w, NEW r, NEW x, NEW p, NEW n, NEW k, NEW c,
           SWKnown(e, w, r, x, p, n, k, c), NEW s \in SRunRow, NEW y \in SXRow, NEW q \in SProc,
           NEW m \in Nat, ExecFits(e, s, y, q, m, k), ExecStays(x, y)
    PROVE  SWWritesFit(e, w, s, y, q, m, k, c)
BY DEF SWKnown, SWWritesFit, Yields, WorkerStays, Doomed

LEMMA RunReturns ==
    ASSUME SWTyped, NEW e \in SWExecs, Returns(e) \/ ReturnsUncertain(e)
    PROVE  srun' = [srun EXCEPT ![e] = NoRun] /\ etask' \in [SWExecs -> {"live", "ended"}]
BY DEF SWTyped, Returns, ReturnsUncertain

LEMMA RunGoes ==
    ASSUME NEW e, NEW w, NEW r, NEW x, NEW p, NEW n, NEW k, NEW c,
           SWKnown(e, w, r, x, p, n, k, c),
           NEW pc \in Making \cup Placed \cup {"none", "lease", "leased", "fail"}, SWGoes(e, pc)
    PROVE  \E s \in SRunRow : srun' = [srun EXCEPT ![e] = s] /\ s.pc = pc /\ s.cancelled = r.cancelled
<1>1. [r EXCEPT !.pc = pc] \in SRunRow /\ [r EXCEPT !.pc = pc].pc = pc
      /\ [r EXCEPT !.pc = pc].cancelled = r.cancelled
  BY DEF SWKnown, SRunRow
<1>2. srun' = [srun EXCEPT ![e] = [r EXCEPT !.pc = pc]]
  BY DEF SWKnown, SWGoes
<1>3. QED BY <1>1, <1>2

LEMMA NoRunFits ==
    ASSUME NEW e, NEW w, NEW r, NEW x, NEW p, NEW n, NEW k, NEW c,
           SWKnown(e, w, r, x, p, n, k, c)
    PROVE  NoRun \in SRunRow /\ ExecFits(e, NoRun, x, p, n, k)
BY DEF SWKnown, NoRun, SRunRow, ExecFits, Making, Placed

(* releaseLocked, as the row it writes.                                    *)
ReleasedRow(e, k) ==
    IF k.phase \in Doomed \/ k.cur # e THEN k ELSE [k EXCEPT !.phase = "idle", !.cur = 0]

LEMMA ReleasedWrites ==
    ASSUME SSHWorkerAssumption, NEW e \in SWExecs, NEW w, NEW r, NEW x, NEW p, NEW n, NEW k, NEW c,
           SWKnown(e, w, r, x, p, n, k, c)
    PROVE  /\ Released(e) = [sworker EXCEPT ![w] = ReleasedRow(e, k)]
           /\ ReleasedRow(e, k) \in SWRow
           /\ WorkerFits(w, ReleasedRow(e, k), c, sdestroy[w])
           /\ Yields(e, k, ReleasedRow(e, k)) /\ WorkerStays(k, ReleasedRow(e, k))
           /\ ("instance" \in c \/ ReleasedRow(e, k).phase \in Standing) => w \in Up
<1> USE DEF ReleasedRow
<1>1. CASE k.phase \in Doomed \/ k.cur # e
  BY <1>1 DEF SWKnown, Released, Doomed, Yields, WorkerStays
<1>2. CASE ~(k.phase \in Doomed \/ k.cur # e)
  <2>1. k.phase = "busy" /\ k.cur = e
    BY <1>2 DEF SWKnown, WorkerFits, SSHWorkerAssumption, Doomed
  <2>2. PICK l : l = [k EXCEPT !.phase = "idle", !.cur = 0]
    OBVIOUS
  <2>3. l \in SWRow /\ l.phase = "idle" /\ l.cur = 0 /\ l.gone = k.gone /\ l.known = k.known
    BY <2>2 DEF SWKnown, SWRow, Standing
  <2>4. ReleasedRow(e, k) = l
    BY <1>2, <2>2
  <2>5. Released(e) = [sworker EXCEPT ![w] = l]
    BY <1>2, <2>1, <2>2 DEF SWKnown, Released, Doomed
  <2>6. WorkerFits(w, l, c, sdestroy[w])
    BY <2>1, <2>3 DEF SWKnown, WorkerFits, Torn, Doomed
  <2>7. Yields(e, k, l) /\ WorkerStays(k, l) /\ w \in Up
    BY <2>1, <2>3 DEF SWKnown, Yields, WorkerStays, Standing, Doomed
  <2>8. QED BY <2>3, <2>4, <2>5, <2>6, <2>7
<1>3. QED BY <1>1, <1>2

(* A run ends, and its Worker is given back or not.                        *)
RunLeaves(e, y) ==
    /\ y \in SXRow /\ sexec' = [sexec EXCEPT ![e] = y]
    /\ Returns(e) \/ ReturnsUncertain(e)
    /\ sworker' \in {sworker, Released(e)}
    /\ UNCHANGED <<cloud, sdestroy, proc, started>>

LEMMA RunEnds ==
    ASSUME SSHWorkerAssumption, SSHInd, NEW e \in SWExecs, NEW w, NEW r, NEW x, NEW p, NEW n,
           NEW k, NEW c, SWKnown(e, w, r, x, p, n, k, c), NEW y, RunLeaves(e, y),
           ExecStays(x, y), x.phase = "none" \/ y.phase # "none"
    PROVE  SSHInd' /\ SSHStays
<1>1. PICK l \in {k, ReleasedRow(e, k)} : sworker' = [sworker EXCEPT ![w] = l]
  BY ReleasedWrites DEF SWKnown, RunLeaves
<1>2. ExecFits(e, NoRun, y, p, n, l)
  BY DEF SWKnown, NoRun, ExecFits, Making, Placed
<1>3. SWWrites(e, w, NoRun, y, p, n, l, c)
  BY <1>1, RunReturns DEF SWKnown, SWWrites, SSHInd, RunLeaves
<1>4. y \in SXRow /\ p \in SProc /\ n \in Nat
  BY DEF SWKnown, RunLeaves
<1>5. CASE l = k
  <2>1. SWWritesFit(e, w, NoRun, y, p, n, l, c)
    BY <1>2, <1>4, <1>5, NoRunFits, QuietFits
  <2>2. QED BY <1>3, <2>1, ExecMoves DEF SWKnown
<1>6. CASE l = ReleasedRow(e, k)
  <2>1. SWWritesFit(e, w, NoRun, y, p, n, l, c)
    BY <1>2, <1>4, <1>6, NoRunFits, ReleasedWrites DEF SWWritesFit, SWKnown
  <2>2. QED BY <1>3, <2>1, ExecMoves DEF SWKnown
<1>7. QED BY <1>5, <1>6

(* A run goes on and leaves the Worker alone.                              *)
GoesOn(e, s, y, q, m) ==
    /\ s \in SRunRow /\ y \in SXRow /\ q \in SProc /\ m \in Nat
    /\ srun' = [srun EXCEPT ![e] = s] /\ sexec' = [sexec EXCEPT ![e] = y]
    /\ proc' = [proc EXCEPT ![e] = q] /\ started' = [started EXCEPT ![e] = m]
    /\ etask' \in [SWExecs -> {"live", "ended"}] /\ UNCHANGED <<sworker, cloud, sdestroy>>

LEMMA RunGoesOn ==
    ASSUME SSHWorkerAssumption, SSHInd, NEW e \in SWExecs, NEW w, NEW r, NEW x, NEW p, NEW n,
           NEW k, NEW c, SWKnown(e, w, r, x, p, n, k, c), NEW s, NEW y, NEW q, NEW m,
           GoesOn(e, s, y, q, m), ExecFits(e, s, y, q, m, k), ExecStays(x, y)
    PROVE  SSHInd' /\ SSHStays
<1>1. SWWrites(e, w, s, y, q, m, k, c)
  BY DEF SWKnown, SWWrites, GoesOn
<1>2. SWWritesFit(e, w, s, y, q, m, k, c)
  BY QuietFits DEF GoesOn
<1>3. QED BY <1>1, <1>2, ExecMoves DEF SWKnown

LEMMA RegisterExecutionKeeps ==
    ASSUME SSHWorkerAssumption, SSHInd, NEW e \in SWExecs, RegisterExecution(e)
    PROVE  SSHInd' /\ SSHStays
<1>0. PICK w, r, x, p, n, k, c : SWKnown(e, w, r, x, p, n, k, c)
  BY ExecKnown
<1>t. etask \in [SWExecs -> {"live", "ended"}] /\ SWTyped
  BY DEF SSHInd, SWTyped
<1>x. ExecStays(x, x)
  BY DEF ExecStays
<1>1. CASE Returns(e)
  <2>1. RunLeaves(e, x)
    BY <1>0, <1>1 DEF RegisterExecution, SWKnown, RunLeaves
  <2>2. QED BY <1>0, <1>x, <2>1, RunEnds
<1>2. CASE SWGoes(e, "lease") /\ UNCHANGED etask
  <2>1. PICK s \in SRunRow : srun' = [srun EXCEPT ![e] = s] /\ s.pc = "lease"
    BY <1>0, <1>2, RunGoes
  <2>2. ExecFits(e, s, x, p, n, k)
    BY <1>0, <2>1 DEF SWKnown, ExecFits, RegisterExecution, Making, Placed
  <2>3. GoesOn(e, s, x, p, n)
    BY <1>0, <1>2, <1>t, <1>x, <2>1, <2>2 DEF GoesOn, RegisterExecution, SWKnown
  <2>4. QED BY <1>0, <1>2, <1>x, <2>1, <2>2, <2>3, RunGoesOn
<1>3. QED BY <1>1, <1>2 DEF RegisterExecution

LEMMA PrepareKeeps ==
    ASSUME SSHWorkerAssumption, SSHInd, NEW e \in SWExecs, Prepare(e)
    PROVE  SSHInd' /\ SSHStays
<1>0. PICK w, r, x, p, n, k, c : SWKnown(e, w, r, x, p, n, k, c)
  BY ExecKnown
<1>t. etask \in [SWExecs -> {"live", "ended"}] /\ SWTyped
  BY DEF SSHInd, SWTyped
<1>x. ExecStays(x, x)
  BY DEF ExecStays
<1>1. PICK pc \in {"start", "fail"} : SWGoes(e, pc)
  BY DEF Prepare
<1>2. PICK s \in SRunRow : srun' = [srun EXCEPT ![e] = s] /\ s.pc = pc
  BY <1>0, <1>1, RunGoes DEF Placed
<1>3. ExecFits(e, s, x, "none", n, k)
  BY <1>0, <1>2 DEF SWKnown, ExecFits, Prepare, Making, Placed
<1>4. GoesOn(e, s, x, "none", n)
  BY <1>0, <1>t, <1>x, <1>2, <1>3 DEF GoesOn, Prepare, AtWork, SWKnown, SProc
<1>5. QED BY <1>0, <1>x, <1>2, <1>3, <1>4, RunGoesOn

LEMMA ResumeKeeps ==
    ASSUME SSHWorkerAssumption, SSHInd, NEW e \in SWExecs, Resume(e)
    PROVE  SSHInd' /\ SSHStays
<1>0. PICK w, r, x, p, n, k, c : SWKnown(e, w, r, x, p, n, k, c)
  BY ExecKnown
<1>t. etask \in [SWExecs -> {"live", "ended"}] /\ SWTyped
  BY DEF SSHInd, SWTyped
<1>x. ExecStays(x, x)
  BY DEF ExecStays
<1>1. PICK pc \in {"wait", "fail"} : SWGoes(e, pc)
  BY DEF Resume
<1>2. PICK s \in SRunRow : srun' = [srun EXCEPT ![e] = s] /\ s.pc = pc
  BY <1>0, <1>1, RunGoes DEF Placed
<1>3. ExecFits(e, s, x, p, n, k)
  BY <1>0, <1>2 DEF SWKnown, ExecFits, Resume, Making, Placed
<1>4. GoesOn(e, s, x, p, n)
  BY <1>0, <1>t, <1>x, <1>2, <1>3 DEF GoesOn, Resume, AtWork, SWKnown
<1>5. QED BY <1>0, <1>x, <1>2, <1>3, <1>4, RunGoesOn

LEMMA StartKeeps ==
    ASSUME SSHWorkerAssumption, SSHInd, NEW e \in SWExecs, Start(e)
    PROVE  SSHInd' /\ SSHStays
<1>0. PICK w, r, x, p, n, k, c : SWKnown(e, w, r, x, p, n, k, c)
  BY ExecKnown
<1>t. etask \in [SWExecs -> {"live", "ended"}] /\ SWTyped
  BY DEF SSHInd, SWTyped
<1>x. ExecStays(x, x)
  BY DEF ExecStays
<1>1. PICK q \in SProc, m \in Nat :
         /\ proc' = [proc EXCEPT ![e] = q] /\ started' = [started EXCEPT ![e] = m]
         /\ (q = p /\ m = n) \/ (p = "none" /\ q = "running" /\ m = n + 1)
  BY <1>0 DEF SWKnown, Start, SProc
<1>2. PICK s \in SRunRow : /\ srun' = [srun EXCEPT ![e] = s] /\ s.pc \in {"wait", "fail", "none"}
                           /\ etask' \in [SWExecs -> {"live", "ended"}]
  <2>1. CASE Returns(e) \/ ReturnsUncertain(e)
    BY <1>0, <1>t, <2>1, RunReturns, NoRunFits DEF NoRun
  <2>2. CASE (SWGoes(e, "wait") \/ SWGoes(e, "fail")) /\ UNCHANGED etask
    BY <1>0, <1>t, <2>2, RunGoes DEF Placed
  <2>3. QED BY <2>1, <2>2 DEF Start, Ambiguous
<1>3. ExecFits(e, s, x, q, m, k)
  BY <1>0, <1>1, <1>2 DEF SWKnown, ExecFits, Start, Making, Placed, SProc
<1>4. GoesOn(e, s, x, q, m)
  BY <1>0, <1>x, <1>1, <1>2, <1>3 DEF GoesOn, Start, AtWork, SWKnown
<1>5. QED BY <1>0, <1>x, <1>1, <1>2, <1>3, <1>4, RunGoesOn

LEMMA WaitRuntimeKeeps ==
    ASSUME SSHWorkerAssumption, SSHInd, NEW e \in SWExecs, WaitRuntime(e)
    PROVE  SSHInd' /\ SSHStays
<1>0. PICK w, r, x, p, n, k, c : SWKnown(e, w, r, x, p, n, k, c)
  BY ExecKnown
<1>t. etask \in [SWExecs -> {"live", "ended"}] /\ SWTyped
  BY DEF SSHInd, SWTyped
<1>1. PICK q \in SProc : proc' = [proc EXCEPT ![e] = q] /\ (q = p \/ q = "ended")
  BY <1>0 DEF SWKnown, WaitRuntime, SProc
<1>2. PICK s \in SRunRow : /\ srun' = [srun EXCEPT ![e] = s]
                           /\ s.pc \in {"start", "collect", "fail", "none"}
                           /\ etask' \in [SWExecs -> {"live", "ended"}]
  <2>1. CASE ReturnsUncertain(e)
    BY <1>0, <1>t, <2>1, RunReturns, NoRunFits DEF NoRun
  <2>2. CASE (SWGoes(e, "start") \/ SWGoes(e, "collect") \/ SWGoes(e, "fail")) /\ UNCHANGED etask
    BY <1>0, <1>t, <2>2, RunGoes DEF Placed
  <2>3. QED BY <2>1, <2>2 DEF WaitRuntime, Ambiguous
<1>3. PICK y \in SXRow : sexec' = [sexec EXCEPT ![e] = y] /\ y.phase = x.phase
  <2>1. CASE sexec' = sexec
    BY <1>0, <2>1 DEF SWKnown
  <2>2. CASE sexec' = [sexec EXCEPT ![e].remote = TRUE]
    <3>1. [x EXCEPT !.remote = TRUE] \in SXRow /\ [x EXCEPT !.remote = TRUE].phase = x.phase
      BY <1>0 DEF SWKnown, SXRow
    <3>2. sexec' = [sexec EXCEPT ![e] = [x EXCEPT !.remote = TRUE]]
      BY <1>0, <2>2 DEF SWKnown
    <3>3. QED BY <3>1, <3>2
  <2>3. QED BY <2>1, <2>2 DEF WaitRuntime
<1>4. ExecFits(e, s, y, q, n, k)
  BY <1>0, <1>1, <1>2, <1>3 DEF SWKnown, ExecFits, WaitRuntime, Making, Placed
<1>5. ExecStays(x, y)
  BY <1>3 DEF ExecStays
<1>6. GoesOn(e, s, y, q, n)
  BY <1>0, <1>1, <1>2, <1>3, <1>4, <1>5 DEF GoesOn, WaitRuntime, AtWork, SWKnown
<1>7. QED BY <1>0, <1>1, <1>2, <1>3, <1>4, <1>5, <1>6, RunGoesOn

LEMMA CollectKeeps ==
    ASSUME SSHWorkerAssumption, SSHInd, NEW e \in SWExecs, Collect(e)
    PROVE  SSHInd' /\ SSHStays
<1>0. PICK w, r, x, p, n, k, c : SWKnown(e, w, r, x, p, n, k, c)
  BY ExecKnown
<1>t. etask \in [SWExecs -> {"live", "ended"}] /\ SWTyped
  BY DEF SSHInd, SWTyped
<1>x. ExecStays(x, x)
  BY DEF ExecStays
<1>1. PICK s \in SRunRow : /\ srun' = [srun EXCEPT ![e] = s] /\ s.pc \in {"complete", "fail", "none"}
                           /\ etask' \in [SWExecs -> {"live", "ended"}]
  <2>1. CASE Returns(e) \/ ReturnsUncertain(e)
    BY <1>0, <1>t, <2>1, RunReturns, NoRunFits DEF NoRun
  <2>2. CASE (SWGoes(e, "complete") \/ SWGoes(e, "fail")) /\ UNCHANGED etask
    BY <1>0, <1>t, <2>2, RunGoes DEF Placed
  <2>3. QED BY <2>1, <2>2 DEF Collect
<1>2. ExecFits(e, s, x, p, n, k)
  BY <1>0, <1>1 DEF SWKnown, ExecFits, Collect, Making, Placed
<1>3. GoesOn(e, s, x, p, n)
  BY <1>0, <1>x, <1>1, <1>2 DEF GoesOn, Collect, AtWork, SWKnown
<1>4. QED BY <1>0, <1>x, <1>1, <1>2, <1>3, RunGoesOn

LEMMA CompleteExecutionKeeps ==
    ASSUME SSHWorkerAssumption, SSHInd, NEW e \in SWExecs, CompleteExecution(e)
    PROVE  SSHInd' /\ SSHStays
<1>0. PICK w, r, x, p, n, k, c : SWKnown(e, w, r, x, p, n, k, c)
  BY ExecKnown
<1>x. ExecStays(x, x)
  BY DEF ExecStays
<1>1. CASE UNCHANGED <<sexec, sworker>>
  <2>1. RunLeaves(e, x)
    BY <1>0, <1>1 DEF CompleteExecution, SWKnown, RunLeaves
  <2>2. QED BY <1>0, <1>x, <2>1, RunEnds
<1>2. CASE /\ StillOwned(e) /\ sexec' = [sexec EXCEPT ![e].phase = "completed"]
           /\ sworker' \in {sworker, Released(e)}
  <2>1. x.phase = "running"
    BY <1>0, <1>2 DEF SWKnown, StillOwned, ExecFits, CompleteExecution, Placed, Doomed
  <2>2. PICK y : y = [x EXCEPT !.phase = "completed"]
    OBVIOUS
  <2>3. y \in SXRow /\ y.phase = "completed" /\ ExecStays(x, y)
    BY <1>0, <2>1, <2>2 DEF SWKnown, SXRow, ExecStays
  <2>4. sexec' = [sexec EXCEPT ![e] = y]
    BY <1>0, <1>2, <2>2 DEF SWKnown
  <2>5. RunLeaves(e, y)
    BY <1>2, <2>3, <2>4 DEF CompleteExecution, RunLeaves
  <2>6. QED BY <1>0, <2>3, <2>5, RunEnds
<1>3. QED BY <1>1, <1>2 DEF CompleteExecution

LEMMA FailExecutionKeeps ==
    ASSUME SSHWorkerAssumption, SSHInd, NEW e \in SWExecs, FailExecution(e)
    PROVE  SSHInd' /\ SSHStays
<1>0. PICK w, r, x, p, n, k, c : SWKnown(e, w, r, x, p, n, k, c)
  BY ExecKnown
<1>1. PICK ph \in {x.phase, "failed"} : sexec' = [sexec EXCEPT ![e].phase = ph]
  BY <1>0 DEF SWKnown, FailExecution
<1>2. PICK y : y = [x EXCEPT !.phase = ph]
  OBVIOUS
<1>3. x.phase \in {"running", "failed"}
  BY <1>0 DEF SWKnown, FailExecution, ExecFits
<1>4. y \in SXRow /\ y.phase # "none" /\ ExecStays(x, y)
  BY <1>0, <1>2, <1>3 DEF SWKnown, SXRow, ExecStays
<1>5. sexec' = [sexec EXCEPT ![e] = y]
  BY <1>0, <1>1, <1>2 DEF SWKnown
<1>6. RunLeaves(e, y)
  BY <1>4, <1>5 DEF FailExecution, RunLeaves
<1>7. QED BY <1>0, <1>4, <1>6, RunEnds

LEMMA CancelRunKeeps ==
    ASSUME SSHWorkerAssumption, SSHInd, NEW e \in SWExecs, CancelRun(e)
    PROVE  SSHInd' /\ SSHStays
<1>0. PICK w, r, x, p, n, k, c : SWKnown(e, w, r, x, p, n, k, c)
  BY ExecKnown
<1>t. etask \in [SWExecs -> {"live", "ended"}] /\ SWTyped
  BY DEF SSHInd, SWTyped
<1>x. ExecStays(x, x)
  BY DEF ExecStays
<1>1. PICK s : s = [r EXCEPT !.cancelled = TRUE]
  OBVIOUS
<1>2. s \in SRunRow /\ s.pc = r.pc /\ srun' = [srun EXCEPT ![e] = s]
  BY <1>0, <1>1 DEF SWKnown, SRunRow, CancelRun
<1>3. ExecFits(e, s, x, p, n, k)
  BY <1>0, <1>2 DEF SWKnown, ExecFits
<1>4. etask' \in [SWExecs -> {"live", "ended"}]
  BY <1>t DEF CancelRun
<1>5. GoesOn(e, s, x, p, n)
  BY <1>0, <1>x, <1>2, <1>3, <1>4 DEF GoesOn, CancelRun, SWKnown
<1>6. QED BY <1>0, <1>x, <1>2, <1>3, <1>4, <1>5, RunGoesOn

LEMMA ProcessEndsKeeps ==
    ASSUME SSHWorkerAssumption, SSHInd, NEW e \in SWExecs, ProcessEnds(e)
    PROVE  SSHInd' /\ SSHStays
<1>0. PICK w, r, x, p, n, k, c : SWKnown(e, w, r, x, p, n, k, c)
  BY ExecKnown
<1>t. etask \in [SWExecs -> {"live", "ended"}] /\ SWTyped
  BY DEF SSHInd, SWTyped
<1>x. ExecStays(x, x)
  BY DEF ExecStays
<1>1. ExecFits(e, r, x, "ended", n, k)
  BY <1>0 DEF SWKnown, ExecFits, ProcessEnds
<1>2. GoesOn(e, r, x, "ended", n)
  BY <1>0, <1>t, <1>x, <1>1 DEF GoesOn, ProcessEnds, SWKnown, SProc
<1>3. QED BY <1>0, <1>x, <1>1, <1>2, RunGoesOn

(* checkCreateCapacity counts every Worker that has or may get an instance. *)
LEMMA CapacityLeft ==
    ASSUME SSHWorkerAssumption, HasCapacity
    PROVE  Cardinality(Up) < SWMaxWorkers
<1> DEFINE R == {w \in SWWorkers : Retained(w)}
           U == {w \in SWWorkers : Untracked(w)}
<1>1. IsFiniteSet(SWWorkers)
  BY FS_Subset DEF SSHWorkerAssumption, SWWorkers
<1>2. /\ IsFiniteSet(R) /\ IsFiniteSet(U) /\ IsFiniteSet(R \cup U)
      /\ Cardinality(R) \in Nat /\ Cardinality(U) \in Nat /\ Cardinality(R \cup U) \in Nat
  BY <1>1, FS_Subset, FS_CardinalityType, FS_Union
<1>3. Cardinality(R \cup U) <= Cardinality(R) + Cardinality(U)
  <2>1. Cardinality(R \cup U) = Cardinality(R) + Cardinality(U) - Cardinality(R \cap U)
    BY <1>2, FS_Union
  <2>2. Cardinality(R \cap U) \in Nat
    BY <1>2, FS_Intersection, FS_CardinalityType
  <2>3. QED BY <1>2, <2>1, <2>2
<1>4. Up \subseteq R \cup U
  BY DEF Up, Retained, Untracked, Standing
<1>5. Cardinality(Up) <= Cardinality(R \cup U) /\ Cardinality(Up) \in Nat
  BY <1>2, <1>4, FS_Subset, FS_CardinalityType
<1>6. Cardinality(R) + Cardinality(U) < SWMaxWorkers
  BY DEF HasCapacity
<1>7. QED BY <1>2, <1>3, <1>5, <1>6 DEF SSHWorkerAssumption

(* What is found under the Worker's tags is recorded.                      *)
LEMMA FoundFits ==
    ASSUME SSHWorkerAssumption, NEW e \in SWExecs, NEW w, NEW r, NEW x, NEW p, NEW n, NEW k, NEW c,
           SWKnown(e, w, r, x, p, n, k, c), k.phase # "destroyed",
           NEW found \in SUBSET Resources, Finds(w, found)
    PROVE  \E l \in SWRow : /\ sworker' = [sworker EXCEPT ![w] = l]
                            /\ l.phase = k.phase /\ l.cur = k.cur /\ l.gone = k.gone
                            /\ l.known = k.known \cup found
                            /\ WorkerFits(w, l, c, sdestroy[w]) /\ WorkerStays(k, l)
<1>1. PICK l : l = [k EXCEPT !.known = @ \cup found]
  OBVIOUS
<1>2. /\ l \in SWRow /\ l.phase = k.phase /\ l.cur = k.cur /\ l.gone = k.gone
      /\ l.known = k.known \cup found
  BY <1>1 DEF SWKnown, SWRow
<1>3. WorkerFits(w, l, c, sdestroy[w]) /\ WorkerStays(k, l)
  BY <1>2 DEF SWKnown, WorkerFits, WorkerStays, Doomed
<1>4. sworker' = [sworker EXCEPT ![w] = l]
  BY <1>1 DEF SWKnown, Finds
<1>5. QED BY <1>2, <1>3, <1>4

LEMMA LeaseEnds ==
    ASSUME SSHWorkerAssumption, SSHInd, NEW e \in SWExecs, Returns(e),
           sworker' \in {sworker, Released(e)}, UNCHANGED <<sexec, cloud, sdestroy, proc, started>>
    PROVE  SSHInd' /\ SSHStays
<1>0. PICK w, r, x, p, n, k, c : SWKnown(e, w, r, x, p, n, k, c)
  BY ExecKnown
<1>1. RunLeaves(e, x)
  BY <1>0 DEF SWKnown, RunLeaves
<1>2. ExecStays(x, x)
  BY DEF ExecStays
<1>3. QED BY <1>0, <1>1, <1>2, RunEnds

LEMMA ResumedKeeps ==
    ASSUME SSHWorkerAssumption, SSHInd, NEW e \in SWExecs, srun[e].pc = "lease", Resumed(e),
           UNCHANGED <<sexec, cloud, sdestroy, proc, started>>
    PROVE  SSHInd' /\ SSHStays
<1>0. PICK w, r, x, p, n, k, c : SWKnown(e, w, r, x, p, n, k, c)
  BY ExecKnown
<1>t. etask \in [SWExecs -> {"live", "ended"}] /\ SWTyped
  BY DEF SSHInd, SWTyped
<1>x. ExecStays(x, x)
  BY DEF ExecStays
<1>1. CASE Returns(e)
  BY <1>1, LeaseEnds DEF Resumed
<1>2. CASE /\ x.phase = "running" /\ k.phase = "busy" /\ k.cur = e
           /\ SWGoes(e, "resume") /\ UNCHANGED <<etask, sworker>>
  <2>1. PICK s \in SRunRow : srun' = [srun EXCEPT ![e] = s] /\ s.pc = "resume"
    BY <1>0, <1>2, RunGoes DEF Placed
  <2>2. ExecFits(e, s, x, p, n, k)
    BY <1>0, <1>2, <2>1 DEF SWKnown, ExecFits, Making, Placed
  <2>3. GoesOn(e, s, x, p, n)
    BY <1>0, <1>2, <1>t, <2>1 DEF GoesOn, SWKnown
  <2>4. QED BY <1>0, <1>x, <2>2, <2>3, RunGoesOn
<1>3. QED BY <1>0, <1>1, <1>2 DEF Resumed, SWKnown

LEMMA ReusedKeeps ==
    ASSUME SSHWorkerAssumption, SSHInd, NEW e \in SWExecs, srun[e].pc = "lease", sexec[e].phase = "none",
           Reused(e), UNCHANGED <<sexec, cloud, sdestroy, proc, started>>
    PROVE  SSHInd' /\ SSHStays
<1>0. PICK w, r, x, p, n, k, c : SWKnown(e, w, r, x, p, n, k, c)
  BY ExecKnown
<1>t. etask \in [SWExecs -> {"live", "ended"}] /\ SWTyped
  BY DEF SSHInd, SWTyped
<1>x. ExecStays(x, x)
  BY DEF ExecStays
<1>1. CASE Returns(e) /\ UNCHANGED sworker
  BY <1>1, LeaseEnds
<1>2. CASE /\ k.phase = "idle" /\ sworker' = [sworker EXCEPT ![w].phase = "busy", ![w].cur = e]
           /\ SWGoes(e, "leased") /\ UNCHANGED etask
  <2>1. PICK s \in SRunRow : srun' = [srun EXCEPT ![e] = s] /\ s.pc = "leased"
    BY <1>0, <1>2, RunGoes
  <2>2. PICK l : l = [k EXCEPT !.phase = "busy", !.cur = e]
    OBVIOUS
  <2>3. l \in SWRow /\ l.phase = "busy" /\ l.cur = e /\ l.gone = k.gone /\ l.known = k.known
    BY <1>0, <2>2 DEF SWKnown, SWRow, Standing
  <2>4. sworker' = [sworker EXCEPT ![w] = l]
    BY <1>0, <1>2, <2>2 DEF SWKnown
  <2>5. SWWrites(e, w, s, x, p, n, l, c)
    BY <1>0, <1>2, <1>t, <2>1, <2>4 DEF SWKnown, SWWrites
  <2>6. ExecFits(e, s, x, p, n, l)
    BY <1>0, <2>1, <2>3 DEF SWKnown, ExecFits, Making, Placed
  <2>7. WorkerFits(w, l, c, sdestroy[w])
    BY <1>0, <1>2, <2>3 DEF SWKnown, WorkerFits, Torn, Doomed
  <2>8. Yields(e, k, l) /\ WorkerStays(k, l) /\ w \in Up
    BY <1>0, <1>2, <2>3 DEF SWKnown, WorkerFits, Yields, WorkerStays, Doomed, Standing
  <2>9. SWWritesFit(e, w, s, x, p, n, l, c)
    BY <1>0, <1>x, <2>1, <2>3, <2>6, <2>7, <2>8 DEF SWKnown, SWWritesFit
  <2>10. QED BY <1>0, <2>5, <2>9, ExecMoves DEF SWKnown
<1>3. QED BY <1>0, <1>1, <1>2 DEF Reused, SWKnown

LEMMA IntendedKeeps ==
    ASSUME SSHWorkerAssumption, SSHInd, NEW e \in SWExecs, SWTarget[e] = e, srun[e].pc = "lease",
           sexec[e].phase = "none", Intended(e), UNCHANGED <<sexec, cloud, sdestroy, proc, started>>
    PROVE  SSHInd' /\ SSHStays
<1>0. PICK w, r, x, p, n, k, c : SWKnown(e, w, r, x, p, n, k, c)
  BY ExecKnown
<1>t. etask \in [SWExecs -> {"live", "ended"}] /\ SWTyped
  BY DEF SSHInd, SWTyped
<1>x. ExecStays(x, x)
  BY DEF ExecStays
<1>w. w = e
  BY <1>0 DEF SWKnown
<1>1. CASE Returns(e) /\ UNCHANGED sworker
  BY <1>1, LeaseEnds
<1>2. CASE k.phase = "provisioning" /\ SWGoes(e, "key") /\ UNCHANGED <<sworker, etask>>
  <2>1. PICK s \in SRunRow : srun' = [srun EXCEPT ![e] = s] /\ s.pc = "key"
    BY <1>0, <1>2, RunGoes DEF Making
  <2>2. ExecFits(e, s, x, p, n, k)
    BY <1>0, <1>2, <2>1 DEF SWKnown, ExecFits, Making, Placed
  <2>3. GoesOn(e, s, x, p, n)
    BY <1>0, <1>2, <1>t, <2>1 DEF GoesOn, SWKnown
  <2>4. QED BY <1>0, <1>x, <2>2, <2>3, RunGoesOn
<1>3. CASE /\ k.phase = "none" /\ HasCapacity
           /\ sworker' = [sworker EXCEPT ![e].phase = "provisioning"]
           /\ SWGoes(e, "key") /\ UNCHANGED etask
  <2>1. PICK s \in SRunRow : srun' = [srun EXCEPT ![e] = s] /\ s.pc = "key"
    BY <1>0, <1>3, RunGoes DEF Making
  <2>2. PICK l : l = [k EXCEPT !.phase = "provisioning"]
    OBVIOUS
  <2>3. l \in SWRow /\ l.phase = "provisioning" /\ l.cur = k.cur /\ l.gone = k.gone /\ l.known = k.known
    BY <1>0, <2>2 DEF SWKnown, SWRow, Standing
  <2>4. sworker' = [sworker EXCEPT ![w] = l]
    BY <1>0, <1>w, <1>3, <2>2 DEF SWKnown
  <2>5. SWWrites(e, w, s, x, p, n, l, c)
    BY <1>0, <1>3, <1>t, <2>1, <2>4 DEF SWKnown, SWWrites
  <2>6. ExecFits(e, s, x, p, n, l)
    BY <1>0, <2>1, <2>3 DEF SWKnown, ExecFits, Making, Placed
  <2>7. WorkerFits(w, l, c, sdestroy[w])
    BY <1>0, <1>3, <2>3 DEF SWKnown, WorkerFits, Torn, Doomed
  <2>8. Yields(e, k, l) /\ WorkerStays(k, l)
    BY <1>0, <1>3, <2>3 DEF SWKnown, WorkerFits, Yields, WorkerStays, Doomed
  <2>9. SWWritesFit(e, w, s, x, p, n, l, c)
    BY <1>0, <1>x, <1>3, <2>1, <2>3, <2>6, <2>7, <2>8, CapacityLeft DEF SWKnown, SWWritesFit
  <2>10. QED BY <1>0, <2>5, <2>9, ExecMoves DEF SWKnown
<1>4. CASE /\ k.phase = "provisioning" /\ \E found \in SUBSET cloud[e] : Finds(e, found)
           /\ Returns(e)
  <2>1. PICK found \in SUBSET Resources : Finds(w, found)
    BY <1>0, <1>w, <1>4 DEF SWKnown
  <2>2. PICK l \in SWRow : /\ sworker' = [sworker EXCEPT ![w] = l]
                           /\ l.phase = k.phase /\ l.cur = k.cur /\ l.gone = k.gone
                           /\ l.known = k.known \cup found
                           /\ WorkerFits(w, l, c, sdestroy[w]) /\ WorkerStays(k, l)
    BY <1>0, <1>4, <2>1, FoundFits
  <2>3. SWWrites(e, w, NoRun, x, p, n, l, c)
    BY <1>0, <1>4, <1>t, <2>2, RunReturns DEF SWKnown, SWWrites
  <2>4. ExecFits(e, NoRun, x, p, n, l)
    BY <1>0 DEF SWKnown, NoRun, ExecFits, Making, Placed
  <2>5. SWWritesFit(e, w, NoRun, x, p, n, l, c)
    BY <1>0, <1>x, <2>2, <2>4, NoRunFits DEF SWKnown, SWWritesFit, Yields
  <2>6. QED BY <1>0, <2>3, <2>5, ExecMoves DEF SWKnown
<1>5. QED BY <1>0, <1>w, <1>1, <1>2, <1>3, <1>4 DEF Intended, SWKnown

LEMMA LeaseKeeps ==
    ASSUME SSHWorkerAssumption, SSHInd, NEW e \in SWExecs, Lease(e)
    PROVE  SSHInd' /\ SSHStays
<1>1. srun[e].pc = "lease" /\ UNCHANGED <<sexec, cloud, sdestroy, proc, started>>
  BY DEF Lease
<1>2. CASE srun[e].cancelled /\ Returns(e) /\ UNCHANGED sworker
  BY <1>1, <1>2, LeaseEnds
<1>3. CASE Resumed(e)
  BY <1>1, <1>3, ResumedKeeps
<1>4. CASE sexec[e].phase = "none" /\ SWTarget[e] = e /\ Intended(e)
  BY <1>1, <1>4, IntendedKeeps
<1>5. CASE sexec[e].phase = "none" /\ Reused(e)
  BY <1>1, <1>5, ReusedKeeps
<1>6. QED BY <1>2, <1>3, <1>4, <1>5 DEF Lease

LEMMA SaveLeaseKeeps ==
    ASSUME SSHWorkerAssumption, SSHInd, NEW e \in SWExecs, SaveLease(e)
    PROVE  SSHInd' /\ SSHStays
<1>0. PICK w, r, x, p, n, k, c : SWKnown(e, w, r, x, p, n, k, c)
  BY ExecKnown
<1>t. etask \in [SWExecs -> {"live", "ended"}] /\ SWTyped
  BY DEF SSHInd, SWTyped
<1>1. CASE Returns(e) /\ sworker' \in {sworker, Released(e)} /\ UNCHANGED sexec
  BY <1>1, LeaseEnds DEF SaveLease
<1>2. CASE /\ sexec' = [sexec EXCEPT ![e].phase = "running"]
           /\ SWGoes(e, "prepare") /\ UNCHANGED <<sworker, etask>>
  <2>1. PICK s \in SRunRow : srun' = [srun EXCEPT ![e] = s] /\ s.pc = "prepare"
    BY <1>0, <1>2, RunGoes DEF Placed
  <2>2. PICK y : y = [x EXCEPT !.phase = "running"]
    OBVIOUS
  <2>3. y \in SXRow /\ y.phase = "running" /\ sexec' = [sexec EXCEPT ![e] = y]
    BY <1>0, <1>2, <2>2 DEF SWKnown, SXRow
  <2>4. x.phase = "none"
    BY <1>0 DEF SWKnown, ExecFits, SaveLease
  <2>5. ExecFits(e, s, y, p, n, k) /\ ExecStays(x, y)
    BY <1>0, <2>1, <2>3, <2>4 DEF SWKnown, ExecFits, ExecStays, SaveLease, Making, Placed
  <2>6. GoesOn(e, s, y, p, n)
    BY <1>0, <1>2, <1>t, <2>1, <2>3 DEF GoesOn, SWKnown, SaveLease
  <2>7. QED BY <1>0, <2>5, <2>6, RunGoesOn
<1>3. QED BY <1>1, <1>2 DEF SaveLease

LEMMA BootKeeps ==
    ASSUME SSHWorkerAssumption, SSHInd, NEW e \in SWExecs, SWTarget[e] = e, Boot(e)
    PROVE  SSHInd' /\ SSHStays
<1>0. PICK w, r, x, p, n, k, c : SWKnown(e, w, r, x, p, n, k, c)
  BY ExecKnown
<1>t. etask \in [SWExecs -> {"live", "ended"}] /\ SWTyped
  BY DEF SSHInd, SWTyped
<1>x. ExecStays(x, x)
  BY DEF ExecStays
<1>w. w = e
  BY <1>0 DEF SWKnown
<1>1. CASE Returns(e) /\ UNCHANGED sworker
  BY <1>1, LeaseEnds DEF Boot
<1>2. CASE /\ sworker' = [sworker EXCEPT ![e].phase = "busy", ![e].cur = e]
           /\ SWGoes(e, "leased") /\ UNCHANGED etask
  <2>1. PICK s \in SRunRow : srun' = [srun EXCEPT ![e] = s] /\ s.pc = "leased"
    BY <1>0, <1>2, RunGoes
  <2>2. PICK l : l = [k EXCEPT !.phase = "busy", !.cur = e]
    OBVIOUS
  <2>3. l \in SWRow /\ l.phase = "busy" /\ l.cur = e /\ l.gone = k.gone /\ l.known = k.known
    BY <1>0, <2>2 DEF SWKnown, SWRow, Standing
  <2>4. sworker' = [sworker EXCEPT ![w] = l]
    BY <1>0, <1>w, <1>2, <2>2 DEF SWKnown
  <2>5. SWWrites(e, w, s, x, p, n, l, c)
    BY <1>0, <1>2, <1>t, <2>1, <2>4 DEF SWKnown, SWWrites, Boot
  <2>6. k.phase = "provisioning" /\ x.phase = "none"
    BY <1>0 DEF SWKnown, ExecFits, Boot, Making
  <2>7. ExecFits(e, s, x, p, n, l)
    BY <1>0, <2>1, <2>3, <2>6 DEF SWKnown, ExecFits, Making, Placed
  <2>8. WorkerFits(w, l, c, sdestroy[w])
    BY <1>0, <1>w, <2>3, <2>6 DEF SWKnown, WorkerFits, Torn, Doomed
  <2>9. Yields(e, k, l) /\ WorkerStays(k, l) /\ w \in Up
    BY <1>0, <2>3, <2>6 DEF SWKnown, WorkerFits, Yields, WorkerStays, Doomed, Standing
  <2>10. SWWritesFit(e, w, s, x, p, n, l, c)
    BY <1>0, <1>x, <2>1, <2>3, <2>7, <2>8, <2>9 DEF SWKnown, SWWritesFit
  <2>11. QED BY <1>0, <2>5, <2>10, ExecMoves DEF SWKnown
<1>3. QED BY <1>1, <1>2 DEF Boot

LEMMA ProvisionKeeps ==
    ASSUME SSHWorkerAssumption, SSHInd, NEW e \in SWExecs, SWTarget[e] = e,
           NEW a \in Resources, NEW next \in {"group", "instance", "boot"}, Provision(e, a, next)
    PROVE  SSHInd' /\ SSHStays
<1>0. PICK w, r, x, p, n, k, c : SWKnown(e, w, r, x, p, n, k, c)
  BY ExecKnown
<1>t. etask \in [SWExecs -> {"live", "ended"}] /\ SWTyped
  BY DEF SSHInd, SWTyped
<1>x. ExecStays(x, x)
  BY DEF ExecStays
<1>w. w = e
  BY <1>0 DEF SWKnown
<1>k. k.phase = "provisioning" /\ x.phase = "none" /\ ~k.gone /\ sdestroy[w].pc \notin Torn /\ w \in Up
  BY <1>0 DEF SWKnown, ExecFits, WorkerFits, Provision, Making, Resources, Doomed, Standing
<1>1. PICK s \in SRunRow : /\ srun' = [srun EXCEPT ![e] = s] /\ s.pc \in {next, "none"}
                           /\ etask' \in [SWExecs -> {"live", "ended"}]
  <2>1. CASE Returns(e)
    BY <1>0, <1>t, <2>1, RunReturns, NoRunFits DEF NoRun
  <2>2. CASE SWGoes(e, next) /\ UNCHANGED etask
    BY <1>0, <1>t, <2>2, RunGoes DEF Making
  <2>3. QED BY <2>1, <2>2 DEF Provision
<1>2. PICK b \in SUBSET Resources : cloud' = [cloud EXCEPT ![w] = b]
  <2>1. PICK made \in SUBSET {a} : cloud' = [cloud EXCEPT ![e] = @ \cup made] \/ cloud' = cloud
    BY DEF Provision
  <2>2. c \cup made \in SUBSET Resources
    BY <1>0 DEF SWKnown
  <2>3. QED BY <1>0, <1>w, <2>1, <2>2 DEF SWKnown
<1>3. PICK l \in SWRow : /\ sworker' = [sworker EXCEPT ![w] = l] /\ l.cur = k.cur /\ l.gone = k.gone
                         /\ l.phase = k.phase \/ (l.phase = "failed" /\ s.pc = "none")
  <2>1. CASE sworker' = sworker
    BY <1>0, <2>1 DEF SWKnown
  <2>2. CASE \E found \in SUBSET Resources : Finds(e, found)
    <3>1. PICK found \in SUBSET Resources : Finds(w, found)
      BY <1>w, <2>2
    <3>2. PICK l \in SWRow : /\ sworker' = [sworker EXCEPT ![w] = l]
                             /\ l.phase = k.phase /\ l.cur = k.cur /\ l.gone = k.gone
                             /\ l.known = k.known \cup found
                             /\ WorkerFits(w, l, c, sdestroy[w]) /\ WorkerStays(k, l)
      <4>1. k.phase # "destroyed"
        BY <1>k
      <4>2. QED BY <1>0, <3>1, <4>1, FoundFits
    <3>3. QED BY <3>2
  <2>3. CASE sworker' = [sworker EXCEPT ![e].phase = "failed"] /\ Returns(e)
    <3>1. PICK l : l = [k EXCEPT !.phase = "failed"]
      OBVIOUS
    <3>2. l \in SWRow /\ l.phase = "failed" /\ l.cur = k.cur /\ l.gone = k.gone
      BY <1>0, <3>1 DEF SWKnown, SWRow
    <3>3. sworker' = [sworker EXCEPT ![w] = l]
      BY <1>0, <1>w, <2>3, <3>1 DEF SWKnown
    <3>4. s.pc = "none"
      <4>1. srun'[e] = s /\ srun'[e] = NoRun
        BY <1>1, <1>t, <2>3, RunReturns DEF SWTyped
      <4>2. QED BY <4>1 DEF NoRun
    <3>5. QED BY <3>2, <3>3, <3>4
  <2>4. QED
    <3>1. ASSUME sworker' = [sworker EXCEPT ![e].known = @ \cup {a}] PROVE Finds(e, {a})
      BY <3>1 DEF Finds
    <3>2. c \subseteq Resources /\ cloud[e] = c
      BY <1>0, <1>w DEF SWKnown
    <3>3. {a} \in SUBSET Resources
      OBVIOUS
    <3>4. QED BY <2>1, <2>2, <2>3, <3>1, <3>2, <3>3 DEF Provision
<1>4. SWWrites(e, w, s, x, p, n, l, b)
  BY <1>0, <1>1, <1>2, <1>3 DEF SWKnown, SWWrites, Provision
<1>5. ExecFits(e, s, x, p, n, l)
  BY <1>0, <1>k, <1>1, <1>3 DEF SWKnown, ExecFits, Making, Placed
<1>6. WorkerFits(w, l, b, sdestroy[w])
  BY <1>0, <1>k, <1>3 DEF SWKnown, WorkerFits, Torn, Doomed
<1>7. Yields(e, k, l) /\ WorkerStays(k, l)
  BY <1>k, <1>3 DEF Yields, WorkerStays
<1>8. SWWritesFit(e, w, s, x, p, n, l, b)
  BY <1>0, <1>x, <1>k, <1>1, <1>2, <1>3, <1>5, <1>6, <1>7 DEF SWKnown, SWWritesFit
<1>9. QED BY <1>0, <1>4, <1>8, ExecMoves DEF SWKnown

(***************************************************************************)
(* Destroying a Worker.                                                    *)
(***************************************************************************)
(* A step of the destruction of w writes its entries; an execution it ends *)
(* is one of w, and no run is between its lease and its record.            *)
DestroyWrites(w, k, c, d) ==
    /\ k \in SWRow /\ c \in SUBSET Resources /\ d \in SDRow
    /\ sworker' = [sworker EXCEPT ![w] = k] /\ cloud' = [cloud EXCEPT ![w] = c]
    /\ sdestroy' = [sdestroy EXCEPT ![w] = d] /\ started' = started /\ etask' = etask
    /\ srun' \in [SWExecs -> SRunRow] /\ sexec' \in [SWExecs -> SXRow]
    /\ proc' \in [SWExecs -> SProc]
    /\ \A f \in SWExecs :
          /\ srun'[f].pc = srun[f].pc
          /\ proc[f] = proc'[f] \/ proc'[f] = "ended"
          /\ \/ sexec'[f] = sexec[f]
             \/ /\ SWTarget[f] = w /\ k.phase \in Doomed
                /\ sexec[f].phase = "running" /\ sexec'[f].phase = "failed"
    /\ (k.phase = sworker[w].phase /\ k.cur = sworker[w].cur) \/ (k.phase \in Doomed /\ PoolFree)
    /\ WorkerFits(w, k, c, d) /\ WorkerStays(sworker[w], k)
    /\ ("instance" \in c \/ k.phase \in Standing) => w \in Up

LEMMA DestroyMoves ==
    ASSUME SSHWorkerAssumption, SSHInd, NEW w \in SWWorkers, NEW k, NEW c, NEW d,
           DestroyWrites(w, k, c, d)
    PROVE  SSHInd' /\ SSHStays
<1> USE DEF SSHInd
<1>1. SWTyped'
  BY DEF SWTyped, DestroyWrites
<1>2. sworker'[w] = k /\ cloud'[w] = c /\ sdestroy'[w] = d
  BY DEF SWTyped, DestroyWrites
<1>3. ASSUME NEW v \in SWWorkers, v # w
      PROVE  sworker'[v] = sworker[v] /\ cloud'[v] = cloud[v] /\ sdestroy'[v] = sdestroy[v]
  BY <1>3 DEF SWTyped, DestroyWrites
<1>4. ExecsFit'
  <2> SUFFICES ASSUME NEW f \in SWExecs
               PROVE  ExecFits(f, srun'[f], sexec'[f], proc'[f], started'[f], sworker'[SWTarget[f]])
    BY DEF ExecsFit
  <2>1. ExecFits(f, srun[f], sexec[f], proc[f], started[f], sworker[SWTarget[f]])
    BY DEF ExecsFit
  <2>2. /\ srun'[f].pc = srun[f].pc /\ started'[f] = started[f]
        /\ proc[f] = proc'[f] \/ proc'[f] = "ended"
        /\ \/ sexec'[f] = sexec[f]
           \/ /\ SWTarget[f] = w /\ k.phase \in Doomed
              /\ sexec[f].phase = "running" /\ sexec'[f].phase = "failed"
    BY DEF DestroyWrites
  <2>3. SWTarget[f] \in SWWorkers
    BY DEF SSHWorkerAssumption
  <2>4. CASE SWTarget[f] # w
    <3>1. sworker'[SWTarget[f]] = sworker[SWTarget[f]]
      BY <1>3, <2>3, <2>4
    <3>2. QED BY <2>1, <2>2, <2>4, <3>1 DEF ExecFits
  <2>5. CASE SWTarget[f] = w
    <3>1. CASE k.phase = sworker[w].phase /\ k.cur = sworker[w].cur
      BY <1>2, <2>1, <2>2, <2>5, <3>1 DEF ExecFits
    <3>2. CASE k.phase \in Doomed /\ PoolFree
      <4>1. srun[f].pc \notin Making \cup {"leased"}
        BY <3>2 DEF PoolFree, HoldsPool, Making
      <4>2. QED BY <1>2, <2>1, <2>2, <2>5, <3>2, <4>1 DEF ExecFits
    <3>3. QED BY <3>1, <3>2 DEF DestroyWrites
  <2>6. QED BY <2>4, <2>5
<1>5. WorkersFit'
  <2> SUFFICES ASSUME NEW v \in SWWorkers PROVE WorkerFits(v, sworker'[v], cloud'[v], sdestroy'[v])
    BY DEF WorkersFit
  <2>1. CASE v = w
    BY <1>2, <2>1 DEF DestroyWrites
  <2>2. CASE v # w
    BY <1>3, <2>2 DEF WorkersFit
  <2>3. QED BY <2>1, <2>2
<1>6. UpBounded'
  <2>1. Up' \subseteq Up \cup {w}
    BY <1>3 DEF Up
  <2>2. w \in Up' => w \in Up
    BY <1>2 DEF Up, DestroyWrites
  <2>3. QED BY <2>1, <2>2, UpGrows
<1>7. SSHStays
  <2>1. ASSUME NEW v \in SWWorkers PROVE WorkerStays(sworker[v], sworker'[v])
    <3>1. CASE v = w
      BY <1>2, <3>1 DEF DestroyWrites
    <3>2. CASE v # w
      BY <1>3, <3>2 DEF WorkerStays, Doomed
    <3>3. QED BY <3>1, <3>2
  <2>2. ASSUME NEW f \in SWExecs PROVE ExecStays(sexec[f], sexec'[f])
    BY DEF DestroyWrites, ExecStays
  <2>3. QED BY <2>1, <2>2 DEF SSHStays
<1>8. QED BY <1>1, <1>4, <1>5, <1>6, <1>7

(* The entries of Worker w, by name.                                       *)
DestroyKnown(w, k, c, d) ==
    /\ k = sworker[w] /\ c = cloud[w] /\ d = sdestroy[w]
    /\ k \in SWRow /\ c \in SUBSET Resources /\ d \in SDRow
    /\ sworker = [sworker EXCEPT ![w] = k] /\ cloud = [cloud EXCEPT ![w] = c]
    /\ sdestroy = [sdestroy EXCEPT ![w] = d]
    /\ WorkerFits(w, k, c, d) /\ WorkerStays(k, k)
    /\ ("instance" \in c \/ k.phase \in Standing) => w \in Up
    /\ srun \in [SWExecs -> SRunRow] /\ sexec \in [SWExecs -> SXRow] /\ proc \in [SWExecs -> SProc]

LEMMA WorkerKnown ==
    ASSUME SSHInd, NEW w \in SWWorkers
    PROVE  \E k, c, d : DestroyKnown(w, k, c, d)
<1>1. sworker[w] \in SWRow /\ cloud[w] \in SUBSET Resources /\ sdestroy[w] \in SDRow
  BY DEF SSHInd, SWTyped
<1>2. /\ sworker = [sworker EXCEPT ![w] = sworker[w]] /\ cloud = [cloud EXCEPT ![w] = cloud[w]]
      /\ sdestroy = [sdestroy EXCEPT ![w] = sdestroy[w]]
      /\ srun \in [SWExecs -> SRunRow] /\ sexec \in [SWExecs -> SXRow] /\ proc \in [SWExecs -> SProc]
  BY DEF SSHInd, SWTyped
<1>3. /\ WorkerFits(w, sworker[w], cloud[w], sdestroy[w]) /\ WorkerStays(sworker[w], sworker[w])
      /\ ("instance" \in cloud[w] \/ sworker[w].phase \in Standing) => w \in Up
  BY DEF SSHInd, WorkersFit, Up, WorkerStays, Doomed
<1>4. DestroyKnown(w, sworker[w], cloud[w], sdestroy[w])
  BY <1>1, <1>2, <1>3 DEF DestroyKnown
<1>5. QED BY <1>4

LEMMA DestroyGoes ==
    ASSUME NEW w, NEW k, NEW c, NEW d, DestroyKnown(w, k, c, d),
           NEW pc \in Torn \cup {"none", "fence"}, SDGoes(w, pc)
    PROVE  \E b \in SDRow : sdestroy' = [sdestroy EXCEPT ![w] = b] /\ b.pc = pc
<1>1. [d EXCEPT !.pc = pc] \in SDRow /\ [d EXCEPT !.pc = pc].pc = pc
  BY DEF DestroyKnown, SDRow
<1>2. sdestroy' = [sdestroy EXCEPT ![w] = [d EXCEPT !.pc = pc]]
  BY DEF DestroyKnown, SDGoes
<1>3. QED BY <1>1, <1>2

LEMMA DestroyReturns ==
    ASSUME NEW w, SDReturns(w)
    PROVE  \E b \in SDRow : sdestroy' = [sdestroy EXCEPT ![w] = b] /\ b.pc = "none"
<1>1. NoDestroy \in SDRow /\ NoDestroy.pc = "none"
  BY DEF NoDestroy, SDRow
<1>2. sdestroy' = [sdestroy EXCEPT ![w] = NoDestroy]
  BY DEF SDReturns
<1>3. QED BY <1>1, <1>2

LEMMA DestroyBeginsKeeps ==
    ASSUME SSHWorkerAssumption, SSHInd, NEW w \in SWWorkers, DestroyBegins(w)
    PROVE  SSHInd' /\ SSHStays
<1>0. PICK k, c, d : DestroyKnown(w, k, c, d)
  BY WorkerKnown
<1>1. PICK runs \in SUBSET SWExecs :
         /\ sdestroy' = [sdestroy EXCEPT ![w] = [pc |-> "fence", stopped |-> runs]]
         /\ srun' = [e \in SWExecs |->
                       IF e \in runs THEN [srun[e] EXCEPT !.cancelled = TRUE] ELSE srun[e]]
  BY DEF DestroyBegins
<1>2. PICK b : b = [pc |-> "fence", stopped |-> runs]
  OBVIOUS
<1>3. b \in SDRow /\ b.pc = "fence"
  BY <1>2 DEF SDRow
<1>4. ASSUME NEW f \in SWExecs PROVE srun'[f] \in SRunRow /\ srun'[f].pc = srun[f].pc
  <2>1. srun[f] \in SRunRow
    BY <1>0 DEF DestroyKnown
  <2>2. srun'[f] = srun[f] \/ srun'[f] = [srun[f] EXCEPT !.cancelled = TRUE]
    BY <1>1
  <2>3. QED BY <2>1, <2>2 DEF SRunRow
<1>5. srun' \in [SWExecs -> SRunRow]
  BY <1>1, <1>4
<1>6. WorkerFits(w, k, c, b)
  BY <1>0, <1>3 DEF DestroyKnown, WorkerFits, Torn
<1>7. DestroyWrites(w, k, c, b)
  BY <1>0, <1>1, <1>2, <1>3, <1>4, <1>5, <1>6 DEF DestroyBegins, DestroyWrites, DestroyKnown
<1>8. QED BY <1>7, DestroyMoves

LEMMA DestroyFencesKeeps ==
    ASSUME SSHWorkerAssumption, SSHInd, NEW w \in SWWorkers, DestroyFences(w)
    PROVE  SSHInd' /\ SSHStays
<1>0. PICK k, c, d : DestroyKnown(w, k, c, d)
  BY WorkerKnown
<1>1. CASE SDReturns(w) /\ UNCHANGED <<sworker, sexec>>
  <2>1. PICK b \in SDRow : sdestroy' = [sdestroy EXCEPT ![w] = b] /\ b.pc = "none"
    BY <1>1, DestroyReturns
  <2>2. WorkerFits(w, k, c, b)
    BY <1>0, <2>1 DEF DestroyKnown, WorkerFits, Torn
  <2>3. DestroyWrites(w, k, c, b)
    BY <1>0, <1>1, <2>1, <2>2 DEF DestroyFences, DestroyWrites, DestroyKnown
  <2>4. QED BY <2>3, DestroyMoves
<1>2. CASE /\ k.phase # "destroyed" /\ ~k.gone
           /\ sworker' = [sworker EXCEPT ![w].phase = "destroying"]
           /\ SDReturns(w) \/ SDGoes(w, "drain")
  <2>1. PICK b \in SDRow : sdestroy' = [sdestroy EXCEPT ![w] = b] /\ b.pc \in {"none", "drain"}
    BY <1>0, <1>2, DestroyReturns, DestroyGoes DEF Torn
  <2>2. PICK l : l = [k EXCEPT !.phase = "destroying"]
    OBVIOUS
  <2>3. /\ l \in SWRow /\ l.phase = "destroying" /\ l.cur = k.cur /\ l.gone = k.gone
        /\ l.known = k.known /\ sworker' = [sworker EXCEPT ![w] = l]
    BY <1>0, <1>2, <2>2 DEF DestroyKnown, SWRow, Doomed
  <2>4. WorkerFits(w, l, c, b)
    BY <1>0, <1>2, <2>1, <2>3 DEF DestroyKnown, WorkerFits
  <2>5. WorkerStays(k, l) /\ l.phase \in Doomed /\ l.phase \notin Standing
    BY <1>2, <2>3 DEF WorkerStays, Doomed, Standing
  <2>6. /\ sexec' \in [SWExecs -> SXRow]
        /\ \A f \in SWExecs :
              \/ sexec'[f] = sexec[f]
              \/ SWTarget[f] = w /\ sexec[f].phase = "running" /\ sexec'[f].phase = "failed"
    <3>1. CASE sexec' = sexec
      BY <1>0, <3>1 DEF DestroyKnown
    <3>2. CASE /\ k.cur # 0 /\ sexec[k.cur].phase = "running"
               /\ sexec' = [sexec EXCEPT ![k.cur].phase = "failed"]
      <4>1. k.cur \in SWExecs /\ SWTarget[k.cur] = w
        BY <1>0, <3>2 DEF DestroyKnown, WorkerFits, SWRow
      <4>2. [sexec[k.cur] EXCEPT !.phase = "failed"] \in SXRow
            /\ [sexec[k.cur] EXCEPT !.phase = "failed"].phase = "failed"
        BY <1>0, <4>1 DEF DestroyKnown, SXRow
      <4>3. QED BY <1>0, <3>2, <4>1, <4>2 DEF DestroyKnown
    <3>3. QED BY <1>0, <3>1, <3>2 DEF DestroyFences, DestroyKnown
  <2>7. DestroyWrites(w, l, c, b)
    BY <1>0, <2>1, <2>3, <2>4, <2>5, <2>6 DEF DestroyFences, DestroyWrites, DestroyKnown
  <2>8. QED BY <2>7, DestroyMoves
<1>3. QED BY <1>0, <1>1, <1>2 DEF DestroyFences, DestroyKnown

LEMMA DestroyGivesUpKeeps ==
    ASSUME SSHWorkerAssumption, SSHInd, NEW w \in SWWorkers, DestroyGivesUp(w)
    PROVE  SSHInd' /\ SSHStays
<1>0. PICK k, c, d : DestroyKnown(w, k, c, d)
  BY WorkerKnown
<1>1. PICK b \in SDRow : sdestroy' = [sdestroy EXCEPT ![w] = b] /\ b.pc = "none"
  BY DestroyReturns DEF DestroyGivesUp
<1>2. WorkerFits(w, k, c, b)
  BY <1>0, <1>1 DEF DestroyKnown, WorkerFits, Torn
<1>3. DestroyWrites(w, k, c, b)
  BY <1>0, <1>1, <1>2 DEF DestroyGivesUp, DestroyWrites, DestroyKnown
<1>4. QED BY <1>3, DestroyMoves

LEMMA DestroyDrainsKeeps ==
    ASSUME SSHWorkerAssumption, SSHInd, NEW w \in SWWorkers, DestroyDrains(w)
    PROVE  SSHInd' /\ SSHStays
<1>0. PICK k, c, d : DestroyKnown(w, k, c, d)
  BY WorkerKnown
<1>1. PICK pc \in {"teardown", "discover"} :
         SDGoes(w, pc) /\ (pc = "teardown" => k.known = Resources)
  BY <1>0 DEF DestroyDrains, DestroyKnown
<1>2. PICK b \in SDRow : sdestroy' = [sdestroy EXCEPT ![w] = b] /\ b.pc = pc
  BY <1>0, <1>1, DestroyGoes DEF Torn
<1>3. d.pc = "drain"
  BY <1>0 DEF DestroyDrains, DestroyKnown
<1>4. WorkerFits(w, k, c, b)
  BY <1>0, <1>1, <1>2, <1>3 DEF DestroyKnown, WorkerFits, Torn
<1>5. DestroyWrites(w, k, c, b)
  BY <1>0, <1>2, <1>4 DEF DestroyDrains, DestroyWrites, DestroyKnown
<1>6. QED BY <1>5, DestroyMoves

LEMMA DestroyDiscoversKeeps ==
    ASSUME SSHWorkerAssumption, SSHInd, NEW w \in SWWorkers, DestroyDiscovers(w)
    PROVE  SSHInd' /\ SSHStays
<1>0. PICK k, c, d : DestroyKnown(w, k, c, d)
  BY WorkerKnown
<1>1. PICK found \in SUBSET c : /\ Finds(w, found)
                                /\ SDReturns(w) \/ (found = c /\ SDGoes(w, "teardown"))
  BY <1>0 DEF DestroyDiscovers, DestroyKnown
<1>2. PICK b \in SDRow : /\ sdestroy' = [sdestroy EXCEPT ![w] = b]
                         /\ b.pc = "none" \/ (b.pc = "teardown" /\ found = c)
  BY <1>0, <1>1, DestroyReturns, DestroyGoes DEF Torn
<1>3. d.pc = "discover"
  BY <1>0 DEF DestroyDiscovers, DestroyKnown
<1>4. PICK l : l = [k EXCEPT !.known = @ \cup found]
  OBVIOUS
<1>5. /\ l \in SWRow /\ l.phase = k.phase /\ l.cur = k.cur /\ l.gone = k.gone
      /\ l.known = k.known \cup found
  BY <1>0, <1>1, <1>4 DEF DestroyKnown, SWRow
<1>6. sworker' = [sworker EXCEPT ![w] = l]
  BY <1>0, <1>1, <1>4 DEF DestroyKnown, Finds
<1>7. WorkerFits(w, l, c, b) /\ WorkerStays(k, l)
  BY <1>0, <1>2, <1>3, <1>5 DEF DestroyKnown, WorkerFits, WorkerStays, Torn, Doomed
<1>8. DestroyWrites(w, l, c, b)
  BY <1>0, <1>2, <1>5, <1>6, <1>7 DEF DestroyDiscovers, DestroyWrites, DestroyKnown
<1>9. QED BY <1>8, DestroyMoves

LEMMA DestroyRemovesKeeps ==
    ASSUME SSHWorkerAssumption, SSHInd, NEW w \in SWWorkers, DestroyRemoves(w)
    PROVE  SSHInd' /\ SSHStays
<1>0. PICK k, c, d : DestroyKnown(w, k, c, d)
  BY WorkerKnown
<1>1. d.pc = "teardown" /\ c \subseteq k.known
  BY <1>0 DEF DestroyRemoves, DestroyKnown, WorkerFits
<1>2. PICK removed \in SUBSET c :
         /\ cloud' = [cloud EXCEPT ![w] = @ \ removed]
         /\ proc' = [e \in SWExecs |->
              IF SWTarget[e] = w /\ proc[e] = "running" /\ "instance" \in removed
              THEN "ended" ELSE proc[e]]
         /\ SDReturns(w) \/ (removed = c /\ SDGoes(w, "mark"))
  <2>1. sworker[w].known \cap cloud[w] = c
    BY <1>0, <1>1 DEF DestroyKnown
  <2>2. QED BY <2>1 DEF DestroyRemoves
<1>3. PICK b \in SDRow : /\ sdestroy' = [sdestroy EXCEPT ![w] = b]
                         /\ b.pc = "none" \/ (b.pc = "mark" /\ removed = c)
  BY <1>0, <1>2, DestroyReturns, DestroyGoes DEF Torn
<1>4. WorkerFits(w, k, c \ removed, b)
  BY <1>0, <1>1, <1>3 DEF DestroyKnown, WorkerFits, Torn
<1>5. /\ cloud' = [cloud EXCEPT ![w] = c \ removed] /\ c \ removed \in SUBSET Resources
      /\ proc' \in [SWExecs -> SProc]
      /\ \A f \in SWExecs : proc[f] = proc'[f] \/ proc'[f] = "ended"
  BY <1>0, <1>2 DEF DestroyKnown, SProc
<1>6. ("instance" \in c \ removed \/ k.phase \in Standing) => w \in Up
  BY <1>0 DEF DestroyKnown
<1>7. DestroyWrites(w, k, c \ removed, b)
  BY <1>0, <1>3, <1>4, <1>5, <1>6 DEF DestroyRemoves, DestroyWrites, DestroyKnown
<1>8. QED BY <1>7, DestroyMoves

LEMMA DestroyMarksKeeps ==
    ASSUME SSHWorkerAssumption, SSHInd, NEW w \in SWWorkers, DestroyMarks(w)
    PROVE  SSHInd' /\ SSHStays
<1>0. PICK k, c, d : DestroyKnown(w, k, c, d)
  BY WorkerKnown
<1>1. d.pc = "mark" /\ k.phase = "destroying" /\ c = {}
  BY <1>0 DEF DestroyMarks, DestroyKnown, WorkerFits, Torn
<1>2. PICK b \in SDRow : sdestroy' = [sdestroy EXCEPT ![w] = b] /\ b.pc = "none"
  BY DestroyReturns DEF DestroyMarks
<1>3. PICK l : l = [k EXCEPT !.gone = TRUE]
  OBVIOUS
<1>4. l \in SWRow /\ l.phase = k.phase /\ l.cur = k.cur /\ l.gone /\ l.known = k.known
  BY <1>0, <1>3 DEF DestroyKnown, SWRow
<1>5. sworker' = [sworker EXCEPT ![w] = l]
  BY <1>0, <1>1, <1>3 DEF DestroyKnown, DestroyMarks
<1>6. WorkerFits(w, l, c, b) /\ WorkerStays(k, l)
  BY <1>0, <1>1, <1>2, <1>4 DEF DestroyKnown, WorkerFits, WorkerStays, Torn, Doomed
<1>7. DestroyWrites(w, l, c, b)
  BY <1>0, <1>2, <1>4, <1>5, <1>6 DEF DestroyMarks, DestroyWrites, DestroyKnown
<1>8. QED BY <1>7, DestroyMoves

LEMMA FinalizeKeeps ==
    ASSUME SSHWorkerAssumption, SSHInd, NEW w \in SWWorkers, FinalizeWorkerDestroy(w)
    PROVE  SSHInd' /\ SSHStays
<1>0. PICK k, c, d : DestroyKnown(w, k, c, d)
  BY WorkerKnown
<1>1. k.phase = "destroying" /\ k.gone
  BY <1>0 DEF FinalizeWorkerDestroy, DestroyKnown
<1>2. PICK l : l = [k EXCEPT !.phase = "destroyed", !.cur = 0]
  OBVIOUS
<1>3. l \in SWRow /\ l.phase = "destroyed" /\ l.cur = 0 /\ l.gone /\ l.known = k.known
  BY <1>0, <1>1, <1>2 DEF DestroyKnown, SWRow, Doomed
<1>4. sworker' = [sworker EXCEPT ![w] = l]
  BY <1>0, <1>2 DEF DestroyKnown, FinalizeWorkerDestroy
<1>5. WorkerFits(w, l, c, d) /\ WorkerStays(k, l) /\ l.phase \in Doomed /\ l.phase \notin Standing
  BY <1>0, <1>1, <1>3 DEF DestroyKnown, WorkerFits, WorkerStays, Torn, Doomed, Standing
<1>6. DestroyWrites(w, l, c, d)
  BY <1>0, <1>3, <1>4, <1>5 DEF FinalizeWorkerDestroy, DestroyWrites, DestroyKnown
<1>7. QED BY <1>6, DestroyMoves

LEMMA SSHCrashKeeps ==
    ASSUME SSHInd, SSHCrash
    PROVE  SSHInd' /\ SSHStays
<1> USE DEF SSHInd
<1>1. NoRun \in SRunRow /\ NoDestroy \in SDRow /\ NoRun.pc = "none" /\ NoDestroy.pc = "none"
  BY DEF NoRun, NoDestroy, SRunRow, SDRow
<1>2. SWTyped'
  BY <1>1 DEF SWTyped, SSHCrash
<1>3. ExecsFit'
  <2> SUFFICES ASSUME NEW f \in SWExecs
               PROVE  ExecFits(f, srun'[f], sexec'[f], proc'[f], started'[f], sworker'[SWTarget[f]])
    BY DEF ExecsFit
  <2>1. ExecFits(f, srun[f], sexec[f], proc[f], started[f], sworker[SWTarget[f]])
    BY DEF ExecsFit
  <2>2. srun'[f] = NoRun
    BY DEF SSHCrash
  <2>3. QED BY <1>1, <2>1, <2>2 DEF SSHCrash, ExecFits, Making, Placed
<1>4. WorkersFit'
  <2> SUFFICES ASSUME NEW v \in SWWorkers PROVE WorkerFits(v, sworker'[v], cloud'[v], sdestroy'[v])
    BY DEF WorkersFit
  <2>1. WorkerFits(v, sworker[v], cloud[v], sdestroy[v])
    BY DEF WorkersFit
  <2>2. sdestroy'[v] = NoDestroy
    BY DEF SSHCrash
  <2>3. QED BY <1>1, <2>1, <2>2 DEF SSHCrash, WorkerFits, Torn
<1>5. UpBounded'
  BY DEF UpBounded, Up, SSHCrash
<1>6. SSHStays
  BY DEF SSHStays, WorkerStays, ExecStays, SSHCrash, Doomed
<1>7. QED BY <1>2, <1>3, <1>4, <1>5, <1>6

LEMMA SSHStarts ==
    ASSUME SSHWorkerAssumption, SSHInit
    PROVE  SSHInd
<1>1. SWTyped
  BY DEF SWTyped, SSHInit, NoRun, NoDestroy, SWRow, SXRow, SRunRow, SDRow, SProc
<1>2. ExecsFit
  BY DEF ExecsFit, ExecFits, SSHInit, NoRun, Making, Placed, SSHWorkerAssumption
<1>3. WorkersFit
  BY DEF WorkersFit, WorkerFits, SSHInit, NoDestroy, Torn
<1>4. Up = {}
  BY DEF Up, SSHInit, Standing
<1>5. UpBounded
  BY <1>4, FS_EmptySet DEF UpBounded, SSHWorkerAssumption
<1>6. QED BY <1>1, <1>2, <1>3, <1>5 DEF SSHInd

LEMMA SSHStep ==
    ASSUME SSHWorkerAssumption, SSHInd, [SSHNext]_swVars
    PROVE  SSHInd' /\ SSHStays
<1>1. CASE UNCHANGED swVars
  <2>1. SSHInd'
    BY <1>1 DEF SSHInd, SWTyped, ExecsFit, WorkersFit, UpBounded, Up, swVars
  <2>2. SSHStays
    BY <1>1 DEF SSHStays, WorkerStays, ExecStays, swVars, Doomed
  <2>3. QED BY <2>1, <2>2
<1>2. ASSUME NEW e \in SWExecs,
             \/ RegisterExecution(e) \/ Lease(e) \/ SaveLease(e) \/ Prepare(e) \/ Resume(e)
             \/ Start(e) \/ WaitRuntime(e) \/ Collect(e) \/ CompleteExecution(e)
             \/ FailExecution(e) \/ CancelRun(e) \/ ProcessEnds(e)
      PROVE  SSHInd' /\ SSHStays
  BY <1>2, RegisterExecutionKeeps, LeaseKeeps, SaveLeaseKeeps, PrepareKeeps, ResumeKeeps,
     StartKeeps, WaitRuntimeKeeps, CollectKeeps, CompleteExecutionKeeps, FailExecutionKeeps,
     CancelRunKeeps, ProcessEndsKeeps
<1>3. ASSUME NEW w \in SWWorkers,
             \/ Provision(w, "key", "group") \/ Provision(w, "group", "instance")
             \/ Provision(w, "instance", "boot") \/ Boot(w)
      PROVE  SSHInd' /\ SSHStays
  <2>1. w \in SWExecs /\ SWTarget[w] = w
    BY DEF SWWorkers
  <2>2. "key" \in Resources /\ "group" \in Resources /\ "instance" \in Resources
    BY DEF Resources
  <2>3. QED BY <1>3, <2>1, <2>2, ProvisionKeeps, BootKeeps
<1>4. ASSUME NEW w \in SWWorkers,
             \/ DestroyBegins(w) \/ DestroyGivesUp(w) \/ DestroyFences(w) \/ DestroyDrains(w)
             \/ DestroyDiscovers(w) \/ DestroyRemoves(w) \/ DestroyMarks(w)
             \/ FinalizeWorkerDestroy(w)
      PROVE  SSHInd' /\ SSHStays
  BY <1>4, DestroyBeginsKeeps, DestroyGivesUpKeeps, DestroyFencesKeeps, DestroyDrainsKeeps,
     DestroyDiscoversKeeps, DestroyRemovesKeeps, DestroyMarksKeeps, FinalizeKeeps
<1>5. QED BY <1>1, <1>2, <1>3, <1>4, SSHCrashKeeps DEF SSHNext

LEMMA SSHImplied ==
    ASSUME SSHWorkerAssumption, SSHInd
    PROVE  SSHInv
<1> USE DEF SSHInd
<1>1. SWTypeOK
  BY DEF SWTyped, SWTypeOK, SWRow, SXRow, SProc, Standing, Doomed
<1>2. RunsHoldTheirWorker
  BY DEF ExecsFit, ExecFits, RunsHoldTheirWorker, Placed, Doomed
<1>3. CapacityKept
  <2> DEFINE I == {w \in SWWorkers : "instance" \in cloud[w]}
  <2>1. IsFiniteSet(Up)
    BY FS_Subset DEF SSHWorkerAssumption, SWWorkers, Up
  <2>2. I \subseteq Up
    BY DEF Up
  <2>3. /\ Cardinality(I) <= Cardinality(Up)
        /\ Cardinality(I) \in Nat /\ Cardinality(Up) \in Nat
    BY <2>1, <2>2, FS_Subset, FS_CardinalityType
  <2>4. QED BY <2>3 DEF UpBounded, CapacityKept, SSHWorkerAssumption
<1>4. RemoteStartedOnce
  BY DEF ExecsFit, ExecFits, RemoteStartedOnce
<1>5. DestroyedLeavesNothing
  BY DEF WorkersFit, WorkerFits, DestroyedLeavesNothing
<1>6. QED BY <1>1, <1>2, <1>3, <1>4, <1>5 DEF SSHInv

(* sshworker.Provider: at any number of executions and limit of Workers,   *)
(* with any interruption and answer of AWS and of the host, a run works    *)
(* only on the Worker that its record names, no more instances exist than  *)
(* the limit, an execution is started once, and a Worker recorded as gone  *)
(* has left nothing in AWS.                                                *)
THEOREM SSHWorkersAreKept == SSHSpec => []SSHInv
<1>1. SSHSpec => []SSHInd
  <2>1. SSHInit => SSHInd
    BY SSHWorkerAssumption, SSHStarts
  <2>2. SSHInd /\ [SSHNext]_swVars => SSHInd'
    BY SSHWorkerAssumption, SSHStep
  <2>3. QED BY <2>1, <2>2, PTL DEF SSHSpec
<1>2. SSHInd => SSHInv
  BY SSHWorkerAssumption, SSHImplied
<1>3. QED BY <1>1, <1>2, PTL

(* releaseLocked, completeExecution, DestroyWorkerResources: no late       *)
(* release or completion undoes a destruction, and an execution that ended *)
(* keeps its outcome.                                                      *)
THEOREM DestructionIsFinal == SSHSpec => DestroyIsFinal
<1> DEFINE Final ==
      /\ \A w \in SWWorkers :
            /\ sworker[w].phase = "destroying" => sworker'[w].phase \in {"destroying", "destroyed"}
            /\ sworker[w].phase = "destroyed" => sworker'[w] = sworker[w]
            /\ sworker[w].gone => sworker'[w].gone
      /\ \A e \in SWExecs :
            sexec[e].phase \in {"completed", "failed"} => sexec'[e].phase = sexec[e].phase
<1>1. SSHSpec => []SSHInd
  <2>1. SSHInit => SSHInd
    BY SSHWorkerAssumption, SSHStarts
  <2>2. SSHInd /\ [SSHNext]_swVars => SSHInd'
    BY SSHWorkerAssumption, SSHStep
  <2>3. QED BY <2>1, <2>2, PTL DEF SSHSpec
<1>2. SSHInd /\ [SSHNext]_swVars => [Final]_swVars
  BY SSHWorkerAssumption, SSHStep DEF SSHStays, WorkerStays, ExecStays, Doomed
<1>3. QED BY <1>1, <1>2, PTL DEF SSHSpec, DestroyIsFinal
=============================================================================
