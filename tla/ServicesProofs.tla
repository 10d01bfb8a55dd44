--------------------------- MODULE ServicesProofs ---------------------------
(***************************************************************************)
(* What the runs check of workload operations, of the ledger of capability *)
(* operations and of the deprovisioning, for every number of operations,   *)
(* executors, executions, restarts and calls, of schedules with their cron *)
(* expressions, for every number of schedules, profiles and keys, and of a *)
(* conversation turn, for every number of supervisors, budget, batch of    *)
(* tool calls, steer and stop.                                             *)
(***************************************************************************)
EXTENDS Workload, CapabilityOperation, Schedule, CronFields, ConversationTurn,
        FiniteSetTheorems, WellFoundedInduction, TLAPS

(***************************************************************************)
(* Workload operations.                                                    *)
(***************************************************************************)
WOpRow == [status : {"none", "waiting_user", "running"} \cup WTerminal,
           dispatch : {"", "prepared", "dispatched", "uncertain", "terminal"},
           epoch : Nat, live : BOOLEAN]
WEnded == {"succeeded", "failed", "canceled"}
WTaskRow == [status : {"none", "waiting_user", "queued", "running"} \cup WEnded,
             epoch : Nat, live : BOOLEAN, slot : BOOLEAN]
WConfRow == [state : {"none", "pending", "confirmed", "rejected", "expired", "consumed"},
             released : BOOLEAN]
WPc == {"idle", "start", "call", "called", "read", "reread", "complete", "recomplete",
        "failed", "done"}
WSeen == {"", "none", "ready", "destroyed", "error"}
WExecRow == [pc : WPc, op : WOps \cup {WNone}, epoch : Nat, fresh : BOOLEAN, seen : WSeen]

WTyped ==
    /\ wop \in [WOps -> WOpRow] /\ wtask \in [WOps -> WTaskRow] /\ wconf \in [WOps -> WConfRow]
    /\ wexec \in [WExecutors -> WExecRow]
    /\ wrow \in {"none", "ready", "destroyed", "uncertain"}
    /\ actual \in {"none", "ready", "destroyed"}
    /\ mutations \in [WOps -> Nat] /\ decided \in [WOps -> Nat]

(* The rows of one operation: its consent waits while it waits, is         *)
(* consumed once it was dispatched and released once it is decided; p the  *)
(* operation, t its task, c its consent, m its calls, d its decision.      *)
WDispatched == {"running", "succeeded", "uncertain"}
WDecided == {"succeeded", "uncertain"}
WOpFits(p, t, c, m, d) ==
    /\ p.status = "waiting_user" <=> c.state \in {"pending", "confirmed"}
    /\ c.state = "consumed" <=> p.status \in WDispatched
    /\ c.released <=> p.status \in WDecided
    /\ p.status \in WTerminal => t.status \in WEnded
    /\ m <= IF c.state = "consumed" THEN 1 ELSE 0
    /\ d # 0 => d = p.epoch
    /\ d # 0 <=> p.status \in WDecided

WOpsFit ==
    \A o \in WOps : /\ WOpFits(wop[o], wtask[o], wconf[o], mutations[o], decided[o])
                    /\ wtask[o].epoch <= WMaxClaims[o]

(* An executor that is about to call the provider is the first and only    *)
(* one to do so for its operation.                                         *)
WHandsFit ==
    \A x \in WExecutors :
        /\ wexec[x].op = WNone <=> wexec[x].pc = "idle"
        /\ wexec[x].pc # "idle" => wexec[x].epoch # 0
        /\ wexec[x].pc = "call" =>
              wop[wexec[x].op].status \in WDispatched /\ mutations[wexec[x].op] = 0
WOneCaller ==
    \A x, y \in WExecutors :
        wexec[x].pc = "call" /\ wexec[y].pc = "call" /\ wexec[x].op = wexec[y].op => x = y

WorkloadInd == WTyped /\ WOpsFit /\ WHandsFit /\ WOneCaller

WWrites(o, p, t, c, m, d) ==
    /\ wop' = [wop EXCEPT ![o] = p] /\ wtask' = [wtask EXCEPT ![o] = t]
    /\ wconf' = [wconf EXCEPT ![o] = c]
    /\ mutations' = [mutations EXCEPT ![o] = m] /\ decided' = [decided EXCEPT ![o] = d]

WRowsTyped ==
    /\ wop \in [WOps -> WOpRow] /\ wtask \in [WOps -> WTaskRow] /\ wconf \in [WOps -> WConfRow]
    /\ mutations \in [WOps -> Nat] /\ decided \in [WOps -> Nat]

(* A step that writes the rows of one operation owes that they fit.        *)
LEMMA WWritesKeepRows ==
    ASSUME WorkloadInd, NEW o \in WOps, NEW p \in WOpRow, NEW t \in WTaskRow, NEW c \in WConfRow,
           NEW m \in Nat, NEW d \in Nat, WWrites(o, p, t, c, m, d),
           WOpFits(p, t, c, m, d), t.epoch <= WMaxClaims[o]
    PROVE  WRowsTyped' /\ WOpsFit'
<1>1. WRowsTyped
  BY DEF WorkloadInd, WTyped, WRowsTyped
<1>2. WRowsTyped'
  BY <1>1 DEF WWrites, WRowsTyped
<1>3. /\ wop'[o] = p /\ wtask'[o] = t /\ wconf'[o] = c /\ mutations'[o] = m /\ decided'[o] = d
      /\ \A q \in WOps \ {o} :
            /\ wop'[q] = wop[q] /\ wtask'[q] = wtask[q] /\ wconf'[q] = wconf[q]
            /\ mutations'[q] = mutations[q] /\ decided'[q] = decided[q]
  BY <1>1 DEF WWrites, WRowsTyped
<1>4. \A q \in WOps :
        /\ WOpFits(wop[q], wtask[q], wconf[q], mutations[q], decided[q])
        /\ wtask[q].epoch <= WMaxClaims[q]
  BY DEF WorkloadInd, WOpsFit
<1>5. ASSUME NEW q \in WOps
      PROVE  /\ WOpFits(wop'[q], wtask'[q], wconf'[q], mutations'[q], decided'[q])
             /\ wtask'[q].epoch <= WMaxClaims[q]
  <2>1. CASE q = o
    BY <1>3, <2>1
  <2>2. CASE q # o
    <3>1. /\ wop'[q] = wop[q] /\ wtask'[q] = wtask[q] /\ wconf'[q] = wconf[q]
          /\ mutations'[q] = mutations[q] /\ decided'[q] = decided[q]
      BY <1>3, <2>2
    <3> QED  BY <1>4, <3>1
  <2> QED  BY <2>1, <2>2
<1>6. WOpsFit'
  BY <1>5 DEF WOpsFit
<1> QED  BY <1>2, <1>6

(* What was dispatched stays dispatched, and no call is counted twice.     *)
CallsStay(Y) ==
    \A y \in Y : wexec[y].pc = "call" =>
        wop'[wexec[y].op].status \in WDispatched /\ mutations'[wexec[y].op] = 0

LEMMA WHandsKept ==
    ASSUME WorkloadInd, UNCHANGED wexec, CallsStay(WExecutors)
    PROVE  wexec' \in [WExecutors -> WExecRow] /\ WHandsFit' /\ WOneCaller'
<1>1. wexec' \in [WExecutors -> WExecRow]
  BY DEF WorkloadInd, WTyped
<1>2. WOneCaller'
  BY DEF WorkloadInd, WOneCaller
<1>3. WHandsFit'
  BY DEF WorkloadInd, WHandsFit, CallsStay
<1> QED  BY <1>1, <1>2, <1>3

LEMMA WHandMoves ==
    ASSUME WorkloadInd, NEW x \in WExecutors, NEW r \in WExecRow,
           wexec' = [wexec EXCEPT ![x] = r], CallsStay(WExecutors \ {x}),
           r.op = WNone <=> r.pc = "idle", r.pc # "idle" => r.epoch # 0,
           r.pc = "call" =>
              /\ wop'[r.op].status \in WDispatched /\ mutations'[r.op] = 0
              /\ \A y \in WExecutors : wexec[y].pc = "call" => wexec[y].op # r.op
    PROVE  wexec' \in [WExecutors -> WExecRow] /\ WHandsFit' /\ WOneCaller'
<1>1. wexec \in [WExecutors -> WExecRow]
  BY DEF WorkloadInd, WTyped
<1>2. wexec' \in [WExecutors -> WExecRow]
  BY <1>1
<1>3. wexec'[x] = r /\ \A y \in WExecutors \ {x} : wexec'[y] = wexec[y]
  BY <1>1
<1>4. WOneCaller'
  <2>1. WOneCaller
    BY DEF WorkloadInd
  <2> SUFFICES ASSUME NEW y \in WExecutors, NEW z \in WExecutors,
                      wexec'[y].pc = "call", wexec'[z].pc = "call", wexec'[y].op = wexec'[z].op
               PROVE  y = z
    BY DEF WOneCaller
  <2> QED  BY <1>3, <2>1 DEF WOneCaller
<1>5. WHandsFit'
  <2>1. WHandsFit
    BY DEF WorkloadInd
  <2> SUFFICES ASSUME NEW y \in WExecutors
               PROVE  /\ wexec'[y].op = WNone <=> wexec'[y].pc = "idle"
                      /\ wexec'[y].pc # "idle" => wexec'[y].epoch # 0
                      /\ wexec'[y].pc = "call" =>
                           /\ wop'[wexec'[y].op].status \in WDispatched
                           /\ mutations'[wexec'[y].op] = 0
    BY DEF WHandsFit
  <2>2. CASE y = x
    BY <1>3, <2>2
  <2>3. CASE y # x
    <3>1. wexec'[y] = wexec[y]
      BY <1>3, <2>3
    <3>2. wexec[y].pc = "call" =>
             wop'[wexec[y].op].status \in WDispatched /\ mutations'[wexec[y].op] = 0
      BY <2>3 DEF CallsStay
    <3>3. /\ wexec[y].op = WNone <=> wexec[y].pc = "idle"
          /\ wexec[y].pc # "idle" => wexec[y].epoch # 0
      BY <2>1 DEF WHandsFit
    <3> QED  BY <3>1, <3>2, <3>3
  <2> QED  BY <2>2, <2>3
<1> QED  BY <1>2, <1>4, <1>5

(* A write that leaves a dispatched operation dispatched.                  *)
LEMMA CallsKept ==
    ASSUME WorkloadInd, NEW o \in WOps, NEW p \in WOpRow, wop' = [wop EXCEPT ![o] = p],
           UNCHANGED mutations, wop[o].status \in WDispatched => p.status \in WDispatched
    PROVE  CallsStay(WExecutors)
<1> SUFFICES ASSUME NEW y \in WExecutors, wexec[y].pc = "call"
             PROVE  wop'[wexec[y].op].status \in WDispatched /\ mutations'[wexec[y].op] = 0
  BY DEF CallsStay
<1>1. wop[wexec[y].op].status \in WDispatched /\ mutations[wexec[y].op] = 0
  BY DEF WorkloadInd, WHandsFit
<1>2. wop \in [WOps -> WOpRow] /\ wexec[y].op \in WOps
  BY DEF WorkloadInd, WTyped, WHandsFit, WExecRow
<1> QED  BY <1>1, <1>2

LEMMA CallsUntouched ==
    ASSUME WorkloadInd, UNCHANGED <<wop, mutations>>
    PROVE  CallsStay(WExecutors)
  BY DEF WorkloadInd, WHandsFit, CallsStay

LEMMA WRowsOf ==
    ASSUME WorkloadInd, NEW o \in WOps
    PROVE  /\ wop[o] \in WOpRow /\ wtask[o] \in WTaskRow /\ wconf[o] \in WConfRow
           /\ mutations[o] \in Nat /\ decided[o] \in Nat
           /\ WOpFits(wop[o], wtask[o], wconf[o], mutations[o], decided[o])
           /\ wtask[o].epoch <= WMaxClaims[o]
           /\ UNCHANGED wop => wop' = [wop EXCEPT ![o] = wop[o]]
           /\ UNCHANGED wtask => wtask' = [wtask EXCEPT ![o] = wtask[o]]
           /\ UNCHANGED wconf => wconf' = [wconf EXCEPT ![o] = wconf[o]]
           /\ UNCHANGED mutations => mutations' = [mutations EXCEPT ![o] = mutations[o]]
           /\ UNCHANGED decided => decided' = [decided EXCEPT ![o] = decided[o]]
  BY DEF WorkloadInd, WTyped, WOpsFit

(* The owner's calls and the clock write the rows of one operation and     *)
(* leave executors and provider alone.                                     *)
LEMMA OwnerWrites ==
    ASSUME WorkloadInd, NEW o \in WOps, NEW p \in WOpRow, NEW t \in WTaskRow, NEW c \in WConfRow,
           wop' = [wop EXCEPT ![o] = p], wtask' = [wtask EXCEPT ![o] = t],
           wconf' = [wconf EXCEPT ![o] = c],
           UNCHANGED <<wrow, wexec, actual, mutations, decided>>,
           WOpFits(p, t, c, mutations[o], decided[o]), t.epoch <= WMaxClaims[o],
           wop[o].status \in WDispatched => p.status \in WDispatched
    PROVE  WorkloadInd'
<1>1. WWrites(o, p, t, c, mutations[o], decided[o])
  BY WRowsOf DEF WWrites
<1>2. mutations[o] \in Nat /\ decided[o] \in Nat
  BY WRowsOf
<1>3. WRowsTyped' /\ WOpsFit'
  BY <1>1, <1>2, WWritesKeepRows
<1>4. CallsStay(WExecutors)
  BY CallsKept
<1>5. wexec' \in [WExecutors -> WExecRow] /\ WHandsFit' /\ WOneCaller'
  BY <1>4, WHandsKept
<1>6. WTyped'
  BY <1>3, <1>5 DEF WRowsTyped, WTyped, WorkloadInd
<1> QED  BY <1>3, <1>5, <1>6 DEF WorkloadInd

(* What an update of one column does to a row.                             *)
WOpStatus == {"none", "waiting_user", "running"} \cup WTerminal
WTaskStatus == {"none", "waiting_user", "queued", "running"} \cup WEnded
LEMMA WOpColumns ==
    \A u \in WOpRow :
        /\ \A s \in WOpStatus : [u EXCEPT !.status = s] \in WOpRow
        /\ \A d \in {"", "prepared", "dispatched", "uncertain", "terminal"} :
              [u EXCEPT !.dispatch = d] \in WOpRow
        /\ \A b \in BOOLEAN : [u EXCEPT !.live = b] \in WOpRow
        /\ \A n \in Nat : [u EXCEPT !.epoch = n] \in WOpRow
  BY DEF WOpRow, WOpStatus
LEMMA WTaskColumns ==
    \A u \in WTaskRow :
        /\ \A s \in WTaskStatus : [u EXCEPT !.status = s] \in WTaskRow
        /\ \A b \in BOOLEAN : [u EXCEPT !.live = b] \in WTaskRow
        /\ \A b \in BOOLEAN : [u EXCEPT !.slot = b] \in WTaskRow
        /\ \A n \in Nat : [u EXCEPT !.epoch = n] \in WTaskRow
  BY DEF WTaskRow, WTaskStatus
LEMMA WConfColumns ==
    \A u \in WConfRow :
        /\ \A s \in {"none", "pending", "confirmed", "rejected", "expired", "consumed"} :
              [u EXCEPT !.state = s] \in WConfRow
        /\ \A b \in BOOLEAN : [u EXCEPT !.released = b] \in WConfRow
  BY DEF WConfRow
LEMMA WExecColumns ==
    \A u \in WExecRow :
        /\ \A s \in WPc : [u EXCEPT !.pc = s] \in WExecRow
        /\ \A b \in BOOLEAN : [u EXCEPT !.fresh = b] \in WExecRow
        /\ \A s \in WSeen : [u EXCEPT !.seen = s] \in WExecRow
  BY DEF WExecRow

(* The writes that operations share, as rows.                              *)
OpAs(o, s, d) == [wop[o] EXCEPT !.status = s, !.dispatch = d]
TaskAs(o, s) == [wtask[o] EXCEPT !.status = s, !.live = FALSE]
ConfAs(o, s) == [wconf[o] EXCEPT !.state = s]

LEMMA RequestOperationStep ==
    ASSUME WorkloadInd, NEW o \in WOps, RequestOperation(o)
    PROVE  WorkloadInd'
<1> DEFINE p == OpAs(o, "waiting_user", "prepared")
           t == [wtask[o] EXCEPT !.status = "waiting_user"]
           c == ConfAs(o, "pending")
<1>0. WRowsTyped
  BY DEF WorkloadInd, WTyped, WRowsTyped
<1>1. /\ wop[o].status = "none"
      /\ wop' = [wop EXCEPT ![o] = p] /\ wtask' = [wtask EXCEPT ![o] = t]
      /\ wconf' = [wconf EXCEPT ![o] = c]
      /\ UNCHANGED <<wrow, wexec, actual, mutations, decided>>
  BY <1>0 DEF RequestOperation, OpAs, ConfAs, WRowsTyped
<1>2. p \in WOpRow /\ t \in WTaskRow /\ c \in WConfRow
  BY WRowsOf, WOpColumns, WTaskColumns, WConfColumns DEF OpAs, ConfAs, WOpStatus, WTaskStatus
<1>3. /\ p.status = "waiting_user" /\ p.epoch = wop[o].epoch
      /\ t.status = "waiting_user" /\ t.epoch = wtask[o].epoch
      /\ c.state = "pending" /\ c.released = wconf[o].released
  BY WRowsOf DEF OpAs, ConfAs, WOpRow, WTaskRow, WConfRow
<1> HIDE DEF p, t, c
<1>4. WOpFits(p, t, c, mutations[o], decided[o]) /\ t.epoch <= WMaxClaims[o]
  BY <1>1, <1>3, WRowsOf DEF WOpFits, WDispatched, WDecided, WTerminal
<1>5. wop[o].status \notin WDispatched
  BY <1>1 DEF WDispatched
<1> QED  BY <1>1, <1>2, <1>4, <1>5, OwnerWrites

LEMMA ConfirmWorkloadStep ==
    ASSUME WorkloadInd, NEW o \in WOps, ConfirmWorkload(o)
    PROVE  WorkloadInd'
<1> DEFINE c == ConfAs(o, "confirmed")
<1>1. /\ wconf[o].state = "pending" /\ wconf' = [wconf EXCEPT ![o] = c]
      /\ UNCHANGED wop /\ UNCHANGED wtask
      /\ UNCHANGED <<wrow, wexec, actual, mutations, decided>>
  BY DEF ConfirmWorkload, ConfAs
<1>2. /\ wop[o] \in WOpRow /\ wtask[o] \in WTaskRow /\ c \in WConfRow
      /\ wop' = [wop EXCEPT ![o] = wop[o]] /\ wtask' = [wtask EXCEPT ![o] = wtask[o]]
  BY <1>1, WRowsOf, WConfColumns DEF ConfAs
<1>3. c.state = "confirmed" /\ c.released = wconf[o].released
  BY WRowsOf DEF ConfAs, WConfRow
<1> HIDE DEF c
<1>4. WOpFits(wop[o], wtask[o], c, mutations[o], decided[o]) /\ wtask[o].epoch <= WMaxClaims[o]
  BY <1>1, <1>3, WRowsOf DEF WOpFits
<1> QED  BY <1>1, <1>2, <1>4, OwnerWrites

LEMMA WEndBeforeDispatchStep ==
    ASSUME WorkloadInd, NEW o \in WOps, NEW confirmation \in {"rejected", "expired"},
           NEW operation \in {"rejected", "canceled", "expired"}, NEW task \in {"canceled", "failed"},
           WEndBeforeDispatch(o, confirmation, operation, task)
    PROVE  WorkloadInd'
<1> DEFINE p == OpAs(o, operation, "terminal")
           t == TaskAs(o, task)
           c == ConfAs(o, confirmation)
<1>0. WRowsTyped
  BY DEF WorkloadInd, WTyped, WRowsTyped
<1>1. /\ wop[o].status = "waiting_user"
      /\ wop' = [wop EXCEPT ![o] = p] /\ wtask' = [wtask EXCEPT ![o] = t]
      /\ wconf' = [wconf EXCEPT ![o] = c]
      /\ UNCHANGED <<wrow, wexec, actual, mutations, decided>>
  BY <1>0 DEF WEndBeforeDispatch, OpAs, TaskAs, ConfAs, WRowsTyped
<1>2. p \in WOpRow /\ t \in WTaskRow /\ c \in WConfRow
  <2>1. wop[o] \in WOpRow /\ wtask[o] \in WTaskRow /\ wconf[o] \in WConfRow
    BY WRowsOf
  <2>2. operation \in WOpStatus /\ task \in WTaskStatus
    BY DEF WOpStatus, WTaskStatus, WTerminal, WEnded
  <2> QED  BY <2>1, <2>2, WOpColumns, WTaskColumns, WConfColumns DEF OpAs, TaskAs, ConfAs
<1>3. /\ p.status = operation /\ p.epoch = wop[o].epoch
      /\ t.status = task /\ t.epoch = wtask[o].epoch
      /\ c.state = confirmation /\ c.released = wconf[o].released
  BY WRowsOf DEF OpAs, TaskAs, ConfAs, WOpRow, WTaskRow, WConfRow
<1> HIDE DEF p, t, c
<1>4. WOpFits(p, t, c, mutations[o], decided[o]) /\ t.epoch <= WMaxClaims[o]
  BY <1>1, <1>3, WRowsOf DEF WOpFits, WDispatched, WDecided, WTerminal, WEnded
<1>5. wop[o].status \notin WDispatched
  BY <1>1 DEF WDispatched
<1> QED  BY <1>1, <1>2, <1>4, <1>5, OwnerWrites

(* The consent and the operation of a task that ends.                      *)
LEMMA WithTaskWrites ==
    ASSUME WorkloadInd, NEW o \in WOps, WithTask(o)
    PROVE  \E p \in WOpRow, c \in WConfRow :
              /\ wop' = [wop EXCEPT ![o] = p] /\ wconf' = [wconf EXCEPT ![o] = c]
              /\ wop[o].status \in WDispatched => p.status \in WDispatched
              /\ \A t \in WTaskRow : t.status \in WEnded =>
                    WOpFits(p, t, c, mutations[o], decided[o])
<1>0. WRowsTyped
  BY DEF WorkloadInd, WTyped, WRowsTyped
<1>1. CASE wconf[o].state \in {"pending", "confirmed"}
  <2> DEFINE p == [wop[o] EXCEPT !.status = "canceled"]
             c == ConfAs(o, "expired")
  <2>1. wop[o].status = "waiting_user"
    BY <1>1, WRowsOf DEF WOpFits
  <2>2. wop' = [wop EXCEPT ![o] = p] /\ wconf' = [wconf EXCEPT ![o] = c]
    BY <1>0, <1>1, <2>1 DEF WithTask, ConfAs, WRowsTyped
  <2>3. p \in WOpRow /\ c \in WConfRow
    BY WRowsOf, WOpColumns, WConfColumns DEF ConfAs, WOpStatus, WTerminal
  <2>4. /\ p.status = "canceled" /\ p.epoch = wop[o].epoch
        /\ c.state = "expired" /\ c.released = wconf[o].released
    BY WRowsOf DEF ConfAs, WOpRow, WConfRow
  <2> HIDE DEF p, c
  <2>5. ASSUME NEW t \in WTaskRow, t.status \in WEnded
        PROVE  WOpFits(p, t, c, mutations[o], decided[o])
    BY <2>1, <2>4, <2>5, WRowsOf DEF WOpFits, WDispatched, WDecided
  <2>6. wop[o].status \notin WDispatched
    BY <2>1 DEF WDispatched
  <2> QED  BY <2>2, <2>3, <2>5, <2>6
<1>2. CASE wconf[o].state \notin {"pending", "confirmed"}
  <2>1. UNCHANGED wop /\ UNCHANGED wconf
    BY <1>2 DEF WithTask
  <2>2. /\ wop[o] \in WOpRow /\ wconf[o] \in WConfRow
        /\ wop' = [wop EXCEPT ![o] = wop[o]] /\ wconf' = [wconf EXCEPT ![o] = wconf[o]]
    BY <2>1, WRowsOf
  <2>3. ASSUME NEW t \in WTaskRow, t.status \in WEnded
        PROVE  WOpFits(wop[o], t, wconf[o], mutations[o], decided[o])
    BY <2>3, WRowsOf DEF WOpFits
  <2> QED  BY <2>2, <2>3
<1> QED  BY <1>1, <1>2

LEMMA CancelWorkloadTaskStep ==
    ASSUME WorkloadInd, NEW o \in WOps, CancelWorkloadTask(o)
    PROVE  WorkloadInd'
<1> DEFINE t == TaskAs(o, "canceled")
<1>0. WRowsTyped
  BY DEF WorkloadInd, WTyped, WRowsTyped
<1>1. /\ wtask' = [wtask EXCEPT ![o] = t] /\ WithTask(o)
      /\ UNCHANGED <<wrow, wexec, actual, mutations, decided>>
  BY <1>0 DEF CancelWorkloadTask, TaskAs, WRowsTyped
<1>2. t \in WTaskRow
  BY WRowsOf, WTaskColumns DEF TaskAs, WTaskStatus, WEnded
<1>3. t.status \in WEnded /\ t.epoch = wtask[o].epoch /\ t.epoch <= WMaxClaims[o]
  BY WRowsOf DEF TaskAs, WTaskRow, WEnded
<1> HIDE DEF t
<1>4. PICK p \in WOpRow, c \in WConfRow :
         /\ wop' = [wop EXCEPT ![o] = p] /\ wconf' = [wconf EXCEPT ![o] = c]
         /\ wop[o].status \in WDispatched => p.status \in WDispatched
         /\ \A u \in WTaskRow : u.status \in WEnded => WOpFits(p, u, c, mutations[o], decided[o])
  BY <1>1, WithTaskWrites
<1>5. WOpFits(p, t, c, mutations[o], decided[o])
  BY <1>2, <1>3, <1>4
<1> QED  BY <1>1, <1>2, <1>3, <1>4, <1>5, OwnerWrites

LEMMA ResumeWorkloadTaskStep ==
    ASSUME WorkloadInd, NEW o \in WOps, ResumeWorkloadTask(o)
    PROVE  WorkloadInd'
<1> DEFINE t == [wtask[o] EXCEPT !.status = "queued"]
<1>1. /\ wtask[o].status = "waiting_user" /\ wtask' = [wtask EXCEPT ![o] = t]
      /\ UNCHANGED wop /\ UNCHANGED wconf
      /\ UNCHANGED <<wrow, wexec, actual, mutations, decided>>
  BY DEF ResumeWorkloadTask
<1>2. t \in WTaskRow
  BY WRowsOf, WTaskColumns DEF WTaskStatus
<1>3. t.status = "queued" /\ t.epoch <= WMaxClaims[o]
  BY WRowsOf DEF WTaskRow
<1> HIDE DEF t
<1>4. WOpFits(wop[o], t, wconf[o], mutations[o], decided[o])
  BY <1>1, WRowsOf DEF WOpFits, WEnded
<1>5. /\ wop[o] \in WOpRow /\ wconf[o] \in WConfRow
      /\ wop' = [wop EXCEPT ![o] = wop[o]] /\ wconf' = [wconf EXCEPT ![o] = wconf[o]]
  BY <1>1, WRowsOf
<1> QED  BY <1>1, <1>2, <1>3, <1>4, <1>5, OwnerWrites

LEMMA TaskLeaseRunsOutStep ==
    ASSUME WorkloadInd, NEW o \in WOps, TaskLeaseRunsOut(o)
    PROVE  WorkloadInd'
<1> DEFINE t == [wtask[o] EXCEPT !.live = FALSE]
<1>1. /\ wtask' = [wtask EXCEPT ![o] = t]
      /\ UNCHANGED wop /\ UNCHANGED wconf
      /\ UNCHANGED <<wrow, wexec, actual, mutations, decided>>
  BY DEF TaskLeaseRunsOut
<1>2. t \in WTaskRow
  BY WRowsOf, WTaskColumns
<1>3. t.status = wtask[o].status /\ t.epoch <= WMaxClaims[o]
  BY WRowsOf DEF WTaskRow
<1> HIDE DEF t
<1>4. WOpFits(wop[o], t, wconf[o], mutations[o], decided[o])
  BY <1>3, WRowsOf DEF WOpFits
<1>5. /\ wop[o] \in WOpRow /\ wconf[o] \in WConfRow
      /\ wop' = [wop EXCEPT ![o] = wop[o]] /\ wconf' = [wconf EXCEPT ![o] = wconf[o]]
  BY <1>1, WRowsOf
<1> QED  BY <1>1, <1>2, <1>3, <1>4, <1>5, OwnerWrites

LEMMA DispatchLeaseRunsOutStep ==
    ASSUME WorkloadInd, NEW o \in WOps, DispatchLeaseRunsOut(o)
    PROVE  WorkloadInd'
<1> DEFINE p == [wop[o] EXCEPT !.live = FALSE]
<1>1. /\ wop' = [wop EXCEPT ![o] = p]
      /\ UNCHANGED wtask /\ UNCHANGED wconf
      /\ UNCHANGED <<wrow, wexec, actual, mutations, decided>>
  BY DEF DispatchLeaseRunsOut
<1>2. p \in WOpRow
  BY WRowsOf, WOpColumns
<1>3. p.status = wop[o].status /\ p.epoch = wop[o].epoch
  BY WRowsOf DEF WOpRow
<1> HIDE DEF p
<1>4. WOpFits(p, wtask[o], wconf[o], mutations[o], decided[o])
  BY <1>3, WRowsOf DEF WOpFits
<1>5. /\ wtask[o] \in WTaskRow /\ wconf[o] \in WConfRow /\ wtask[o].epoch <= WMaxClaims[o]
      /\ wtask' = [wtask EXCEPT ![o] = wtask[o]] /\ wconf' = [wconf EXCEPT ![o] = wconf[o]]
  BY <1>1, WRowsOf
<1> QED  BY <1>1, <1>2, <1>3, <1>4, <1>5, OwnerWrites

(* An executor that is at work has an operation and a claim.               *)
LEMMA WHandOf ==
    ASSUME WorkloadInd, NEW x \in WExecutors
    PROVE  /\ wexec[x] \in WExecRow
           /\ wexec[x].op = WNone <=> wexec[x].pc = "idle"
           /\ wexec[x].pc # "idle" => /\ wexec[x].op \in WOps
                                      /\ wexec[x].epoch \in Nat /\ wexec[x].epoch # 0
  BY DEF WorkloadInd, WTyped, WHandsFit, WExecRow

(* Where an executor may go without calling the provider.                  *)
Aside(r) ==
    /\ r \in WExecRow
    /\ r.op = WNone <=> r.pc = "idle"
    /\ r.pc # "idle" => r.epoch # 0
    /\ r.pc # "call"

LEMMA WIdleAside == Aside(WIdle)
  BY WorkloadAssumption DEF Aside, WIdle, WExecRow, WPc, WSeen

LEMMA WGoesAside ==
    ASSUME WorkloadInd, NEW x \in WExecutors, wexec[x].pc # "idle",
           NEW pc \in WPc \ {"idle", "call"}
    PROVE  /\ Aside([wexec[x] EXCEPT !.pc = pc])
           /\ WGoes(x, pc) => wexec' = [wexec EXCEPT ![x] = [wexec[x] EXCEPT !.pc = pc]]
<1> DEFINE r == [wexec[x] EXCEPT !.pc = pc]
<1>1. r \in WExecRow
  BY WHandOf, WExecColumns
<1>2. r.pc = pc /\ r.op = wexec[x].op /\ r.epoch = wexec[x].epoch
  BY WHandOf DEF WExecRow
<1>3. Aside(r)
  <2> HIDE DEF r
  <2> QED  BY <1>1, <1>2, WHandOf DEF Aside
<1> QED  BY <1>3 DEF WGoes

LEMMA WRefusedAside ==
    ASSUME WorkloadInd, NEW x \in WExecutors, wexec[x].pc # "idle", WRefused(x)
    PROVE  \E r : Aside(r) /\ wexec' = [wexec EXCEPT ![x] = r]
<1>1. CASE wop[wexec[x].op].status \in WTerminal
  BY <1>1, WIdleAside DEF WRefused
<1>2. CASE wop[wexec[x].op].status \notin WTerminal
  BY <1>2, WGoesAside DEF WRefused, WPc
<1> QED  BY <1>1, <1>2

(* A step of an executor aside, whatever it wrote before.                  *)
LEMMA AsideKeeps ==
    ASSUME WorkloadInd, NEW x \in WExecutors, NEW r, Aside(r), wexec' = [wexec EXCEPT ![x] = r],
           CallsStay(WExecutors \ {x}), WRowsTyped', WOpsFit',
           wrow' \in {"none", "ready", "destroyed", "uncertain"},
           actual' \in {"none", "ready", "destroyed"}
    PROVE  WorkloadInd'
<1>1. /\ r \in WExecRow /\ (r.op = WNone <=> r.pc = "idle")
      /\ (r.pc # "idle" => r.epoch # 0) /\ r.pc # "call"
  BY DEF Aside
<1>2. wexec' \in [WExecutors -> WExecRow] /\ WHandsFit' /\ WOneCaller'
  BY <1>1, WHandMoves
<1>3. WTyped'
  BY <1>2 DEF WTyped, WRowsTyped
<1> QED  BY <1>2, <1>3 DEF WorkloadInd

LEMMA AsideAlone ==
    ASSUME WorkloadInd, NEW x \in WExecutors, NEW r, Aside(r), wexec' = [wexec EXCEPT ![x] = r],
           UNCHANGED <<wop, wtask, wconf, wrow, actual, mutations, decided>>
    PROVE  WorkloadInd'
<1>1. WRowsTyped' /\ WOpsFit'
  BY DEF WorkloadInd, WTyped, WRowsTyped, WOpsFit
<1>2. CallsStay(WExecutors)
  BY CallsUntouched
<1>3. CallsStay(WExecutors \ {x})
  BY <1>2 DEF CallsStay
<1>4. wrow' \in {"none", "ready", "destroyed", "uncertain"} /\ actual' \in {"none", "ready", "destroyed"}
  BY DEF WorkloadInd, WTyped
<1> QED  BY <1>1, <1>3, <1>4, AsideKeeps

LEMMA ClaimWorkloadTaskStep ==
    ASSUME WorkloadInd, NEW x \in WExecutors, NEW o \in WOps, ClaimWorkloadTask(x, o)
    PROVE  WorkloadInd'
<1> DEFINE n == wtask[o].epoch + 1
           t == [status |-> "running", epoch |-> n, live |-> TRUE, slot |-> TRUE]
           r == [pc |-> "start", op |-> o, epoch |-> n, fresh |-> TRUE, seen |-> ""]
<1>0. WRowsTyped
  BY DEF WorkloadInd, WTyped, WRowsTyped
<1>1. /\ wtask[o].status \in {"queued", "running"} /\ wtask[o].epoch < WMaxClaims[o]
      /\ wtask' = [wtask EXCEPT ![o] = t] /\ wexec' = [wexec EXCEPT ![x] = r]
      /\ UNCHANGED wop /\ UNCHANGED wconf /\ UNCHANGED wrow /\ UNCHANGED actual
      /\ UNCHANGED mutations /\ UNCHANGED decided
  BY DEF ClaimWorkloadTask
<1>2. n \in Nat /\ n # 0 /\ n <= WMaxClaims[o]
  <2>1. wtask[o].epoch \in Nat
    BY WRowsOf DEF WTaskRow
  <2>2. WMaxClaims[o] \in Nat
    BY WorkloadAssumption
  <2>3. wtask[o].epoch < WMaxClaims[o]
    BY <1>1
  <2> QED  BY <2>1, <2>2, <2>3
<1>3. t \in WTaskRow
  BY <1>2 DEF WTaskRow
<1>4. Aside(r)
  BY <1>2, WorkloadAssumption DEF Aside, WExecRow, WPc, WSeen
<1>5. t.status = "running" /\ t.epoch <= WMaxClaims[o]
  BY <1>2
<1> HIDE DEF n, t, r
<1>6. WOpFits(wop[o], t, wconf[o], mutations[o], decided[o])
  BY <1>1, <1>5, WRowsOf DEF WOpFits, WEnded
<1>7. WWrites(o, wop[o], t, wconf[o], mutations[o], decided[o])
  BY <1>1, WRowsOf DEF WWrites
<1>8. wop[o] \in WOpRow /\ wconf[o] \in WConfRow /\ mutations[o] \in Nat /\ decided[o] \in Nat
  BY WRowsOf
<1>9. WRowsTyped' /\ WOpsFit'
  BY <1>3, <1>5, <1>6, <1>7, <1>8, WWritesKeepRows
<1>10. CallsStay(WExecutors \ {x})
  BY <1>1, CallsUntouched DEF CallsStay
<1>11. wrow' \in {"none", "ready", "destroyed", "uncertain"} /\ actual' \in {"none", "ready", "destroyed"}
  BY <1>1 DEF WorkloadInd, WTyped
<1> QED  BY <1>1, <1>4, <1>9, <1>10, <1>11, AsideKeeps

LEMMA ConsumeFencedStep ==
    ASSUME WorkloadInd, NEW x \in WExecutors, ConsumeFenced(x)
    PROVE  WorkloadInd'
<1>1. PICK o \in WOps : o = wexec[x].op
  BY WHandOf DEF ConsumeFenced
<1>2. /\ wexec[x].pc = "start" /\ wop[o].status = "waiting_user"
      /\ UNCHANGED wtask /\ UNCHANGED wrow /\ UNCHANGED actual
      /\ UNCHANGED mutations /\ UNCHANGED decided
  BY <1>1 DEF ConsumeFenced
<1>3. CASE WRefused(x) /\ UNCHANGED <<wconf, wop>>
  <2>1. PICK r : Aside(r) /\ wexec' = [wexec EXCEPT ![x] = r]
    BY <1>2, <1>3, WRefusedAside
  <2> QED  BY <1>2, <1>3, <2>1, AsideAlone
<1>4. CASE /\ wconf[o].state = "confirmed"
           /\ wconf' = [wconf EXCEPT ![o].state = "consumed"]
           /\ wop' = [wop EXCEPT ![o] = [status |-> "running", dispatch |-> "dispatched",
                                         epoch |-> wexec[x].epoch, live |-> TRUE]]
           /\ WGoes(x, "call")
  <2> DEFINE p == [status |-> "running", dispatch |-> "dispatched",
                   epoch |-> wexec[x].epoch, live |-> TRUE]
             c == ConfAs(o, "consumed")
             r == [wexec[x] EXCEPT !.pc = "call"]
  <2>1. /\ wop' = [wop EXCEPT ![o] = p] /\ wconf' = [wconf EXCEPT ![o] = c]
        /\ wexec' = [wexec EXCEPT ![x] = r]
    BY <1>4 DEF ConfAs, WGoes
  <2>2. p \in WOpRow /\ p.status = "running"
    BY <1>2, WHandOf DEF WOpRow
  <2>3. c \in WConfRow
    BY WRowsOf, WConfColumns DEF ConfAs
  <2>4. c.state = "consumed" /\ c.released = wconf[o].released
    BY WRowsOf DEF ConfAs, WConfRow
  <2>5. r \in WExecRow
    BY WHandOf, WExecColumns DEF WPc
  <2>6. r.pc = "call" /\ r.op = o /\ r.epoch # 0 /\ r.op # WNone
    BY <1>1, <1>2, WHandOf, WorkloadAssumption DEF WExecRow
  <2> HIDE DEF p, c, r
  <2>7. mutations[o] = 0 /\ decided[o] = 0 /\ mutations[o] \in Nat /\ decided[o] \in Nat
    BY <1>2, WRowsOf DEF WOpFits, WDispatched, WDecided
  <2>8. WOpFits(p, wtask[o], c, mutations[o], decided[o])
    BY <1>2, <2>2, <2>4, <2>7, WRowsOf DEF WOpFits, WDispatched, WDecided, WTerminal
  <2>9. WWrites(o, p, wtask[o], c, mutations[o], decided[o])
    BY <1>2, <2>1, WRowsOf DEF WWrites
  <2>10. wtask[o] \in WTaskRow /\ wtask[o].epoch <= WMaxClaims[o]
    BY WRowsOf
  <2>11. WRowsTyped' /\ WOpsFit'
    BY <2>2, <2>3, <2>7, <2>8, <2>9, <2>10, WWritesKeepRows
  <2>12. CallsStay(WExecutors)
    <3>1. p.status \in WDispatched
      BY <2>2 DEF WDispatched
    <3> QED  BY <1>2, <2>1, <2>2, <3>1, CallsKept
  <2>13. CallsStay(WExecutors \ {x})
    BY <2>12 DEF CallsStay
  <2>14. \A y \in WExecutors : wexec[y].pc = "call" => wexec[y].op # r.op
    BY <1>2, <2>6 DEF WorkloadInd, WHandsFit, WDispatched
  <2>15. wop'[r.op].status \in WDispatched /\ mutations'[r.op] = 0
    <3>1. wop \in [WOps -> WOpRow]
      BY DEF WorkloadInd, WTyped
    <3> QED  BY <1>2, <2>1, <2>2, <2>6, <2>7, <3>1 DEF WDispatched
  <2>16. wexec' \in [WExecutors -> WExecRow] /\ WHandsFit' /\ WOneCaller'
    BY <2>1, <2>5, <2>6, <2>13, <2>14, <2>15, WHandMoves
  <2>17. WTyped'
    BY <1>2, <2>11, <2>16 DEF WTyped, WRowsTyped, WorkloadInd
  <2> QED  BY <2>11, <2>16, <2>17 DEF WorkloadInd
<1> QED  BY <1>1, <1>3, <1>4 DEF ConsumeFenced

LEMMA CallProviderStep ==
    ASSUME WorkloadInd, NEW x \in WExecutors, CallProvider(x)
    PROVE  WorkloadInd'
<1>1. PICK o \in WOps : o = wexec[x].op
  BY WHandOf DEF CallProvider
<1> DEFINE m == mutations[o] + 1
           r == [wexec[x] EXCEPT !.pc = "called"]
<1>2. /\ wexec[x].pc = "call" /\ mutations' = [mutations EXCEPT ![o] = m]
      /\ actual' \in {actual, WDesired(o)} /\ WGoes(x, "called")
      /\ UNCHANGED wop /\ UNCHANGED wtask /\ UNCHANGED wconf /\ UNCHANGED wrow /\ UNCHANGED decided
  BY <1>1 DEF CallProvider
<1>3. Aside(r) /\ wexec' = [wexec EXCEPT ![x] = r]
  BY <1>2, WGoesAside DEF WPc
<1>4. wop[o].status \in WDispatched /\ mutations[o] = 0
  BY <1>1, <1>2 DEF WorkloadInd, WHandsFit
<1>5. m = 1
  BY <1>4
<1> HIDE DEF m, r
<1>6. WOpFits(wop[o], wtask[o], wconf[o], m, decided[o])
  BY <1>4, <1>5, WRowsOf DEF WOpFits
<1>7. WWrites(o, wop[o], wtask[o], wconf[o], m, decided[o])
  BY <1>2, WRowsOf DEF WWrites
<1>8. /\ wop[o] \in WOpRow /\ wtask[o] \in WTaskRow /\ wconf[o] \in WConfRow
      /\ m \in Nat /\ decided[o] \in Nat /\ wtask[o].epoch <= WMaxClaims[o]
  BY <1>5, WRowsOf
<1>9. WRowsTyped' /\ WOpsFit'
  BY <1>6, <1>7, <1>8, WWritesKeepRows
<1>10. CallsStay(WExecutors \ {x})
  <2> SUFFICES ASSUME NEW y \in WExecutors \ {x}, wexec[y].pc = "call"
               PROVE  wop'[wexec[y].op].status \in WDispatched /\ mutations'[wexec[y].op] = 0
    BY DEF CallsStay
  <2>1. wop[wexec[y].op].status \in WDispatched /\ mutations[wexec[y].op] = 0
    BY DEF WorkloadInd, WHandsFit
  <2>2. wexec[y].op # o
    BY <1>1, <1>2 DEF WorkloadInd, WOneCaller
  <2>3. mutations \in [WOps -> Nat] /\ wexec[y].op \in WOps
    BY WHandOf DEF WorkloadInd, WTyped
  <2> QED  BY <1>2, <2>1, <2>2, <2>3
<1>11. wrow' \in {"none", "ready", "destroyed", "uncertain"} /\ actual' \in {"none", "ready", "destroyed"}
  BY <1>2 DEF WorkloadInd, WTyped, WDesired
<1> QED  BY <1>3, <1>9, <1>10, <1>11, AsideKeeps

LEMMA RecoverClaimFencedStep ==
    ASSUME WorkloadInd, NEW x \in WExecutors, RecoverClaimFenced(x)
    PROVE  WorkloadInd'
<1>1. PICK o \in WOps : o = wexec[x].op
  BY WHandOf DEF RecoverClaimFenced
<1>2. /\ wexec[x].pc = "start" /\ wop[o].status = "running"
      /\ UNCHANGED wtask /\ UNCHANGED wconf /\ UNCHANGED wrow /\ UNCHANGED actual
      /\ UNCHANGED mutations /\ UNCHANGED decided
  BY <1>1 DEF RecoverClaimFenced
<1>3. CASE ~TaskFence(x)
  <2>1. WGoes(x, "done") /\ UNCHANGED wop
    BY <1>3 DEF RecoverClaimFenced
  <2>2. \E r : Aside(r) /\ wexec' = [wexec EXCEPT ![x] = r]
    BY <1>2, <2>1, WGoesAside DEF WPc
  <2> QED  BY <1>2, <2>1, <2>2, AsideAlone
<1>4. CASE TaskFence(x)
  <2>0. PICK n \in Nat : n = wexec[x].epoch
    BY <1>2, WHandOf
  <2> DEFINE p == [wop[o] EXCEPT !.dispatch = "uncertain", !.epoch = n, !.live = TRUE]
             r == [wexec[x] EXCEPT !.pc = "reread"]
  <2>1. wop' = [wop EXCEPT ![o] = p] /\ WGoes(x, "reread")
    BY <1>1, <1>4, <2>0 DEF RecoverClaimFenced
  <2>2. p \in WOpRow
    BY WRowsOf, WOpColumns
  <2>3. p.status = "running" /\ p.epoch = n
    BY <1>2, WRowsOf DEF WOpRow
  <2>4. Aside(r) /\ wexec' = [wexec EXCEPT ![x] = r]
    BY <1>2, <2>1, WGoesAside DEF WPc
  <2> HIDE DEF p, r
  <2>5. WOpFits(p, wtask[o], wconf[o], mutations[o], decided[o])
    BY <1>2, <2>3, WRowsOf DEF WOpFits, WDispatched, WDecided, WTerminal
  <2>6. WWrites(o, p, wtask[o], wconf[o], mutations[o], decided[o])
    BY <1>2, <2>1, WRowsOf DEF WWrites
  <2>7. /\ wtask[o] \in WTaskRow /\ wconf[o] \in WConfRow
        /\ mutations[o] \in Nat /\ decided[o] \in Nat /\ wtask[o].epoch <= WMaxClaims[o]
    BY WRowsOf
  <2>8. WRowsTyped' /\ WOpsFit'
    BY <2>2, <2>5, <2>6, <2>7, WWritesKeepRows
  <2>9. CallsStay(WExecutors)
    <3>1. p.status \in WDispatched
      BY <2>3 DEF WDispatched
    <3> QED  BY <1>2, <2>1, <2>2, <3>1, CallsKept
  <2>10. CallsStay(WExecutors \ {x})
    BY <2>9 DEF CallsStay
  <2>11. wrow' \in {"none", "ready", "destroyed", "uncertain"} /\ actual' \in {"none", "ready", "destroyed"}
    BY <1>2 DEF WorkloadInd, WTyped
  <2> QED  BY <2>4, <2>8, <2>10, <2>11, AsideKeeps
<1> QED  BY <1>3, <1>4

LEMMA WDecideStep ==
    ASSUME WorkloadInd, NEW x \in WExecutors, wexec[x].pc # "idle", WClaimHeld(x), WDecide(x),
           UNCHANGED <<actual, mutations>>
    PROVE  WorkloadInd'
<1>1. PICK o \in WOps : o = wexec[x].op
  BY WHandOf
<1>2. PICK n \in Nat : n = wexec[x].epoch
  BY WHandOf
<1>3. PICK s \in WDecided : s = IF wexec[x].seen = WDesired(o) THEN "succeeded" ELSE "uncertain"
  BY DEF WDecided
<1> DEFINE p == [wop[o] EXCEPT !.status = s, !.live = FALSE,
                               !.dispatch = IF s = "succeeded" THEN "terminal" ELSE "uncertain"]
           t == [wtask[o] EXCEPT !.status = IF s = "succeeded" THEN "succeeded" ELSE "failed",
                                 !.epoch = 0, !.live = FALSE]
           c == [wconf[o] EXCEPT !.released = TRUE]
<1>4. /\ wop' = [wop EXCEPT ![o] = p]
      /\ wtask' = [wtask EXCEPT ![o] = t]
      /\ wconf' = [wconf EXCEPT ![o] = c]
      /\ wrow' \in {WDesired(o), "uncertain"}
      /\ decided' = [decided EXCEPT ![o] = n]
      /\ wexec' = [wexec EXCEPT ![x] = WIdle]
  <2>0. WRowsTyped
    BY DEF WorkloadInd, WTyped, WRowsTyped
  <2> QED  BY <1>1, <1>2, <1>3, <2>0 DEF WDecide, WRowsTyped
<1>5. wop[o].status = "running" /\ wop[o].epoch = n
  BY <1>1, <1>2 DEF WClaimHeld
<1>6. p \in WOpRow
  <2>1. s \in WOpStatus
    BY DEF WOpStatus, WTerminal, WDecided
  <2> QED  BY <2>1, WRowsOf, WOpColumns
<1>7. t \in WTaskRow
  BY WRowsOf, WTaskColumns DEF WTaskStatus, WEnded
<1>8. c \in WConfRow
  BY WRowsOf, WConfColumns
<1>9. p.status = s /\ p.epoch = n
  BY <1>5, WRowsOf DEF WOpRow
<1>10. t.status \in WEnded /\ t.epoch = 0
  BY WRowsOf DEF WTaskRow, WEnded
<1>11. c.state = wconf[o].state /\ c.released = TRUE
  BY WRowsOf DEF WConfRow
<1> HIDE DEF p, t, c
<1>12. n # 0
  BY <1>2, WHandOf
<1>13. WOpFits(p, t, c, mutations[o], n)
  BY <1>5, <1>9, <1>10, <1>11, <1>12, WRowsOf DEF WOpFits, WDispatched, WDecided
<1>14. t.epoch <= WMaxClaims[o]
  BY <1>10, WorkloadAssumption
<1>15. WWrites(o, p, t, c, mutations[o], n) /\ mutations[o] \in Nat
  BY <1>4, WRowsOf DEF WWrites
<1>16. WRowsTyped' /\ WOpsFit'
  BY <1>6, <1>7, <1>8, <1>13, <1>14, <1>15, WWritesKeepRows
<1>17. CallsStay(WExecutors)
  <2>1. p.status \in WDispatched
    BY <1>9 DEF WDispatched, WDecided
  <2> QED  BY <1>4, <1>6, <2>1, CallsKept
<1>18. CallsStay(WExecutors \ {x})
  BY <1>17 DEF CallsStay
<1>19. wrow' \in {"none", "ready", "destroyed", "uncertain"} /\ actual' \in {"none", "ready", "destroyed"}
  BY <1>4 DEF WorkloadInd, WTyped, WDesired
<1> QED  BY <1>4, <1>16, <1>18, <1>19, WIdleAside, AsideKeeps

LEMMA CompleteDispatchFencedStep ==
    ASSUME WorkloadInd, NEW x \in WExecutors, CompleteDispatchFenced(x)
    PROVE  WorkloadInd'
<1>1. wexec[x].pc \in {"complete", "recomplete"} /\ UNCHANGED actual /\ UNCHANGED mutations
  BY DEF CompleteDispatchFenced
<1>2. CASE WClaimHeld(x) /\ WDecide(x)
  BY <1>1, <1>2, WDecideStep
<1>3. CASE /\ IF wexec[x].pc = "complete" THEN WRefused(x)
              ELSE wexec' = [wexec EXCEPT ![x] = WIdle]
           /\ UNCHANGED <<wop, wtask, wconf, wrow, decided>>
  <2>1. \E r : Aside(r) /\ wexec' = [wexec EXCEPT ![x] = r]
    BY <1>1, <1>3, WRefusedAside, WIdleAside
  <2> QED  BY <1>1, <1>3, <2>1, AsideAlone
<1> QED  BY <1>2, <1>3 DEF CompleteDispatchFenced

LEMMA PoolEndsWorkloadStep ==
    ASSUME WorkloadInd, NEW x \in WExecutors, PoolEndsWorkload(x)
    PROVE  WorkloadInd'
<1>1. PICK o \in WOps : o = wexec[x].op
  BY WHandOf DEF PoolEndsWorkload
<1>2. /\ wexec' = [wexec EXCEPT ![x] = WIdle]
      /\ UNCHANGED wrow /\ UNCHANGED actual /\ UNCHANGED mutations /\ UNCHANGED decided
  BY DEF PoolEndsWorkload
<1>3. CASE ~PoolFence(x)
  <2>1. UNCHANGED <<wtask, wconf, wop>>
    BY <1>3 DEF PoolEndsWorkload
  <2> QED  BY <1>2, <2>1, WIdleAside, AsideAlone
<1>4. CASE PoolFence(x)
  <2>0. PICK s \in WEnded : s = IF wexec[x].pc = "done" THEN "succeeded" ELSE "failed"
    BY DEF WEnded
  <2> DEFINE t == [wtask[o] EXCEPT !.live = FALSE, !.slot = FALSE, !.status = s]
  <2>1. wtask' = [wtask EXCEPT ![o] = t] /\ WithTask(o)
    <3>0. WRowsTyped
      BY DEF WorkloadInd, WTyped, WRowsTyped
    <3> QED  BY <1>1, <1>4, <2>0, <3>0 DEF PoolEndsWorkload, WRowsTyped
  <2>2. t \in WTaskRow
    <3>1. s \in WTaskStatus
      BY DEF WTaskStatus, WEnded
    <3> QED  BY <3>1, WRowsOf, WTaskColumns
  <2>3. t.status \in WEnded /\ t.epoch <= WMaxClaims[o]
    BY WRowsOf DEF WTaskRow
  <2> HIDE DEF t
  <2>4. PICK p \in WOpRow, c \in WConfRow :
           /\ wop' = [wop EXCEPT ![o] = p] /\ wconf' = [wconf EXCEPT ![o] = c]
           /\ wop[o].status \in WDispatched => p.status \in WDispatched
           /\ \A u \in WTaskRow : u.status \in WEnded => WOpFits(p, u, c, mutations[o], decided[o])
    BY <2>1, WithTaskWrites
  <2>5. WOpFits(p, t, c, mutations[o], decided[o])
    BY <2>2, <2>3, <2>4
  <2>6. WWrites(o, p, t, c, mutations[o], decided[o]) /\ mutations[o] \in Nat /\ decided[o] \in Nat
    BY <1>2, <2>1, <2>4, WRowsOf DEF WWrites
  <2>7. WRowsTyped' /\ WOpsFit'
    BY <2>2, <2>3, <2>5, <2>6, WWritesKeepRows
  <2>8. CallsStay(WExecutors)
    BY <1>2, <2>4, CallsKept
  <2>9. CallsStay(WExecutors \ {x})
    BY <2>8 DEF CallsStay
  <2>10. wrow' \in {"none", "ready", "destroyed", "uncertain"} /\ actual' \in {"none", "ready", "destroyed"}
    BY <1>2 DEF WorkloadInd, WTyped
  <2> QED  BY <1>2, <2>7, <2>9, <2>10, WIdleAside, AsideKeeps
<1> QED  BY <1>3, <1>4

LEMMA ReadProviderStep ==
    ASSUME WorkloadInd, NEW x \in WExecutors, ReadProvider(x)
    PROVE  WorkloadInd'
<1>1. PICK seen \in {actual, "error"} :
         wexec' = [wexec EXCEPT ![x].pc = IF @ = "read" THEN "complete" ELSE "recomplete",
                                ![x].seen = seen]
  BY DEF ReadProvider
<1>2. PICK pc \in {"complete", "recomplete"} :
         pc = IF wexec[x].pc = "read" THEN "complete" ELSE "recomplete"
  OBVIOUS
<1> DEFINE r == [wexec[x] EXCEPT !.pc = pc, !.seen = seen]
<1>3. wexec' = [wexec EXCEPT ![x] = r]
  <2>0. wexec \in [WExecutors -> WExecRow]
    BY DEF WorkloadInd, WTyped
  <2> QED  BY <1>1, <1>2, <2>0 DEF WExecRow
<1>4. r \in WExecRow
  <2>1. seen \in WSeen /\ pc \in WPc
    BY DEF WorkloadInd, WTyped, WSeen, WPc
  <2> QED  BY <2>1, WHandOf, WExecColumns
<1>5. r.pc = pc /\ r.op = wexec[x].op /\ r.epoch = wexec[x].epoch
  BY WHandOf DEF WExecRow
<1> HIDE DEF r
<1>6. wexec[x].pc # "idle"
  BY DEF ReadProvider
<1>7. Aside(r)
  BY <1>4, <1>5, <1>6, WHandOf DEF Aside
<1>8. UNCHANGED <<wop, wtask, wconf, wrow, actual, mutations, decided>>
  BY DEF ReadProvider
<1> QED  BY <1>3, <1>7, <1>8, AsideAlone

LEMMA FenceRunsOutStep ==
    ASSUME WorkloadInd, NEW x \in WExecutors, FenceRunsOut(x)
    PROVE  WorkloadInd'
<1> DEFINE r == [wexec[x] EXCEPT !.fresh = FALSE]
<1>0. wexec \in [WExecutors -> WExecRow]
  BY DEF WorkloadInd, WTyped
<1>1. /\ wexec' = [wexec EXCEPT ![x] = r]
      /\ UNCHANGED <<wop, wtask, wconf, wrow, actual, mutations, decided>>
  BY DEF FenceRunsOut
<1>2. r \in WExecRow
  BY WHandOf, WExecColumns
<1>3. r.pc = wexec[x].pc /\ r.op = wexec[x].op /\ r.epoch = wexec[x].epoch
  BY WHandOf DEF WExecRow
<1> HIDE DEF r
<1>4. wexec' \in [WExecutors -> WExecRow]
  BY <1>0, <1>1, <1>2
<1>5. \A y \in WExecutors : /\ wexec'[y].pc = wexec[y].pc /\ wexec'[y].op = wexec[y].op
                            /\ wexec'[y].epoch = wexec[y].epoch
  BY <1>0, <1>1, <1>3
<1>6. WHandsFit' /\ WOneCaller'
  <2>1. WOneCaller'
    BY <1>5 DEF WorkloadInd, WOneCaller
  <2>2. WHandsFit'
    BY <1>1, <1>5 DEF WorkloadInd, WHandsFit
  <2> QED  BY <2>1, <2>2
<1>7. WTyped' /\ WOpsFit'
  <2>1. WTyped'
    BY <1>1, <1>4 DEF WorkloadInd, WTyped
  <2>2. WOpsFit'
    BY <1>1 DEF WorkloadInd, WOpsFit
  <2> QED  BY <2>1, <2>2
<1> QED  BY <1>6, <1>7 DEF WorkloadInd

LEMMA WorkloadStep == WorkloadInd /\ [WorkloadNext]_workloadVars => WorkloadInd'
<1> SUFFICES ASSUME WorkloadInd, [WorkloadNext]_workloadVars PROVE WorkloadInd'
  OBVIOUS
<1>1. ASSUME NEW o \in WOps, RejectWorkload(o) \/ CancelOperation(o) \/ ExpireWorkload(o)
      PROVE  WorkloadInd'
  BY <1>1, WEndBeforeDispatchStep DEF RejectWorkload, CancelOperation, ExpireWorkload
<1>2. ASSUME NEW x \in WExecutors, HandleTerminal(x) \/ StopExecutor(x) PROVE WorkloadInd'
  <2>1. /\ wexec' = [wexec EXCEPT ![x] = WIdle]
        /\ UNCHANGED <<wop, wtask, wconf, wrow, actual, mutations, decided>>
    BY <1>2 DEF HandleTerminal, StopExecutor
  <2> QED  BY <2>1, WIdleAside, AsideAlone
<1>3. ASSUME NEW x \in WExecutors, RenewDispatchLeaseFenced(x) PROVE WorkloadInd'
  <2>1. /\ wexec[x].pc = "called" /\ (WGoes(x, "read") \/ WRefused(x))
        /\ UNCHANGED <<wop, wtask, wconf, wrow, actual, mutations, decided>>
    BY <1>3 DEF RenewDispatchLeaseFenced
  <2>2. \E r : Aside(r) /\ wexec' = [wexec EXCEPT ![x] = r]
    <3>1. CASE WGoes(x, "read")
      BY <2>1, <3>1, WGoesAside DEF WPc
    <3>2. CASE WRefused(x)
      BY <2>1, <3>2, WRefusedAside
    <3> QED  BY <2>1, <3>1, <3>2
  <2> QED  BY <2>1, <2>2, AsideAlone
<1>4. CASE UNCHANGED workloadVars
  BY <1>4 DEF workloadVars, WorkloadInd, WTyped, WOpsFit, WHandsFit, WOneCaller
<1>5. CASE WorkloadNext
  BY <1>1, <1>2, <1>3, <1>5, RequestOperationStep, ConfirmWorkloadStep, CancelWorkloadTaskStep,
     ResumeWorkloadTaskStep, TaskLeaseRunsOutStep, DispatchLeaseRunsOutStep,
     ClaimWorkloadTaskStep, ConsumeFencedStep, CallProviderStep, RecoverClaimFencedStep,
     ReadProviderStep, CompleteDispatchFencedStep, PoolEndsWorkloadStep, FenceRunsOutStep
     DEF WorkloadNext
<1> QED  BY <1>4, <1>5

LEMMA WorkloadStarts == WorkloadInit => WorkloadInd
<1> SUFFICES ASSUME WorkloadInit PROVE WorkloadInd
  OBVIOUS
<1>1. WTyped
  <2>1. wop \in [WOps -> WOpRow]
    BY DEF WorkloadInit, WOpRow
  <2>2. wtask \in [WOps -> WTaskRow]
    BY DEF WorkloadInit, WTaskRow
  <2>3. wconf \in [WOps -> WConfRow]
    BY DEF WorkloadInit, WConfRow
  <2>4. wexec \in [WExecutors -> WExecRow]
    BY DEF WorkloadInit, WExecRow, WIdle, WPc, WSeen
  <2> QED  BY <2>1, <2>2, <2>3, <2>4 DEF WorkloadInit, WTyped
<1>2. WOpsFit
  <2> SUFFICES ASSUME NEW o \in WOps
               PROVE  /\ WOpFits(wop[o], wtask[o], wconf[o], mutations[o], decided[o])
                      /\ wtask[o].epoch <= WMaxClaims[o]
    BY DEF WOpsFit
  <2>1. /\ wop[o].status = "none" /\ wtask[o].epoch = 0
        /\ wconf[o].state = "none" /\ wconf[o].released = FALSE
        /\ mutations[o] = 0 /\ decided[o] = 0
    BY DEF WorkloadInit
  <2>2. 0 <= WMaxClaims[o]
    BY WorkloadAssumption
  <2> QED  BY <2>1, <2>2 DEF WOpFits, WDispatched, WDecided, WTerminal
<1>3. WHandsFit /\ WOneCaller
  BY WorkloadAssumption DEF WorkloadInit, WHandsFit, WOneCaller, WIdle
<1> QED  BY <1>1, <1>2, <1>3 DEF WorkloadInd

(* Apply or Destroy is called at most once for an operation and only with  *)
(* consent, the operation, its consent and its task end together, and only *)
(* the newest claim ends them: for every set of operations, executors and  *)
(* claims, whatever leases run out and wherever executors stop.            *)
THEOREM WorkloadEndsTogether == WorkloadSpec => []WorkloadInv
<1>1. WorkloadInd => WorkloadInv
  <2> SUFFICES ASSUME WorkloadInd PROVE WorkloadInv
    OBVIOUS
  <2>1. \A o \in WOps :
           /\ wop[o] \in WOpRow /\ wtask[o] \in WTaskRow /\ wconf[o] \in WConfRow
           /\ mutations[o] \in Nat /\ decided[o] \in Nat
           /\ WOpFits(wop[o], wtask[o], wconf[o], mutations[o], decided[o])
           /\ wtask[o].epoch <= WMaxClaims[o]
    BY WRowsOf
  <2>2. WorkloadTypeOK
    <3>1. wrow \in {"none", "ready", "destroyed", "uncertain"}
      BY DEF WorkloadInd, WTyped
    <3>2. \A x \in WExecutors : wexec[x].op = WNone <=> wexec[x].pc = "idle"
      BY DEF WorkloadInd, WHandsFit
    <3>3. ASSUME NEW o \in WOps
          PROVE  /\ wop[o].status \in {"none", "waiting_user", "running"} \cup WTerminal
                 /\ wtask[o].status \in {"none", "waiting_user", "queued", "running", "succeeded",
                                         "failed", "canceled"}
                 /\ wtask[o].epoch \in 0..WMaxClaims[o]
                 /\ wconf[o].state \in {"none", "pending", "confirmed", "rejected", "expired",
                                        "consumed"}
      <4>1. wop[o] \in WOpRow /\ wtask[o] \in WTaskRow /\ wconf[o] \in WConfRow
        BY <2>1
      <4>2. wtask[o].epoch \in Nat /\ wtask[o].epoch <= WMaxClaims[o]
        BY <2>1, <4>1 DEF WTaskRow
      <4>3. WMaxClaims[o] \in Nat
        BY WorkloadAssumption
      <4>4. wop[o].status \in {"none", "waiting_user", "running"} \cup WTerminal
        BY <4>1 DEF WOpRow
      <4>5. wtask[o].status \in {"none", "waiting_user", "queued", "running"} \cup WEnded
        BY <4>1 DEF WTaskRow
      <4>6. wconf[o].state \in {"none", "pending", "confirmed", "rejected", "expired", "consumed"}
        BY <4>1 DEF WConfRow
      <4> QED  BY <4>2, <4>3, <4>4, <4>5, <4>6 DEF WEnded
    <3> QED  BY <3>1, <3>2, <3>3 DEF WorkloadTypeOK
  <2>3. MutatedOnceWithConsent
    BY <2>1 DEF MutatedOnceWithConsent, WOpFits
  <2>4. WorkloadSettledTogether
    BY <2>1 DEF WorkloadSettledTogether, WOpFits, WDispatched, WDecided, WEnded
  <2>5. LatestClaimDecides
    BY <2>1 DEF LatestClaimDecides, WOpFits, WDecided
  <2> QED  BY <2>2, <2>3, <2>4, <2>5 DEF WorkloadInv
<1> QED  BY <1>1, WorkloadStarts, WorkloadStep, PTL DEF WorkloadSpec

(***************************************************************************)
(* Capability operations and deprovisioning.                               *)
(***************************************************************************)
CapPc == {"none", "started", "registered", "handler", "ending", "done", "draining", "external"}
ExecRow == [op : OpIds, pc : CapPc, signalled : BOOLEAN, err : {"none", "canceled", "other"}]
CancelRow == [pc : {"idle", "wait", "write", "refused"}, op : OpIds, exec : Executions \cup {0}]
Readers == {ByExec(t) : t \in Executions} \cup {Canceler, Reconciler, Loops}

CapTyped ==
    /\ opRow \in [OpIds -> {"none", "pending", "running", "completed", "failed",
                            "cancelled", "uncertain"}]
    /\ receipt \in {"none", "database_purged", "failed", "completed"}
    /\ rows \in BOOLEAN /\ files \in BOOLEAN
    /\ fence \in [readers : SUBSET Readers, writer : Executions \cup {0}, sealed : BOOLEAN]
    /\ execs \in [Executions -> ExecRow]
    /\ runtime \in [OpIds -> Executions \cup {0}]
    /\ cancel \in CancelRow /\ reconcile \in SUBSET OpIds
    /\ ran \in [Ordinary -> Nat]

LivePc == {"started", "registered", "handler", "ending"}

(* The fence: its writer is the execution that purges, its readers are the *)
(* executions and calls at work.                                           *)
FenceFits ==
    /\ \A t \in Executions :
          /\ ByExec(t) \in fence.readers <=>
                execs[t].op # Account /\ execs[t].pc \in {"registered", "handler", "ending"}
          /\ execs[t].pc \in {"draining", "external"} <=> fence.writer = t
          /\ execs[t].pc \in {"draining", "external"} => execs[t].op = Account
    /\ Canceler \in fence.readers <=> cancel.pc # "idle"
    /\ Reconciler \in fence.readers <=> reconcile # {}
    /\ cancel.pc = "idle" => cancel = NoCancel

(* Once the database is purged the fence stays closed: sealed, or held by  *)
(* the execution that purges the rest.                                     *)
PurgeFits ==
    /\ fence.sealed => receipt # "none"
    /\ receipt # "none" => /\ fence.readers = {}
                           /\ fence.sealed \/ \E t \in Executions : execs[t].pc = "external"
    /\ \A t \in Executions : execs[t].pc = "external" => receipt = "database_purged"

(* An ordinary operation has one execution at a time, which is the one     *)
(* registered for it and has not run its handler before it claims; before  *)
(* the first there is no row.                                              *)
RegisteredFits ==
    \A t \in Executions :
        execs[t].op \in Ordinary /\ execs[t].pc \in {"registered", "handler", "ending"}
        => runtime[execs[t].op] = t
NotYetRun ==
    \A t \in Executions : execs[t].op \in Ordinary =>
        /\ execs[t].pc \in {"started", "registered"} => ran[execs[t].op] = 0
        /\ execs[t].pc = "started" => ~execs[t].signalled
OneLive ==
    \A t, u \in Executions :
        /\ execs[t].op \in Ordinary /\ execs[t].op = execs[u].op
        /\ execs[t].pc \in LivePc /\ execs[u].pc \in LivePc
        => t = u
NoRowNoRun ==
    \A o \in Ordinary : opRow[o] = "none" /\ receipt = "none" =>
        ran[o] = 0 /\ \A t \in Executions : execs[t].op = o => execs[t].pc \notin LivePc

(* A runtime is an execution of its operation, and so is what a Cancel     *)
(* waits for; one that may write has no handler that was told to stop.     *)
RuntimeFits ==
    \A o \in OpIds : runtime[o] # 0 =>
        /\ execs[runtime[o]].op = o
        /\ execs[runtime[o]].pc \notin {"none", "started", "done"}
WaitFits ==
    cancel.pc = "wait" =>
        /\ cancel.exec \in Executions /\ execs[cancel.exec].op = cancel.op
        /\ execs[cancel.exec].pc \notin {"none", "started", "done"}
WriteFits ==
    cancel.pc = "write" /\ cancel.op \in Ordinary =>
        \A t \in Executions :
            execs[t].op = cancel.op /\ execs[t].pc \in LivePc \ {"ending"} => ~execs[t].signalled

CapInd ==
    /\ CapTyped /\ FenceFits /\ PurgeFits
    /\ RegisteredFits /\ NotYetRun /\ OneLive /\ NoRowNoRun
    /\ RuntimeFits /\ WaitFits /\ WriteFits /\ CancelledHandlerStopped
    /\ PurgedStaysPurged /\ AccountReceipt /\ HandlerRunsOnce

(* Who reads the fence is told apart.                                      *)
LEMMA ReadersDiffer ==
    /\ \A t, u \in Executions : ByExec(t) = ByExec(u) => t = u
    /\ \A t \in Executions : ByExec(t) \notin {Canceler, Reconciler, Loops}
    /\ Canceler # Reconciler /\ Canceler # Loops /\ Reconciler # Loops
  BY DEF ByExec, Canceler, Reconciler, Loops

LEMMA OpsDiffer ==
    /\ Account \in OpIds /\ Account \notin Ordinary
    /\ \A o \in Ordinary : o \in OpIds
    /\ \A o \in OpIds : o # Account => o \in Ordinary
  BY CapabilityAssumption DEF OpIds

LEMMA ExecutionsArePositive == \A t \in Executions : t # 0 /\ t \in Nat
  BY CapabilityAssumption DEF Executions

LEMMA RuntimeTyped == CapInd => \A o \in OpIds : runtime[o] \in Executions \cup {0}
  BY DEF CapInd, CapTyped

OpState == {"none", "pending", "running", "completed", "failed", "cancelled", "uncertain"}
FenceRow == [readers : SUBSET Readers, writer : Executions \cup {0}, sealed : BOOLEAN]

(* What a step does to the row of one operation, to one execution and to   *)
(* the fence.                                                              *)
RowMoves(o) ==
    /\ opRow' \in [OpIds -> OpState]
    /\ \A q \in OpIds \ {o} : opRow'[q] = opRow[q]
    /\ opRow'[o] = "none" <=> opRow[o] = "none"
ExecMoves(t, op, pc, signalled) ==
    /\ execs' \in [Executions -> ExecRow]
    /\ execs'[t].op = op /\ execs'[t].pc = pc /\ execs'[t].signalled = signalled
    /\ \A u \in Executions \ {t} : execs'[u] = execs[u]
FenceMoves(readers, writer, sealed) ==
    /\ fence' \in FenceRow
    /\ fence'.readers = readers /\ fence'.writer = writer /\ fence'.sealed = sealed

LEMMA FenceSteps ==
    ASSUME CapTyped
    PROVE  /\ \A r \in Readers : Enter(r) =>
                 /\ FenceMoves(fence.readers \cup {r}, fence.writer, fence.sealed)
                 /\ ~fence.sealed /\ fence.writer = 0
           /\ \A r \in Readers : Leave(r) =>
                 FenceMoves(fence.readers \ {r}, fence.writer, fence.sealed)
           /\ FinishPurge => FenceMoves(fence.readers, 0, TRUE)
           /\ AbortPurge => FenceMoves(fence.readers, 0, fence.sealed)
           /\ UNCHANGED fence => FenceMoves(fence.readers, fence.writer, fence.sealed)
<1>1. fence \in FenceRow
  BY DEF CapTyped, FenceRow
<1>2. ASSUME NEW r \in Readers, Enter(r)
      PROVE  /\ FenceMoves(fence.readers \cup {r}, fence.writer, fence.sealed)
             /\ ~fence.sealed /\ fence.writer = 0
  BY <1>1, <1>2 DEF FenceMoves, FenceRow, Enter
<1>3. ASSUME NEW r \in Readers, Leave(r)
      PROVE  FenceMoves(fence.readers \ {r}, fence.writer, fence.sealed)
  BY <1>1, <1>3 DEF FenceMoves, FenceRow, Leave
<1>4. FinishPurge => FenceMoves(fence.readers, 0, TRUE)
  BY <1>1 DEF FenceMoves, FenceRow, FinishPurge
<1>5. AbortPurge => FenceMoves(fence.readers, 0, fence.sealed)
  BY <1>1 DEF FenceMoves, FenceRow, AbortPurge
<1>6. UNCHANGED fence => FenceMoves(fence.readers, fence.writer, fence.sealed)
  BY <1>1 DEF FenceMoves
<1> QED  BY <1>2, <1>3, <1>4, <1>5, <1>6

LEMMA ExecSteps ==
    ASSUME CapTyped, NEW t \in Executions
    PROVE  /\ execs[t] \in ExecRow /\ execs[t].op \in OpIds
           /\ \A r \in ExecRow : execs' = [execs EXCEPT ![t] = r] =>
                 ExecMoves(t, r.op, r.pc, r.signalled)
           /\ \A pc \in CapPc : execs' = [execs EXCEPT ![t].pc = pc] =>
                 ExecMoves(t, execs[t].op, pc, execs[t].signalled)
<1>1. execs \in [Executions -> ExecRow]
  BY DEF CapTyped
<1>2. ASSUME NEW r \in ExecRow, execs' = [execs EXCEPT ![t] = r]
      PROVE  ExecMoves(t, r.op, r.pc, r.signalled)
  BY <1>1, <1>2 DEF ExecMoves
<1>3. ASSUME NEW pc \in CapPc, execs' = [execs EXCEPT ![t].pc = pc]
      PROVE  ExecMoves(t, execs[t].op, pc, execs[t].signalled)
  <2> DEFINE r == [execs[t] EXCEPT !.pc = pc]
  <2>1. r \in ExecRow /\ r.op = execs[t].op /\ r.pc = pc /\ r.signalled = execs[t].signalled
    BY <1>1 DEF ExecRow
  <2>2. execs' = [execs EXCEPT ![t] = r]
    BY <1>3
  <2> HIDE DEF r
  <2> QED  BY <1>2, <2>1, <2>2
<1> QED  BY <1>1, <1>2, <1>3 DEF ExecRow

LEMMA OverExecs ==
    /\ NoExec \in ExecRow /\ OverExec \in ExecRow
    /\ NoExec.op = Account /\ NoExec.pc = "none" /\ NoExec.signalled = FALSE
    /\ OverExec.op = Account /\ OverExec.pc = "done" /\ OverExec.signalled = FALSE
  BY DEF NoExec, OverExec, ExecRow, OpIds, CapPc

LEMMA RowSteps ==
    ASSUME CapTyped, NEW o \in OpIds, NEW state \in OpState \ {"none"}, CloseRow(o, state)
    PROVE  RowMoves(o) /\ opRow'[o] \in {opRow[o], state}
<1>1. opRow \in [OpIds -> OpState]
  BY DEF CapTyped, OpState
<1>2. CASE Closable(o, state)
  <2>1. opRow' = [opRow EXCEPT ![o] = state] /\ opRow[o] # "none"
    BY <1>2 DEF CloseRow, Closable
  <2> QED  BY <1>1, <2>1 DEF RowMoves
<1>3. CASE ~Closable(o, state)
  <2>1. opRow' = opRow
    BY <1>3 DEF CloseRow
  <2> QED  BY <1>1, <2>1 DEF RowMoves
<1> QED  BY <1>2, <1>3

(* An answer ends the handler; only a success completes the row and only   *)
(* the handler's own word cancels it.                                      *)
LEMMA AnswerSteps ==
    ASSUME CapTyped, NEW t \in Executions, NEW outcome \in Outcomes, Answer(t, outcome)
    PROVE  /\ ExecMoves(t, execs[t].op, "ending", execs[t].signalled)
           /\ RowMoves(execs[t].op)
           /\ opRow'[execs[t].op] = "completed" =>
                 outcome = "ok" \/ opRow[execs[t].op] = "completed"
<1>1. PICK e \in {"none", "canceled", "other"} :
         execs' = [execs EXCEPT ![t].pc = "ending", ![t].err = e]
  BY DEF Answer
<1>2. ExecMoves(t, execs[t].op, "ending", execs[t].signalled)
  <2> DEFINE r == [execs[t] EXCEPT !.pc = "ending", !.err = e]
  <2>1. execs' = [execs EXCEPT ![t] = r]
    BY <1>1 DEF CapTyped
  <2>2. r \in ExecRow
    <3>1. \A u \in ExecRow : [u EXCEPT !.pc = "ending"] \in ExecRow
      BY DEF ExecRow, CapPc
    <3>2. \A u \in ExecRow : [u EXCEPT !.err = e] \in ExecRow
      BY DEF ExecRow
    <3> QED  BY <3>1, <3>2, ExecSteps
  <2>3. r.op = execs[t].op /\ r.pc = "ending" /\ r.signalled = execs[t].signalled
    BY ExecSteps DEF ExecRow
  <2> HIDE DEF r
  <2> QED  BY <2>1, <2>2, <2>3, ExecSteps
<1>3. PICK o \in OpIds : o = execs[t].op
  BY ExecSteps
<1>4. /\ RowMoves(o)
      /\ opRow'[o] = "completed" => outcome = "ok" \/ opRow[o] = "completed"
  <2>1. CASE UNCHANGED opRow
    BY <2>1 DEF RowMoves, CapTyped, OpState
  <2>2. CASE outcome = "ok"
    <3>1. CloseRow(o, "completed")
      BY <1>3, <2>2 DEF Answer
    <3> QED  BY <2>2, <3>1, RowSteps DEF OpState
  <2>3. CASE outcome # "ok" /\ ~UNCHANGED opRow
    <3>1. PICK state \in OpState \ {"none", "completed"} : CloseRow(o, state)
      BY <1>3, <2>3 DEF Answer, Outcomes, OpState
    <3>2. RowMoves(o) /\ opRow'[o] \in {opRow[o], state}
      BY <3>1, RowSteps
    <3> QED  BY <3>1, <3>2
  <2> QED  BY <2>1, <2>2, <2>3
<1> QED  BY <1>2, <1>3, <1>4

LEMMA ExecuteRefusedStep ==
    ASSUME CapInd, NEW t \in Executions, ExecuteRefused(t)
    PROVE  CapInd'
<1>0. CapTyped
  BY DEF CapInd
<1>1. execs[t].pc = "started" /\ execs[t].op \in OpIds
  BY <1>0, ExecSteps DEF ExecuteRefused
<1>2. RowMoves(execs[t].op) /\ opRow'[execs[t].op] \in {opRow[execs[t].op], "failed"}
  BY <1>0, <1>1, RowSteps DEF ExecuteRefused, OpState
<1>3. ExecMoves(t, Account, "done", FALSE)
  BY <1>0, ExecSteps, OverExecs DEF ExecuteRefused
<1>4. /\ UNCHANGED receipt /\ UNCHANGED rows /\ UNCHANGED files /\ UNCHANGED fence
      /\ UNCHANGED runtime /\ UNCHANGED cancel /\ UNCHANGED reconcile /\ UNCHANGED ran
  BY DEF ExecuteRefused
<1>5. CapTyped'
  BY <1>1, <1>2, <1>3, <1>4
     DEF CapInd, CapTyped, OpState, FenceRow, ExecMoves, RowMoves
<1>6. FenceFits'
  BY <1>1, <1>2, <1>3, <1>4, ReadersDiffer, ExecutionsArePositive
     DEF CapInd, FenceFits, ExecMoves
<1>7. PurgeFits'
  BY <1>1, <1>2, <1>3, <1>4, ExecutionsArePositive
     DEF CapInd, PurgeFits, FenceFits, ExecMoves
<1>8. RegisteredFits'
  BY <1>1, <1>2, <1>3, <1>4, OpsDiffer, ExecutionsArePositive
     DEF CapInd, RegisteredFits, OneLive, LivePc, ExecMoves
<1>9. NotYetRun'
  BY <1>1, <1>2, <1>3, <1>4, OpsDiffer
     DEF CapInd, NotYetRun, OneLive, LivePc, ExecMoves
<1>10. OneLive'
  BY <1>1, <1>2, <1>3, <1>4, OpsDiffer
     DEF CapInd, OneLive, LivePc, ExecMoves
<1>11. NoRowNoRun'
  BY <1>1, <1>2, <1>3, <1>4, OpsDiffer
     DEF CapInd, NoRowNoRun, LivePc, ExecMoves, RowMoves
<1>12. RuntimeFits'
  BY <1>1, <1>2, <1>3, <1>4, ExecutionsArePositive, RuntimeTyped
     DEF CapInd, RuntimeFits, ExecMoves
<1>13. WriteFits'
  BY <1>1, <1>2, <1>3, <1>4, OpsDiffer, ExecutionsArePositive
     DEF CapInd, WriteFits, WaitFits, LivePc, OneLive, NotYetRun, RegisteredFits, ExecMoves
<1>14. CancelledHandlerStopped'
  BY <1>1, <1>2, <1>3, <1>4, OpsDiffer
     DEF CapInd, CancelledHandlerStopped, OneLive, LivePc, ExecMoves, RowMoves
<1>15. PurgedStaysPurged'
  BY <1>1, <1>2, <1>3, <1>4, OpsDiffer
     DEF CapInd, PurgedStaysPurged, PurgeFits, FenceFits, RowMoves
<1>16. AccountReceipt'
  BY <1>1, <1>2, <1>3, <1>4, OpsDiffer
     DEF CapInd, AccountReceipt, PurgeFits, RowMoves
<1>17. HandlerRunsOnce'
  BY <1>1, <1>2, <1>3, <1>4
     DEF CapInd, HandlerRunsOnce, NotYetRun
<1>18. WaitFits'
  BY <1>1, <1>2, <1>3, <1>4
     DEF CapInd, WaitFits, ExecMoves
<1> QED  BY <1>5, <1>6, <1>7, <1>8, <1>9, <1>10, <1>11, <1>12, <1>13, <1>14, <1>15, <1>16, <1>17, <1>18 DEF CapInd

LEMMA RegisterAccountStep ==
    ASSUME CapInd, NEW t \in Executions, Register(t), execs[t].op = Account
    PROVE  CapInd'
<1>0. CapTyped
  BY DEF CapInd
<1>1. execs[t].pc = "started" /\ execs[t].op = Account /\ execs[t].op \in OpIds
  BY <1>0, ExecSteps DEF Register
<1>2. ExecMoves(t, execs[t].op, "registered", execs[t].signalled)
  BY <1>0, ExecSteps DEF Register, Registered, CapPc
<1>3. /\ runtime' \in [OpIds -> Executions \cup {0}] /\ runtime'[execs[t].op] = t
      /\ \A q \in OpIds \ {execs[t].op} : runtime'[q] = runtime[q]
  BY <1>0, <1>1 DEF Register, Registered, CapTyped
<1>4. UNCHANGED fence
  BY <1>1 DEF Register
<1>5. /\ UNCHANGED opRow /\ UNCHANGED receipt /\ UNCHANGED rows /\ UNCHANGED files /\ UNCHANGED cancel /\ UNCHANGED reconcile /\ UNCHANGED ran
  BY DEF Register
<1>6. CapTyped'
  BY <1>1, <1>2, <1>3, <1>4, <1>5
     DEF CapInd, CapTyped, OpState, FenceRow, ExecMoves
<1>7. FenceFits'
  BY <1>1, <1>2, <1>3, <1>4, <1>5, ReadersDiffer, ExecutionsArePositive
     DEF CapInd, FenceFits, ExecMoves
<1>8. PurgeFits'
  BY <1>1, <1>2, <1>3, <1>4, <1>5, ExecutionsArePositive
     DEF CapInd, PurgeFits, FenceFits, ExecMoves
<1>9. RegisteredFits'
  BY <1>1, <1>2, <1>3, <1>4, <1>5, OpsDiffer, ExecutionsArePositive
     DEF CapInd, RegisteredFits, OneLive, LivePc, ExecMoves
<1>10. NotYetRun'
  BY <1>1, <1>2, <1>3, <1>4, <1>5, OpsDiffer
     DEF CapInd, NotYetRun, OneLive, LivePc, ExecMoves
<1>11. OneLive'
  BY <1>1, <1>2, <1>3, <1>4, <1>5, OpsDiffer
     DEF CapInd, OneLive, LivePc, ExecMoves
<1>12. NoRowNoRun'
  BY <1>1, <1>2, <1>3, <1>4, <1>5, OpsDiffer
     DEF CapInd, NoRowNoRun, LivePc, ExecMoves
<1>13. RuntimeFits'
  BY <1>1, <1>2, <1>3, <1>4, <1>5, ExecutionsArePositive, RuntimeTyped
     DEF CapInd, RuntimeFits, ExecMoves
<1>14. WriteFits'
  BY <1>1, <1>2, <1>3, <1>4, <1>5, OpsDiffer, ExecutionsArePositive
     DEF CapInd, WriteFits, WaitFits, LivePc, OneLive, NotYetRun, RegisteredFits, ExecMoves
<1>15. CancelledHandlerStopped'
  BY <1>1, <1>2, <1>3, <1>4, <1>5, OpsDiffer
     DEF CapInd, CancelledHandlerStopped, OneLive, LivePc, ExecMoves
<1>16. PurgedStaysPurged'
  BY <1>1, <1>2, <1>3, <1>4, <1>5, OpsDiffer
     DEF CapInd, PurgedStaysPurged, PurgeFits, FenceFits
<1>17. AccountReceipt'
  BY <1>1, <1>2, <1>3, <1>4, <1>5, OpsDiffer
     DEF CapInd, AccountReceipt, PurgeFits
<1>18. HandlerRunsOnce'
  BY <1>1, <1>2, <1>3, <1>4, <1>5
     DEF CapInd, HandlerRunsOnce, NotYetRun
<1>19. WaitFits'
  BY <1>1, <1>2, <1>3, <1>4, <1>5
     DEF CapInd, WaitFits, ExecMoves
<1> QED  BY <1>6, <1>7, <1>8, <1>9, <1>10, <1>11, <1>12, <1>13, <1>14, <1>15, <1>16, <1>17, <1>18, <1>19 DEF CapInd

LEMMA RegisterOrdinaryStep ==
    ASSUME CapInd, NEW t \in Executions, Register(t), execs[t].op # Account
    PROVE  CapInd'
<1>0. CapTyped
  BY DEF CapInd
<1>1. execs[t].pc = "started" /\ execs[t].op \in Ordinary /\ execs[t].op \in OpIds
  BY <1>0, ExecSteps, OpsDiffer DEF Register
<1>2. ExecMoves(t, execs[t].op, "registered", execs[t].signalled)
  BY <1>0, ExecSteps DEF Register, Registered, CapPc
<1>3. /\ runtime' \in [OpIds -> Executions \cup {0}] /\ runtime'[execs[t].op] = t
      /\ \A q \in OpIds \ {execs[t].op} : runtime'[q] = runtime[q]
  BY <1>0, <1>1 DEF Register, Registered, CapTyped
<1>4. /\ FenceMoves(fence.readers \cup {ByExec(t)}, fence.writer, fence.sealed)
      /\ ~fence.sealed /\ fence.writer = 0
  BY <1>0, FenceSteps DEF Register, Readers
<1>5. /\ UNCHANGED opRow /\ UNCHANGED receipt /\ UNCHANGED rows /\ UNCHANGED files /\ UNCHANGED cancel /\ UNCHANGED reconcile /\ UNCHANGED ran
  BY DEF Register
<1>6. CapTyped'
  BY <1>1, <1>2, <1>3, <1>4, <1>5
     DEF CapInd, CapTyped, OpState, FenceRow, ExecMoves, FenceMoves
<1>7. FenceFits'
  BY <1>1, <1>2, <1>3, <1>4, <1>5, ReadersDiffer, ExecutionsArePositive
     DEF CapInd, FenceFits, ExecMoves, FenceMoves
<1>8. PurgeFits'
  BY <1>1, <1>2, <1>3, <1>4, <1>5, ExecutionsArePositive
     DEF CapInd, PurgeFits, FenceFits, ExecMoves, FenceMoves
<1>9. RegisteredFits'
  BY <1>1, <1>2, <1>3, <1>4, <1>5, OpsDiffer, ExecutionsArePositive
     DEF CapInd, RegisteredFits, OneLive, LivePc, ExecMoves
<1>10. NotYetRun'
  BY <1>1, <1>2, <1>3, <1>4, <1>5, OpsDiffer
     DEF CapInd, NotYetRun, OneLive, LivePc, ExecMoves
<1>11. OneLive'
  BY <1>1, <1>2, <1>3, <1>4, <1>5, OpsDiffer
     DEF CapInd, OneLive, LivePc, ExecMoves
<1>12. NoRowNoRun'
  BY <1>1, <1>2, <1>3, <1>4, <1>5, OpsDiffer
     DEF CapInd, NoRowNoRun, LivePc, ExecMoves
<1>13. RuntimeFits'
  BY <1>1, <1>2, <1>3, <1>4, <1>5, ExecutionsArePositive, RuntimeTyped
     DEF CapInd, RuntimeFits, ExecMoves
<1>14. WriteFits'
  BY <1>1, <1>2, <1>3, <1>4, <1>5, OpsDiffer, ExecutionsArePositive
     DEF CapInd, WriteFits, WaitFits, LivePc, OneLive, NotYetRun, RegisteredFits, ExecMoves
<1>15. CancelledHandlerStopped'
  BY <1>1, <1>2, <1>3, <1>4, <1>5, OpsDiffer
     DEF CapInd, CancelledHandlerStopped, OneLive, LivePc, ExecMoves
<1>16. PurgedStaysPurged'
  BY <1>1, <1>2, <1>3, <1>4, <1>5, OpsDiffer
     DEF CapInd, PurgedStaysPurged, PurgeFits, FenceFits, FenceMoves
<1>17. AccountReceipt'
  BY <1>1, <1>2, <1>3, <1>4, <1>5, OpsDiffer
     DEF CapInd, AccountReceipt, PurgeFits
<1>18. HandlerRunsOnce'
  BY <1>1, <1>2, <1>3, <1>4, <1>5
     DEF CapInd, HandlerRunsOnce, NotYetRun
<1>19. WaitFits'
  BY <1>1, <1>2, <1>3, <1>4, <1>5
     DEF CapInd, WaitFits, ExecMoves
<1> QED  BY <1>6, <1>7, <1>8, <1>9, <1>10, <1>11, <1>12, <1>13, <1>14, <1>15, <1>16, <1>17, <1>18, <1>19 DEF CapInd

LEMMA ClaimEndsStep ==
    ASSUME CapInd, NEW t \in Executions, Claim(t), opRow[execs[t].op] \notin {"pending", "running"} \/ execs[t].signalled
    PROVE  CapInd'
<1>0. CapTyped
  BY DEF CapInd
<1>1. execs[t].pc = "registered" /\ execs[t].op \in OpIds
  BY <1>0, ExecSteps DEF Claim
<1>2. RowMoves(execs[t].op) /\ opRow'[execs[t].op] \in {opRow[execs[t].op], "running"}
  BY <1>0, <1>1 DEF Claim, RowMoves, CapTyped, OpState
<1>3. ExecMoves(t, execs[t].op, "ending", execs[t].signalled)
  <2>1. PICK e \in {"canceled", "other"} : execs' = [execs EXCEPT ![t].pc = "ending", ![t].err = e]
    BY DEF Claim
  <2> DEFINE r == [execs[t] EXCEPT !.pc = "ending", !.err = e]
  <2>2. execs' = [execs EXCEPT ![t] = r]
    BY <1>0, <2>1 DEF CapTyped
  <2>3. r \in ExecRow
    <3>1. \A u \in ExecRow : [u EXCEPT !.pc = "ending"] \in ExecRow
      BY DEF ExecRow, CapPc
    <3>2. \A u \in ExecRow : [u EXCEPT !.err = e] \in ExecRow
      BY DEF ExecRow
    <3> QED  BY <1>0, <3>1, <3>2, ExecSteps
  <2>4. r.op = execs[t].op /\ r.pc = "ending" /\ r.signalled = execs[t].signalled
    BY <1>0, ExecSteps DEF ExecRow
  <2> HIDE DEF r
  <2> QED  BY <1>0, <2>2, <2>3, <2>4, ExecSteps
<1>4. UNCHANGED ran
  BY DEF Claim
<1>5. /\ UNCHANGED receipt /\ UNCHANGED rows /\ UNCHANGED files /\ UNCHANGED fence
      /\ UNCHANGED runtime /\ UNCHANGED cancel /\ UNCHANGED reconcile
  BY DEF Claim
<1>6. CapTyped'
  BY <1>1, <1>2, <1>3, <1>4, <1>5
     DEF CapInd, CapTyped, OpState, FenceRow, ExecMoves, RowMoves
<1>7. FenceFits'
  BY <1>1, <1>2, <1>3, <1>4, <1>5, ReadersDiffer, ExecutionsArePositive
     DEF CapInd, FenceFits, ExecMoves
<1>8. PurgeFits'
  BY <1>1, <1>2, <1>3, <1>4, <1>5, ExecutionsArePositive
     DEF CapInd, PurgeFits, FenceFits, ExecMoves
<1>9. RegisteredFits'
  BY <1>1, <1>2, <1>3, <1>4, <1>5, OpsDiffer, ExecutionsArePositive
     DEF CapInd, RegisteredFits, OneLive, LivePc, ExecMoves
<1>10. NotYetRun'
  BY <1>1, <1>2, <1>3, <1>4, <1>5, OpsDiffer
     DEF CapInd, NotYetRun, OneLive, LivePc, ExecMoves
<1>11. OneLive'
  BY <1>1, <1>2, <1>3, <1>4, <1>5, OpsDiffer
     DEF CapInd, OneLive, LivePc, ExecMoves
<1>12. NoRowNoRun'
  BY <1>1, <1>2, <1>3, <1>4, <1>5, OpsDiffer
     DEF CapInd, NoRowNoRun, LivePc, ExecMoves, RowMoves
<1>13. RuntimeFits'
  BY <1>1, <1>2, <1>3, <1>4, <1>5, ExecutionsArePositive, RuntimeTyped
     DEF CapInd, RuntimeFits, ExecMoves
<1>14. WriteFits'
  BY <1>1, <1>2, <1>3, <1>4, <1>5, OpsDiffer, ExecutionsArePositive
     DEF CapInd, WriteFits, WaitFits, LivePc, OneLive, NotYetRun, RegisteredFits, ExecMoves
<1>15. CancelledHandlerStopped'
  BY <1>1, <1>2, <1>3, <1>4, <1>5, OpsDiffer
     DEF CapInd, CancelledHandlerStopped, OneLive, LivePc, ExecMoves, RowMoves
<1>16. PurgedStaysPurged'
  BY <1>1, <1>2, <1>3, <1>4, <1>5, OpsDiffer
     DEF CapInd, PurgedStaysPurged, PurgeFits, FenceFits, RowMoves
<1>17. AccountReceipt'
  BY <1>1, <1>2, <1>3, <1>4, <1>5, OpsDiffer
     DEF CapInd, AccountReceipt, PurgeFits, RowMoves
<1>18. HandlerRunsOnce'
  BY <1>1, <1>2, <1>3, <1>4, <1>5
     DEF CapInd, HandlerRunsOnce, NotYetRun
<1>19. WaitFits'
  BY <1>1, <1>2, <1>3, <1>4, <1>5
     DEF CapInd, WaitFits, ExecMoves
<1> QED  BY <1>6, <1>7, <1>8, <1>9, <1>10, <1>11, <1>12, <1>13, <1>14, <1>15, <1>16, <1>17, <1>18, <1>19 DEF CapInd

LEMMA ClaimRunsStep ==
    ASSUME CapInd, NEW t \in Executions, Claim(t), opRow[execs[t].op] \in {"pending", "running"}, ~execs[t].signalled
    PROVE  CapInd'
<1>0. CapTyped
  BY DEF CapInd
<1>1. execs[t].pc = "registered" /\ execs[t].op \in OpIds
  BY <1>0, ExecSteps DEF Claim
<1>2. RowMoves(execs[t].op) /\ opRow'[execs[t].op] = "running" /\ ~execs[t].signalled
  BY <1>0, <1>1 DEF Claim, RowMoves, CapTyped, OpState
<1>3. ExecMoves(t, execs[t].op, "handler", execs[t].signalled)
  BY <1>0, ExecSteps DEF Claim, CapPc
<1>4. /\ ran' \in [Ordinary -> Nat]
      /\ \A o \in Ordinary : ran'[o] = IF o = execs[t].op THEN ran[o] + 1 ELSE ran[o]
  BY <1>0 DEF Claim, CapTyped
<1>5. /\ UNCHANGED receipt /\ UNCHANGED rows /\ UNCHANGED files /\ UNCHANGED fence
      /\ UNCHANGED runtime /\ UNCHANGED cancel /\ UNCHANGED reconcile
  BY DEF Claim
<1>6. CapTyped'
  BY <1>1, <1>2, <1>3, <1>4, <1>5
     DEF CapInd, CapTyped, OpState, FenceRow, ExecMoves, RowMoves
<1>7. FenceFits'
  BY <1>1, <1>2, <1>3, <1>4, <1>5, ReadersDiffer, ExecutionsArePositive
     DEF CapInd, FenceFits, ExecMoves
<1>8. PurgeFits'
  BY <1>1, <1>2, <1>3, <1>4, <1>5, ExecutionsArePositive
     DEF CapInd, PurgeFits, FenceFits, ExecMoves
<1>9. RegisteredFits'
  BY <1>1, <1>2, <1>3, <1>4, <1>5, OpsDiffer, ExecutionsArePositive
     DEF CapInd, RegisteredFits, OneLive, LivePc, ExecMoves
<1>10. NotYetRun'
  BY <1>1, <1>2, <1>3, <1>4, <1>5, OpsDiffer
     DEF CapInd, NotYetRun, OneLive, LivePc, ExecMoves
<1>11. OneLive'
  BY <1>1, <1>2, <1>3, <1>4, <1>5, OpsDiffer
     DEF CapInd, OneLive, LivePc, ExecMoves
<1>12. NoRowNoRun'
  BY <1>1, <1>2, <1>3, <1>4, <1>5, OpsDiffer
     DEF CapInd, NoRowNoRun, LivePc, ExecMoves, RowMoves
<1>13. RuntimeFits'
  BY <1>1, <1>2, <1>3, <1>4, <1>5, ExecutionsArePositive, RuntimeTyped
     DEF CapInd, RuntimeFits, ExecMoves
<1>14. WriteFits'
  BY <1>1, <1>2, <1>3, <1>4, <1>5, OpsDiffer, ExecutionsArePositive
     DEF CapInd, WriteFits, WaitFits, LivePc, OneLive, NotYetRun, RegisteredFits, ExecMoves
<1>15. CancelledHandlerStopped'
  BY <1>1, <1>2, <1>3, <1>4, <1>5, OpsDiffer
     DEF CapInd, CancelledHandlerStopped, OneLive, LivePc, ExecMoves, RowMoves
<1>16. PurgedStaysPurged'
  BY <1>1, <1>2, <1>3, <1>4, <1>5, OpsDiffer
     DEF CapInd, PurgedStaysPurged, PurgeFits, FenceFits, RowMoves
<1>17. AccountReceipt'
  BY <1>1, <1>2, <1>3, <1>4, <1>5, OpsDiffer
     DEF CapInd, AccountReceipt, PurgeFits, RowMoves
<1>18. HandlerRunsOnce'
  BY <1>1, <1>2, <1>3, <1>4, <1>5
     DEF CapInd, HandlerRunsOnce, NotYetRun
<1>19. WaitFits'
  BY <1>1, <1>2, <1>3, <1>4, <1>5
     DEF CapInd, WaitFits, ExecMoves
<1> QED  BY <1>6, <1>7, <1>8, <1>9, <1>10, <1>11, <1>12, <1>13, <1>14, <1>15, <1>16, <1>17, <1>18, <1>19 DEF CapInd

LEMMA OrdinaryWritesStep ==
    ASSUME CapInd, NEW t \in Executions, OrdinaryWrites(t)
    PROVE  CapInd'
<1>0. CapTyped
  BY DEF CapInd
<1>1. execs[t].pc = "handler" /\ execs[t].op # Account /\ rows' = TRUE /\ files' = TRUE
  BY DEF OrdinaryWrites
<1>2. ByExec(t) \in fence.readers
  BY <1>1 DEF CapInd, FenceFits
<1>3. receipt = "none"
  BY <1>2 DEF CapInd, PurgeFits
<1>4. /\ UNCHANGED opRow /\ UNCHANGED receipt /\ UNCHANGED fence
      /\ UNCHANGED runtime /\ UNCHANGED execs /\ UNCHANGED cancel /\ UNCHANGED reconcile /\ UNCHANGED ran
  BY DEF OrdinaryWrites
<1>5. CapTyped'
  BY <1>1, <1>2, <1>3, <1>4
     DEF CapInd, CapTyped, OpState, FenceRow
<1>6. FenceFits'
  BY <1>1, <1>2, <1>3, <1>4, ReadersDiffer, ExecutionsArePositive
     DEF CapInd, FenceFits
<1>7. PurgeFits'
  BY <1>1, <1>2, <1>3, <1>4, ExecutionsArePositive
     DEF CapInd, PurgeFits, FenceFits
<1>8. RegisteredFits'
  BY <1>1, <1>2, <1>3, <1>4, OpsDiffer, ExecutionsArePositive
     DEF CapInd, RegisteredFits, OneLive, LivePc
<1>9. NotYetRun'
  BY <1>1, <1>2, <1>3, <1>4, OpsDiffer
     DEF CapInd, NotYetRun, OneLive, LivePc
<1>10. OneLive'
  BY <1>1, <1>2, <1>3, <1>4, OpsDiffer
     DEF CapInd, OneLive, LivePc
<1>11. NoRowNoRun'
  BY <1>1, <1>2, <1>3, <1>4, OpsDiffer
     DEF CapInd, NoRowNoRun, LivePc
<1>12. RuntimeFits'
  BY <1>1, <1>2, <1>3, <1>4, ExecutionsArePositive, RuntimeTyped
     DEF CapInd, RuntimeFits
<1>13. WriteFits'
  BY <1>1, <1>2, <1>3, <1>4, OpsDiffer, ExecutionsArePositive
     DEF CapInd, WriteFits, WaitFits, LivePc, OneLive, NotYetRun, RegisteredFits
<1>14. CancelledHandlerStopped'
  BY <1>1, <1>2, <1>3, <1>4, OpsDiffer
     DEF CapInd, CancelledHandlerStopped, OneLive, LivePc
<1>15. PurgedStaysPurged'
  BY <1>1, <1>2, <1>3, <1>4, OpsDiffer
     DEF CapInd, PurgedStaysPurged, PurgeFits, FenceFits
<1>16. AccountReceipt'
  BY <1>1, <1>2, <1>3, <1>4, OpsDiffer
     DEF CapInd, AccountReceipt, PurgeFits
<1>17. HandlerRunsOnce'
  BY <1>1, <1>2, <1>3, <1>4
     DEF CapInd, HandlerRunsOnce, NotYetRun
<1>18. WaitFits'
  BY <1>1, <1>2, <1>3, <1>4
     DEF CapInd, WaitFits
<1> QED  BY <1>5, <1>6, <1>7, <1>8, <1>9, <1>10, <1>11, <1>12, <1>13, <1>14, <1>15, <1>16, <1>17, <1>18 DEF CapInd

LEMMA OrdinaryReturnsStep ==
    ASSUME CapInd, NEW t \in Executions, NEW outcome \in Outcomes, OrdinaryReturns(t, outcome)
    PROVE  CapInd'
<1>0. CapTyped
  BY DEF CapInd
<1>1. execs[t].pc = "handler" /\ execs[t].op # Account /\ execs[t].op \in OpIds
  BY <1>0, ExecSteps DEF OrdinaryReturns
<1>2. /\ ExecMoves(t, execs[t].op, "ending", execs[t].signalled) /\ RowMoves(execs[t].op)
  BY <1>0, AnswerSteps DEF OrdinaryReturns, Outcomes, PurgeFailures
<1>3. /\ UNCHANGED receipt /\ UNCHANGED rows /\ UNCHANGED files /\ UNCHANGED fence
      /\ UNCHANGED runtime /\ UNCHANGED cancel /\ UNCHANGED reconcile /\ UNCHANGED ran
  BY DEF OrdinaryReturns
<1>4. CapTyped'
  BY <1>1, <1>2, <1>3
     DEF CapInd, CapTyped, OpState, FenceRow, ExecMoves, RowMoves
<1>5. FenceFits'
  BY <1>1, <1>2, <1>3, ReadersDiffer, ExecutionsArePositive
     DEF CapInd, FenceFits, ExecMoves
<1>6. PurgeFits'
  BY <1>1, <1>2, <1>3, ExecutionsArePositive
     DEF CapInd, PurgeFits, FenceFits, ExecMoves
<1>7. RegisteredFits'
  BY <1>1, <1>2, <1>3, OpsDiffer, ExecutionsArePositive
     DEF CapInd, RegisteredFits, OneLive, LivePc, ExecMoves
<1>8. NotYetRun'
  BY <1>1, <1>2, <1>3, OpsDiffer
     DEF CapInd, NotYetRun, OneLive, LivePc, ExecMoves
<1>9. OneLive'
  BY <1>1, <1>2, <1>3, OpsDiffer
     DEF CapInd, OneLive, LivePc, ExecMoves
<1>10. NoRowNoRun'
  BY <1>1, <1>2, <1>3, OpsDiffer
     DEF CapInd, NoRowNoRun, LivePc, ExecMoves, RowMoves
<1>11. RuntimeFits'
  BY <1>1, <1>2, <1>3, ExecutionsArePositive, RuntimeTyped
     DEF CapInd, RuntimeFits, ExecMoves
<1>12. WriteFits'
  BY <1>1, <1>2, <1>3, OpsDiffer, ExecutionsArePositive
     DEF CapInd, WriteFits, WaitFits, LivePc, OneLive, NotYetRun, RegisteredFits, ExecMoves
<1>13. CancelledHandlerStopped'
  BY <1>1, <1>2, <1>3, OpsDiffer
     DEF CapInd, CancelledHandlerStopped, OneLive, LivePc, ExecMoves, RowMoves
<1>14. PurgedStaysPurged'
  BY <1>1, <1>2, <1>3, OpsDiffer
     DEF CapInd, PurgedStaysPurged, PurgeFits, FenceFits, RowMoves
<1>15. AccountReceipt'
  BY <1>1, <1>2, <1>3, OpsDiffer
     DEF CapInd, AccountReceipt, PurgeFits, RowMoves
<1>16. HandlerRunsOnce'
  BY <1>1, <1>2, <1>3
     DEF CapInd, HandlerRunsOnce, NotYetRun
<1>17. WaitFits'
  BY <1>1, <1>2, <1>3
     DEF CapInd, WaitFits, ExecMoves
<1> QED  BY <1>4, <1>5, <1>6, <1>7, <1>8, <1>9, <1>10, <1>11, <1>12, <1>13, <1>14, <1>15, <1>16, <1>17 DEF CapInd

LEMMA EndExecutionStep ==
    ASSUME CapInd, NEW t \in Executions, EndExecution(t)
    PROVE  CapInd'
<1>0. CapTyped
  BY DEF CapInd
<1>1. execs[t].pc = "ending" /\ execs[t].op \in OpIds
  BY <1>0, ExecSteps DEF EndExecution
<1>2. ExecMoves(t, Account, "done", FALSE)
  BY <1>0, ExecSteps, OverExecs DEF EndExecution
<1>3. /\ runtime' \in [OpIds -> Executions \cup {0}] /\ runtime'[execs[t].op] = 0
      /\ \A q \in OpIds \ {execs[t].op} : runtime'[q] = runtime[q]
  BY <1>0, <1>1 DEF EndExecution, CapTyped
<1>4. FenceMoves(fence.readers \ {ByExec(t)}, fence.writer, fence.sealed)
  BY <1>0, FenceSteps DEF EndExecution, Readers
<1>5. /\ cancel' \in CancelRow /\ cancel'.op = cancel.op /\ cancel'.exec = cancel.exec
      /\ cancel' = cancel \/ (cancel.pc = "wait" /\ cancel.exec = t /\ cancel'.pc \in {"write", "refused"})
      /\ cancel'.pc = "wait" => cancel.pc = "wait" /\ cancel.exec # t
  BY <1>0 DEF EndExecution, Publish, CapTyped, CancelRow
<1>6. /\ UNCHANGED opRow /\ UNCHANGED receipt /\ UNCHANGED rows /\ UNCHANGED files /\ UNCHANGED reconcile /\ UNCHANGED ran
  BY DEF EndExecution
<1>7. CapTyped'
  BY <1>1, <1>2, <1>3, <1>4, <1>5, <1>6
     DEF CapInd, CapTyped, OpState, FenceRow, ExecMoves, FenceMoves
<1>8. FenceFits'
  BY <1>1, <1>2, <1>3, <1>4, <1>5, <1>6, ReadersDiffer, ExecutionsArePositive
     DEF CapInd, FenceFits, ExecMoves, FenceMoves
<1>9. PurgeFits'
  BY <1>1, <1>2, <1>3, <1>4, <1>5, <1>6, ExecutionsArePositive
     DEF CapInd, PurgeFits, FenceFits, ExecMoves, FenceMoves
<1>10. RegisteredFits'
  BY <1>1, <1>2, <1>3, <1>4, <1>5, <1>6, OpsDiffer, ExecutionsArePositive
     DEF CapInd, RegisteredFits, OneLive, LivePc, ExecMoves
<1>11. NotYetRun'
  BY <1>1, <1>2, <1>3, <1>4, <1>5, <1>6, OpsDiffer
     DEF CapInd, NotYetRun, OneLive, LivePc, ExecMoves
<1>12. OneLive'
  BY <1>1, <1>2, <1>3, <1>4, <1>5, <1>6, OpsDiffer
     DEF CapInd, OneLive, LivePc, ExecMoves
<1>13. NoRowNoRun'
  BY <1>1, <1>2, <1>3, <1>4, <1>5, <1>6, OpsDiffer
     DEF CapInd, NoRowNoRun, LivePc, ExecMoves
<1>14. RuntimeFits'
  BY <1>1, <1>2, <1>3, <1>4, <1>5, <1>6, ExecutionsArePositive, RuntimeTyped
     DEF CapInd, RuntimeFits, ExecMoves
<1>15. WriteFits'
  BY <1>1, <1>2, <1>3, <1>4, <1>5, <1>6, OpsDiffer, ExecutionsArePositive
     DEF CapInd, WriteFits, WaitFits, LivePc, OneLive, NotYetRun, RegisteredFits, ExecMoves
<1>16. CancelledHandlerStopped'
  BY <1>1, <1>2, <1>3, <1>4, <1>5, <1>6, OpsDiffer
     DEF CapInd, CancelledHandlerStopped, OneLive, LivePc, ExecMoves
<1>17. PurgedStaysPurged'
  BY <1>1, <1>2, <1>3, <1>4, <1>5, <1>6, OpsDiffer
     DEF CapInd, PurgedStaysPurged, PurgeFits, FenceFits, FenceMoves
<1>18. AccountReceipt'
  BY <1>1, <1>2, <1>3, <1>4, <1>5, <1>6, OpsDiffer
     DEF CapInd, AccountReceipt, PurgeFits
<1>19. HandlerRunsOnce'
  BY <1>1, <1>2, <1>3, <1>4, <1>5, <1>6
     DEF CapInd, HandlerRunsOnce, NotYetRun
<1>20. WaitFits'
  BY <1>1, <1>2, <1>3, <1>4, <1>5, <1>6
     DEF CapInd, WaitFits, ExecMoves
<1> QED  BY <1>7, <1>8, <1>9, <1>10, <1>11, <1>12, <1>13, <1>14, <1>15, <1>16, <1>17, <1>18, <1>19, <1>20 DEF CapInd

LEMMA PurgeRefusedStep ==
    ASSUME CapInd, NEW t \in Executions, NEW outcome \in PurgeFailures, PurgeRefused(t, outcome)
    PROVE  CapInd'
<1>0. CapTyped
  BY DEF CapInd
<1>1. execs[t].pc = "handler" /\ execs[t].op = Account
  BY DEF PurgeRefused, AccountExec
<1>2. /\ ExecMoves(t, execs[t].op, "ending", execs[t].signalled) /\ RowMoves(execs[t].op)
      /\ opRow'[execs[t].op] = "completed" => opRow[execs[t].op] = "completed"
  BY <1>0, AnswerSteps DEF PurgeRefused, Outcomes, PurgeFailures
<1>3. /\ UNCHANGED receipt /\ UNCHANGED rows /\ UNCHANGED files /\ UNCHANGED fence
      /\ UNCHANGED runtime /\ UNCHANGED cancel /\ UNCHANGED reconcile /\ UNCHANGED ran
  BY DEF PurgeRefused
<1>4. CapTyped'
  BY <1>1, <1>2, <1>3
     DEF CapInd, CapTyped, OpState, FenceRow, ExecMoves, RowMoves
<1>5. FenceFits'
  BY <1>1, <1>2, <1>3, ReadersDiffer, ExecutionsArePositive
     DEF CapInd, FenceFits, ExecMoves
<1>6. PurgeFits'
  BY <1>1, <1>2, <1>3, ExecutionsArePositive
     DEF CapInd, PurgeFits, FenceFits, ExecMoves
<1>7. RegisteredFits'
  BY <1>1, <1>2, <1>3, OpsDiffer, ExecutionsArePositive
     DEF CapInd, RegisteredFits, OneLive, LivePc, ExecMoves
<1>8. NotYetRun'
  BY <1>1, <1>2, <1>3, OpsDiffer
     DEF CapInd, NotYetRun, OneLive, LivePc, ExecMoves
<1>9. OneLive'
  BY <1>1, <1>2, <1>3, OpsDiffer
     DEF CapInd, OneLive, LivePc, ExecMoves
<1>10. NoRowNoRun'
  BY <1>1, <1>2, <1>3, OpsDiffer
     DEF CapInd, NoRowNoRun, LivePc, ExecMoves, RowMoves
<1>11. RuntimeFits'
  BY <1>1, <1>2, <1>3, ExecutionsArePositive, RuntimeTyped
     DEF CapInd, RuntimeFits, ExecMoves
<1>12. WriteFits'
  BY <1>1, <1>2, <1>3, OpsDiffer, ExecutionsArePositive
     DEF CapInd, WriteFits, WaitFits, LivePc, OneLive, NotYetRun, RegisteredFits, ExecMoves
<1>13. CancelledHandlerStopped'
  BY <1>1, <1>2, <1>3, OpsDiffer
     DEF CapInd, CancelledHandlerStopped, OneLive, LivePc, ExecMoves, RowMoves
<1>14. PurgedStaysPurged'
  BY <1>1, <1>2, <1>3, OpsDiffer
     DEF CapInd, PurgedStaysPurged, PurgeFits, FenceFits, RowMoves
<1>15. AccountReceipt'
  BY <1>1, <1>2, <1>3, OpsDiffer
     DEF CapInd, AccountReceipt, PurgeFits, RowMoves
<1>16. HandlerRunsOnce'
  BY <1>1, <1>2, <1>3
     DEF CapInd, HandlerRunsOnce, NotYetRun
<1>17. WaitFits'
  BY <1>1, <1>2, <1>3
     DEF CapInd, WaitFits, ExecMoves
<1> QED  BY <1>4, <1>5, <1>6, <1>7, <1>8, <1>9, <1>10, <1>11, <1>12, <1>13, <1>14, <1>15, <1>16, <1>17 DEF CapInd

LEMMA BeginPurgeStep ==
    ASSUME CapInd, NEW t \in Executions, BeginPurge(t)
    PROVE  CapInd'
<1>0. CapTyped
  BY DEF CapInd
<1>1. execs[t].pc = "handler" /\ execs[t].op = Account /\ fence.writer = 0
  BY DEF BeginPurge, AccountExec
<1>2. ExecMoves(t, execs[t].op, "draining", execs[t].signalled)
  BY <1>0, ExecSteps DEF BeginPurge, CapPc
<1>3. FenceMoves(fence.readers, t, fence.sealed)
  BY <1>0 DEF BeginPurge, FenceMoves, CapTyped, FenceRow
<1>4. /\ UNCHANGED opRow /\ UNCHANGED receipt /\ UNCHANGED rows /\ UNCHANGED files
      /\ UNCHANGED runtime /\ UNCHANGED cancel /\ UNCHANGED reconcile /\ UNCHANGED ran
  BY DEF BeginPurge
<1>5. CapTyped'
  BY <1>1, <1>2, <1>3, <1>4
     DEF CapInd, CapTyped, OpState, FenceRow, ExecMoves, FenceMoves
<1>6. FenceFits'
  BY <1>1, <1>2, <1>3, <1>4, ReadersDiffer, ExecutionsArePositive
     DEF CapInd, FenceFits, ExecMoves, FenceMoves
<1>7. PurgeFits'
  BY <1>1, <1>2, <1>3, <1>4, ExecutionsArePositive
     DEF CapInd, PurgeFits, FenceFits, ExecMoves, FenceMoves
<1>8. RegisteredFits'
  BY <1>1, <1>2, <1>3, <1>4, OpsDiffer, ExecutionsArePositive
     DEF CapInd, RegisteredFits, OneLive, LivePc, ExecMoves
<1>9. NotYetRun'
  BY <1>1, <1>2, <1>3, <1>4, OpsDiffer
     DEF CapInd, NotYetRun, OneLive, LivePc, ExecMoves
<1>10. OneLive'
  BY <1>1, <1>2, <1>3, <1>4, OpsDiffer
     DEF CapInd, OneLive, LivePc, ExecMoves
<1>11. NoRowNoRun'
  BY <1>1, <1>2, <1>3, <1>4, OpsDiffer
     DEF CapInd, NoRowNoRun, LivePc, ExecMoves
<1>12. RuntimeFits'
  BY <1>1, <1>2, <1>3, <1>4, ExecutionsArePositive, RuntimeTyped
     DEF CapInd, RuntimeFits, ExecMoves
<1>13. WriteFits'
  BY <1>1, <1>2, <1>3, <1>4, OpsDiffer, ExecutionsArePositive
     DEF CapInd, WriteFits, WaitFits, LivePc, OneLive, NotYetRun, RegisteredFits, ExecMoves
<1>14. CancelledHandlerStopped'
  BY <1>1, <1>2, <1>3, <1>4, OpsDiffer
     DEF CapInd, CancelledHandlerStopped, OneLive, LivePc, ExecMoves
<1>15. PurgedStaysPurged'
  BY <1>1, <1>2, <1>3, <1>4, OpsDiffer
     DEF CapInd, PurgedStaysPurged, PurgeFits, FenceFits, FenceMoves
<1>16. AccountReceipt'
  BY <1>1, <1>2, <1>3, <1>4, OpsDiffer
     DEF CapInd, AccountReceipt, PurgeFits
<1>17. HandlerRunsOnce'
  BY <1>1, <1>2, <1>3, <1>4
     DEF CapInd, HandlerRunsOnce, NotYetRun
<1>18. WaitFits'
  BY <1>1, <1>2, <1>3, <1>4
     DEF CapInd, WaitFits, ExecMoves
<1> QED  BY <1>5, <1>6, <1>7, <1>8, <1>9, <1>10, <1>11, <1>12, <1>13, <1>14, <1>15, <1>16, <1>17, <1>18 DEF CapInd

LEMMA DrainEndsStep ==
    ASSUME CapInd, NEW t \in Executions, DrainEnds(t)
    PROVE  CapInd'
<1>0. CapTyped
  BY DEF CapInd
<1>1. execs[t].pc = "draining" /\ execs[t].op = Account
  BY DEF DrainEnds, AccountExec
<1>2. /\ ExecMoves(t, execs[t].op, "ending", execs[t].signalled) /\ RowMoves(execs[t].op)
      /\ opRow'[execs[t].op] = "completed" => opRow[execs[t].op] = "completed"
  BY <1>0, AnswerSteps DEF DrainEnds, Outcomes, PurgeFailures
<1>3. FenceMoves(fence.readers, 0, fence.sealed)
  BY <1>0, FenceSteps DEF DrainEnds
<1>4. /\ UNCHANGED receipt /\ UNCHANGED rows /\ UNCHANGED files
      /\ UNCHANGED runtime /\ UNCHANGED cancel /\ UNCHANGED reconcile /\ UNCHANGED ran
  BY DEF DrainEnds
<1>5. CapTyped'
  BY <1>1, <1>2, <1>3, <1>4
     DEF CapInd, CapTyped, OpState, FenceRow, ExecMoves, RowMoves, FenceMoves
<1>6. FenceFits'
  BY <1>1, <1>2, <1>3, <1>4, ReadersDiffer, ExecutionsArePositive
     DEF CapInd, FenceFits, ExecMoves, FenceMoves
<1>7. PurgeFits'
  BY <1>1, <1>2, <1>3, <1>4, ExecutionsArePositive
     DEF CapInd, PurgeFits, FenceFits, ExecMoves, FenceMoves
<1>8. RegisteredFits'
  BY <1>1, <1>2, <1>3, <1>4, OpsDiffer, ExecutionsArePositive
     DEF CapInd, RegisteredFits, OneLive, LivePc, ExecMoves
<1>9. NotYetRun'
  BY <1>1, <1>2, <1>3, <1>4, OpsDiffer
     DEF CapInd, NotYetRun, OneLive, LivePc, ExecMoves
<1>10. OneLive'
  BY <1>1, <1>2, <1>3, <1>4, OpsDiffer
     DEF CapInd, OneLive, LivePc, ExecMoves
<1>11. NoRowNoRun'
  BY <1>1, <1>2, <1>3, <1>4, OpsDiffer
     DEF CapInd, NoRowNoRun, LivePc, ExecMoves, RowMoves
<1>12. RuntimeFits'
  BY <1>1, <1>2, <1>3, <1>4, ExecutionsArePositive, RuntimeTyped
     DEF CapInd, RuntimeFits, ExecMoves
<1>13. WriteFits'
  BY <1>1, <1>2, <1>3, <1>4, OpsDiffer, ExecutionsArePositive
     DEF CapInd, WriteFits, WaitFits, LivePc, OneLive, NotYetRun, RegisteredFits, ExecMoves
<1>14. CancelledHandlerStopped'
  BY <1>1, <1>2, <1>3, <1>4, OpsDiffer
     DEF CapInd, CancelledHandlerStopped, OneLive, LivePc, ExecMoves, RowMoves
<1>15. PurgedStaysPurged'
  BY <1>1, <1>2, <1>3, <1>4, OpsDiffer
     DEF CapInd, PurgedStaysPurged, PurgeFits, FenceFits, RowMoves, FenceMoves
<1>16. AccountReceipt'
  BY <1>1, <1>2, <1>3, <1>4, OpsDiffer
     DEF CapInd, AccountReceipt, PurgeFits, RowMoves
<1>17. HandlerRunsOnce'
  BY <1>1, <1>2, <1>3, <1>4
     DEF CapInd, HandlerRunsOnce, NotYetRun
<1>18. WaitFits'
  BY <1>1, <1>2, <1>3, <1>4
     DEF CapInd, WaitFits, ExecMoves
<1> QED  BY <1>5, <1>6, <1>7, <1>8, <1>9, <1>10, <1>11, <1>12, <1>13, <1>14, <1>15, <1>16, <1>17, <1>18 DEF CapInd

LEMMA PurgeDatabaseStep ==
    ASSUME CapInd, NEW t \in Executions, PurgeDatabase(t)
    PROVE  CapInd'
<1>0. CapTyped
  BY DEF CapInd
<1>1. execs[t].pc = "draining" /\ execs[t].op = Account /\ fence.readers = {} /\ receipt # "completed"
  BY DEF PurgeDatabase, AccountExec
<1>2. ExecMoves(t, execs[t].op, "external", execs[t].signalled)
  BY <1>0, ExecSteps DEF PurgeDatabase, CapPc
<1>3. /\ receipt' = "database_purged" /\ rows' = FALSE
      /\ opRow' = [o \in OpIds |-> IF o = Account THEN opRow[o] ELSE "none"]
  BY DEF PurgeDatabase
<1>4. /\ opRow' \in [OpIds -> OpState] /\ opRow'[Account] = opRow[Account]
      /\ \A o \in Ordinary : opRow'[o] = "none"
  BY <1>0, <1>3, OpsDiffer DEF CapTyped, OpState
<1>5. /\ UNCHANGED files /\ UNCHANGED fence
      /\ UNCHANGED runtime /\ UNCHANGED cancel /\ UNCHANGED reconcile /\ UNCHANGED ran
  BY DEF PurgeDatabase
<1>6. CapTyped'
  BY <1>1, <1>2, <1>3, <1>4, <1>5
     DEF CapInd, CapTyped, OpState, FenceRow, ExecMoves
<1>7. FenceFits'
  BY <1>1, <1>2, <1>3, <1>4, <1>5, ReadersDiffer, ExecutionsArePositive
     DEF CapInd, FenceFits, ExecMoves
<1>8. PurgeFits'
  BY <1>1, <1>2, <1>3, <1>4, <1>5, ExecutionsArePositive
     DEF CapInd, PurgeFits, FenceFits, ExecMoves
<1>9. RegisteredFits'
  BY <1>1, <1>2, <1>3, <1>4, <1>5, OpsDiffer, ExecutionsArePositive
     DEF CapInd, RegisteredFits, OneLive, LivePc, ExecMoves
<1>10. NotYetRun'
  BY <1>1, <1>2, <1>3, <1>4, <1>5, OpsDiffer
     DEF CapInd, NotYetRun, OneLive, LivePc, ExecMoves
<1>11. OneLive'
  BY <1>1, <1>2, <1>3, <1>4, <1>5, OpsDiffer
     DEF CapInd, OneLive, LivePc, ExecMoves
<1>12. NoRowNoRun'
  BY <1>1, <1>2, <1>3, <1>4, <1>5, OpsDiffer
     DEF CapInd, NoRowNoRun, LivePc, ExecMoves
<1>13. RuntimeFits'
  BY <1>1, <1>2, <1>3, <1>4, <1>5, ExecutionsArePositive, RuntimeTyped
     DEF CapInd, RuntimeFits, ExecMoves
<1>14. WriteFits'
  BY <1>1, <1>2, <1>3, <1>4, <1>5, OpsDiffer, ExecutionsArePositive
     DEF CapInd, WriteFits, WaitFits, LivePc, OneLive, NotYetRun, RegisteredFits, ExecMoves
<1>15. CancelledHandlerStopped'
  BY <1>1, <1>2, <1>3, <1>4, <1>5, OpsDiffer
     DEF CapInd, CancelledHandlerStopped, OneLive, LivePc, ExecMoves
<1>16. PurgedStaysPurged'
  BY <1>1, <1>2, <1>3, <1>4, <1>5, OpsDiffer
     DEF CapInd, PurgedStaysPurged, PurgeFits, FenceFits
<1>17. AccountReceipt'
  BY <1>1, <1>2, <1>3, <1>4, <1>5, OpsDiffer
     DEF CapInd, AccountReceipt, PurgeFits
<1>18. HandlerRunsOnce'
  BY <1>1, <1>2, <1>3, <1>4, <1>5
     DEF CapInd, HandlerRunsOnce, NotYetRun
<1>19. WaitFits'
  BY <1>1, <1>2, <1>3, <1>4, <1>5
     DEF CapInd, WaitFits, ExecMoves
<1> QED  BY <1>6, <1>7, <1>8, <1>9, <1>10, <1>11, <1>12, <1>13, <1>14, <1>15, <1>16, <1>17, <1>18, <1>19 DEF CapInd

LEMMA PurgeReplayedStep ==
    ASSUME CapInd, NEW t \in Executions, PurgeReplayed(t)
    PROVE  CapInd'
<1>0. CapTyped
  BY DEF CapInd
<1>1. execs[t].pc = "draining" /\ execs[t].op = Account /\ fence.readers = {} /\ receipt = "completed"
  BY DEF PurgeReplayed, AccountExec
<1>2. /\ ExecMoves(t, execs[t].op, "ending", execs[t].signalled) /\ RowMoves(execs[t].op)
  BY <1>0, AnswerSteps DEF PurgeReplayed, Outcomes, PurgeFailures
<1>3. FenceMoves(fence.readers, 0, TRUE)
  BY <1>0, FenceSteps DEF PurgeReplayed
<1>4. /\ UNCHANGED receipt /\ UNCHANGED rows /\ UNCHANGED files
      /\ UNCHANGED runtime /\ UNCHANGED cancel /\ UNCHANGED reconcile /\ UNCHANGED ran
  BY DEF PurgeReplayed
<1>5. CapTyped'
  BY <1>1, <1>2, <1>3, <1>4
     DEF CapInd, CapTyped, OpState, FenceRow, ExecMoves, RowMoves, FenceMoves
<1>6. FenceFits'
  BY <1>1, <1>2, <1>3, <1>4, ReadersDiffer, ExecutionsArePositive
     DEF CapInd, FenceFits, ExecMoves, FenceMoves
<1>7. PurgeFits'
  BY <1>1, <1>2, <1>3, <1>4, ExecutionsArePositive
     DEF CapInd, PurgeFits, FenceFits, ExecMoves, FenceMoves
<1>8. RegisteredFits'
  BY <1>1, <1>2, <1>3, <1>4, OpsDiffer, ExecutionsArePositive
     DEF CapInd, RegisteredFits, OneLive, LivePc, ExecMoves
<1>9. NotYetRun'
  BY <1>1, <1>2, <1>3, <1>4, OpsDiffer
     DEF CapInd, NotYetRun, OneLive, LivePc, ExecMoves
<1>10. OneLive'
  BY <1>1, <1>2, <1>3, <1>4, OpsDiffer
     DEF CapInd, OneLive, LivePc, ExecMoves
<1>11. NoRowNoRun'
  BY <1>1, <1>2, <1>3, <1>4, OpsDiffer
     DEF CapInd, NoRowNoRun, LivePc, ExecMoves, RowMoves
<1>12. RuntimeFits'
  BY <1>1, <1>2, <1>3, <1>4, ExecutionsArePositive, RuntimeTyped
     DEF CapInd, RuntimeFits, ExecMoves
<1>13. WriteFits'
  BY <1>1, <1>2, <1>3, <1>4, OpsDiffer, ExecutionsArePositive
     DEF CapInd, WriteFits, WaitFits, LivePc, OneLive, NotYetRun, RegisteredFits, ExecMoves
<1>14. CancelledHandlerStopped'
  BY <1>1, <1>2, <1>3, <1>4, OpsDiffer
     DEF CapInd, CancelledHandlerStopped, OneLive, LivePc, ExecMoves, RowMoves
<1>15. PurgedStaysPurged'
  BY <1>1, <1>2, <1>3, <1>4, OpsDiffer
     DEF CapInd, PurgedStaysPurged, PurgeFits, FenceFits, RowMoves, FenceMoves
<1>16. AccountReceipt'
  BY <1>1, <1>2, <1>3, <1>4, OpsDiffer
     DEF CapInd, AccountReceipt, PurgeFits, RowMoves
<1>17. HandlerRunsOnce'
  BY <1>1, <1>2, <1>3, <1>4
     DEF CapInd, HandlerRunsOnce, NotYetRun
<1>18. WaitFits'
  BY <1>1, <1>2, <1>3, <1>4
     DEF CapInd, WaitFits, ExecMoves
<1> QED  BY <1>5, <1>6, <1>7, <1>8, <1>9, <1>10, <1>11, <1>12, <1>13, <1>14, <1>15, <1>16, <1>17, <1>18 DEF CapInd

LEMMA PurgeDatabaseFailsStep ==
    ASSUME CapInd, NEW t \in Executions, NEW outcome \in PurgeFailures, PurgeDatabaseFails(t, outcome)
    PROVE  CapInd'
<1>0. CapTyped
  BY DEF CapInd
<1>1. execs[t].pc = "draining" /\ execs[t].op = Account
  BY DEF PurgeDatabaseFails, AccountExec
<1>2. /\ ExecMoves(t, execs[t].op, "ending", execs[t].signalled) /\ RowMoves(execs[t].op)
      /\ opRow'[execs[t].op] = "completed" => opRow[execs[t].op] = "completed"
  BY <1>0, AnswerSteps DEF PurgeDatabaseFails, Outcomes, PurgeFailures
<1>3. FenceMoves(fence.readers, 0, fence.sealed)
  BY <1>0, FenceSteps DEF PurgeDatabaseFails
<1>4. /\ UNCHANGED receipt /\ UNCHANGED rows /\ UNCHANGED files
      /\ UNCHANGED runtime /\ UNCHANGED cancel /\ UNCHANGED reconcile /\ UNCHANGED ran
  BY DEF PurgeDatabaseFails
<1>5. CapTyped'
  BY <1>1, <1>2, <1>3, <1>4
     DEF CapInd, CapTyped, OpState, FenceRow, ExecMoves, RowMoves, FenceMoves
<1>6. FenceFits'
  BY <1>1, <1>2, <1>3, <1>4, ReadersDiffer, ExecutionsArePositive
     DEF CapInd, FenceFits, ExecMoves, FenceMoves
<1>7. PurgeFits'
  BY <1>1, <1>2, <1>3, <1>4, ExecutionsArePositive
     DEF CapInd, PurgeFits, FenceFits, ExecMoves, FenceMoves
<1>8. RegisteredFits'
  BY <1>1, <1>2, <1>3, <1>4, OpsDiffer, ExecutionsArePositive
     DEF CapInd, RegisteredFits, OneLive, LivePc, ExecMoves
<1>9. NotYetRun'
  BY <1>1, <1>2, <1>3, <1>4, OpsDiffer
     DEF CapInd, NotYetRun, OneLive, LivePc, ExecMoves
<1>10. OneLive'
  BY <1>1, <1>2, <1>3, <1>4, OpsDiffer
     DEF CapInd, OneLive, LivePc, ExecMoves
<1>11. NoRowNoRun'
  BY <1>1, <1>2, <1>3, <1>4, OpsDiffer
     DEF CapInd, NoRowNoRun, LivePc, ExecMoves, RowMoves
<1>12. RuntimeFits'
  BY <1>1, <1>2, <1>3, <1>4, ExecutionsArePositive, RuntimeTyped
     DEF CapInd, RuntimeFits, ExecMoves
<1>13. WriteFits'
  BY <1>1, <1>2, <1>3, <1>4, OpsDiffer, ExecutionsArePositive
     DEF CapInd, WriteFits, WaitFits, LivePc, OneLive, NotYetRun, RegisteredFits, ExecMoves
<1>14. CancelledHandlerStopped'
  BY <1>1, <1>2, <1>3, <1>4, OpsDiffer
     DEF CapInd, CancelledHandlerStopped, OneLive, LivePc, ExecMoves, RowMoves
<1>15. PurgedStaysPurged'
  BY <1>1, <1>2, <1>3, <1>4, OpsDiffer
     DEF CapInd, PurgedStaysPurged, PurgeFits, FenceFits, RowMoves, FenceMoves
<1>16. AccountReceipt'
  BY <1>1, <1>2, <1>3, <1>4, OpsDiffer
     DEF CapInd, AccountReceipt, PurgeFits, RowMoves
<1>17. HandlerRunsOnce'
  BY <1>1, <1>2, <1>3, <1>4
     DEF CapInd, HandlerRunsOnce, NotYetRun
<1>18. WaitFits'
  BY <1>1, <1>2, <1>3, <1>4
     DEF CapInd, WaitFits, ExecMoves
<1> QED  BY <1>5, <1>6, <1>7, <1>8, <1>9, <1>10, <1>11, <1>12, <1>13, <1>14, <1>15, <1>16, <1>17, <1>18 DEF CapInd

LEMMA ExternalPurgeStep ==
    ASSUME CapInd, NEW t \in Executions, ExternalPurge(t)
    PROVE  CapInd'
<1>0. CapTyped
  BY DEF CapInd
<1>1. execs[t].pc = "external" /\ execs[t].op = Account /\ files' = FALSE /\ receipt' = "completed"
  BY DEF ExternalPurge, AccountExec
<1>2. /\ ExecMoves(t, execs[t].op, "ending", execs[t].signalled) /\ RowMoves(execs[t].op)
  BY <1>0, AnswerSteps DEF ExternalPurge, Outcomes, PurgeFailures
<1>3. FenceMoves(fence.readers, 0, TRUE)
  BY <1>0, FenceSteps DEF ExternalPurge
<1>4. receipt = "database_purged"
  BY <1>1 DEF CapInd, PurgeFits
<1>5. /\ UNCHANGED rows
      /\ UNCHANGED runtime /\ UNCHANGED cancel /\ UNCHANGED reconcile /\ UNCHANGED ran
  BY DEF ExternalPurge
<1>6. CapTyped'
  BY <1>1, <1>2, <1>3, <1>4, <1>5
     DEF CapInd, CapTyped, OpState, FenceRow, ExecMoves, RowMoves, FenceMoves
<1>7. FenceFits'
  BY <1>1, <1>2, <1>3, <1>4, <1>5, ReadersDiffer, ExecutionsArePositive
     DEF CapInd, FenceFits, ExecMoves, FenceMoves
<1>8. PurgeFits'
  BY <1>1, <1>2, <1>3, <1>4, <1>5, ExecutionsArePositive
     DEF CapInd, PurgeFits, FenceFits, ExecMoves, FenceMoves
<1>9. RegisteredFits'
  BY <1>1, <1>2, <1>3, <1>4, <1>5, OpsDiffer, ExecutionsArePositive
     DEF CapInd, RegisteredFits, OneLive, LivePc, ExecMoves
<1>10. NotYetRun'
  BY <1>1, <1>2, <1>3, <1>4, <1>5, OpsDiffer
     DEF CapInd, NotYetRun, OneLive, LivePc, ExecMoves
<1>11. OneLive'
  BY <1>1, <1>2, <1>3, <1>4, <1>5, OpsDiffer
     DEF CapInd, OneLive, LivePc, ExecMoves
<1>12. NoRowNoRun'
  BY <1>1, <1>2, <1>3, <1>4, <1>5, OpsDiffer
     DEF CapInd, NoRowNoRun, LivePc, ExecMoves, RowMoves
<1>13. RuntimeFits'
  BY <1>1, <1>2, <1>3, <1>4, <1>5, ExecutionsArePositive, RuntimeTyped
     DEF CapInd, RuntimeFits, ExecMoves
<1>14. WriteFits'
  BY <1>1, <1>2, <1>3, <1>4, <1>5, OpsDiffer, ExecutionsArePositive
     DEF CapInd, WriteFits, WaitFits, LivePc, OneLive, NotYetRun, RegisteredFits, ExecMoves
<1>15. CancelledHandlerStopped'
  BY <1>1, <1>2, <1>3, <1>4, <1>5, OpsDiffer
     DEF CapInd, CancelledHandlerStopped, OneLive, LivePc, ExecMoves, RowMoves
<1>16. PurgedStaysPurged'
  BY <1>1, <1>2, <1>3, <1>4, <1>5, OpsDiffer
     DEF CapInd, PurgedStaysPurged, PurgeFits, FenceFits, RowMoves, FenceMoves
<1>17. AccountReceipt'
  BY <1>1, <1>2, <1>3, <1>4, <1>5, OpsDiffer
     DEF CapInd, AccountReceipt, PurgeFits, RowMoves
<1>18. HandlerRunsOnce'
  BY <1>1, <1>2, <1>3, <1>4, <1>5
     DEF CapInd, HandlerRunsOnce, NotYetRun
<1>19. WaitFits'
  BY <1>1, <1>2, <1>3, <1>4, <1>5
     DEF CapInd, WaitFits, ExecMoves
<1> QED  BY <1>6, <1>7, <1>8, <1>9, <1>10, <1>11, <1>12, <1>13, <1>14, <1>15, <1>16, <1>17, <1>18, <1>19 DEF CapInd

LEMMA ExternalPurgeFailsStep ==
    ASSUME CapInd, NEW t \in Executions, NEW outcome \in PurgeFailures, ExternalPurgeFails(t, outcome)
    PROVE  CapInd'
<1>0. CapTyped
  BY DEF CapInd
<1>1. execs[t].pc = "external" /\ execs[t].op = Account /\ files' \in {files, FALSE} /\ receipt' \in {"database_purged", "failed"}
  BY DEF ExternalPurgeFails, AccountExec
<1>2. /\ ExecMoves(t, execs[t].op, "ending", execs[t].signalled) /\ RowMoves(execs[t].op)
      /\ opRow'[execs[t].op] = "completed" => opRow[execs[t].op] = "completed"
  BY <1>0, AnswerSteps DEF ExternalPurgeFails, Outcomes, PurgeFailures
<1>3. FenceMoves(fence.readers, 0, TRUE)
  BY <1>0, FenceSteps DEF ExternalPurgeFails
<1>4. receipt = "database_purged"
  BY <1>1 DEF CapInd, PurgeFits
<1>5. /\ UNCHANGED rows
      /\ UNCHANGED runtime /\ UNCHANGED cancel /\ UNCHANGED reconcile /\ UNCHANGED ran
  BY DEF ExternalPurgeFails
<1>6. CapTyped'
  BY <1>1, <1>2, <1>3, <1>4, <1>5
     DEF CapInd, CapTyped, OpState, FenceRow, ExecMoves, RowMoves, FenceMoves
<1>7. FenceFits'
  BY <1>1, <1>2, <1>3, <1>4, <1>5, ReadersDiffer, ExecutionsArePositive
     DEF CapInd, FenceFits, ExecMoves, FenceMoves
<1>8. PurgeFits'
  BY <1>1, <1>2, <1>3, <1>4, <1>5, ExecutionsArePositive
     DEF CapInd, PurgeFits, FenceFits, ExecMoves, FenceMoves
<1>9. RegisteredFits'
  BY <1>1, <1>2, <1>3, <1>4, <1>5, OpsDiffer, ExecutionsArePositive
     DEF CapInd, RegisteredFits, OneLive, LivePc, ExecMoves
<1>10. NotYetRun'
  BY <1>1, <1>2, <1>3, <1>4, <1>5, OpsDiffer
     DEF CapInd, NotYetRun, OneLive, LivePc, ExecMoves
<1>11. OneLive'
  BY <1>1, <1>2, <1>3, <1>4, <1>5, OpsDiffer
     DEF CapInd, OneLive, LivePc, ExecMoves
<1>12. NoRowNoRun'
  BY <1>1, <1>2, <1>3, <1>4, <1>5, OpsDiffer
     DEF CapInd, NoRowNoRun, LivePc, ExecMoves, RowMoves
<1>13. RuntimeFits'
  BY <1>1, <1>2, <1>3, <1>4, <1>5, ExecutionsArePositive, RuntimeTyped
     DEF CapInd, RuntimeFits, ExecMoves
<1>14. WriteFits'
  BY <1>1, <1>2, <1>3, <1>4, <1>5, OpsDiffer, ExecutionsArePositive
     DEF CapInd, WriteFits, WaitFits, LivePc, OneLive, NotYetRun, RegisteredFits, ExecMoves
<1>15. CancelledHandlerStopped'
  BY <1>1, <1>2, <1>3, <1>4, <1>5, OpsDiffer
     DEF CapInd, CancelledHandlerStopped, OneLive, LivePc, ExecMoves, RowMoves
<1>16. PurgedStaysPurged'
  BY <1>1, <1>2, <1>3, <1>4, <1>5, OpsDiffer
     DEF CapInd, PurgedStaysPurged, PurgeFits, FenceFits, RowMoves, FenceMoves
<1>17. AccountReceipt'
  BY <1>1, <1>2, <1>3, <1>4, <1>5, OpsDiffer
     DEF CapInd, AccountReceipt, PurgeFits, RowMoves
<1>18. HandlerRunsOnce'
  BY <1>1, <1>2, <1>3, <1>4, <1>5
     DEF CapInd, HandlerRunsOnce, NotYetRun
<1>19. WaitFits'
  BY <1>1, <1>2, <1>3, <1>4, <1>5
     DEF CapInd, WaitFits, ExecMoves
<1> QED  BY <1>6, <1>7, <1>8, <1>9, <1>10, <1>11, <1>12, <1>13, <1>14, <1>15, <1>16, <1>17, <1>18, <1>19 DEF CapInd

LEMMA StartOperationStep ==
    ASSUME CapInd, NEW o \in OpIds, StartOperation(o)
    PROVE  CapInd'
<1>0. CapTyped
  BY DEF CapInd
<1>1. PICK t \in Executions :
         /\ execs[t].pc = "none"
         /\ execs' = [execs EXCEPT ![t] = [NoExec EXCEPT !.op = o, !.pc = "started"]]
  BY DEF StartOperation, Spawn
<1>2. ExecMoves(t, o, "started", FALSE)
  <2> DEFINE r == [NoExec EXCEPT !.op = o, !.pc = "started"]
  <2>1. r \in ExecRow /\ r.op = o /\ r.pc = "started" /\ r.signalled = FALSE
    BY DEF NoExec, ExecRow, CapPc
  <2>2. execs' = [execs EXCEPT ![t] = r]
    BY <1>1
  <2> HIDE DEF r
  <2> QED  BY <1>0, <2>1, <2>2, ExecSteps
<1>3. /\ opRow' \in [OpIds -> OpState] /\ opRow'[o] = "pending"
      /\ \A q \in OpIds \ {o} : opRow'[q] = opRow[q]
  BY <1>0 DEF StartOperation, CapTyped, OpState
<1>4. o \in Ordinary => opRow[o] = "none" /\ receipt = "none"
  BY OpsDiffer DEF StartOperation, Admissible
<1>5. o \in Ordinary => ran[o] = 0 /\ \A u \in Executions : execs[u].op = o => execs[u].pc \notin LivePc
  BY <1>4 DEF CapInd, NoRowNoRun
<1>6. /\ UNCHANGED receipt /\ UNCHANGED rows /\ UNCHANGED files /\ UNCHANGED fence
      /\ UNCHANGED runtime /\ UNCHANGED cancel /\ UNCHANGED reconcile /\ UNCHANGED ran
  BY DEF StartOperation
<1>7. CapTyped'
  BY <1>1, <1>2, <1>3, <1>4, <1>5, <1>6
     DEF CapInd, CapTyped, OpState, FenceRow, ExecMoves
<1>8. FenceFits'
  BY <1>1, <1>2, <1>3, <1>4, <1>5, <1>6, ReadersDiffer, ExecutionsArePositive
     DEF CapInd, FenceFits, ExecMoves
<1>9. PurgeFits'
  BY <1>1, <1>2, <1>3, <1>4, <1>5, <1>6, ExecutionsArePositive
     DEF CapInd, PurgeFits, FenceFits, ExecMoves
<1>10. RegisteredFits'
  BY <1>1, <1>2, <1>3, <1>4, <1>5, <1>6, OpsDiffer, ExecutionsArePositive
     DEF CapInd, RegisteredFits, OneLive, LivePc, ExecMoves
<1>11. NotYetRun'
  BY <1>1, <1>2, <1>3, <1>4, <1>5, <1>6, OpsDiffer
     DEF CapInd, NotYetRun, OneLive, LivePc, ExecMoves
<1>12. OneLive'
  BY <1>1, <1>2, <1>3, <1>4, <1>5, <1>6, OpsDiffer
     DEF CapInd, OneLive, LivePc, ExecMoves
<1>13. NoRowNoRun'
  BY <1>1, <1>2, <1>3, <1>4, <1>5, <1>6, OpsDiffer
     DEF CapInd, NoRowNoRun, LivePc, ExecMoves
<1>14. RuntimeFits'
  BY <1>1, <1>2, <1>3, <1>4, <1>5, <1>6, ExecutionsArePositive, RuntimeTyped
     DEF CapInd, RuntimeFits, ExecMoves
<1>15. WriteFits'
  BY <1>1, <1>2, <1>3, <1>4, <1>5, <1>6, OpsDiffer, ExecutionsArePositive
     DEF CapInd, WriteFits, WaitFits, LivePc, OneLive, NotYetRun, RegisteredFits, ExecMoves
<1>16. CancelledHandlerStopped'
  BY <1>1, <1>2, <1>3, <1>4, <1>5, <1>6, OpsDiffer
     DEF CapInd, CancelledHandlerStopped, OneLive, LivePc, ExecMoves
<1>17. PurgedStaysPurged'
  BY <1>1, <1>2, <1>3, <1>4, <1>5, <1>6, OpsDiffer
     DEF CapInd, PurgedStaysPurged, PurgeFits, FenceFits
<1>18. AccountReceipt'
  BY <1>1, <1>2, <1>3, <1>4, <1>5, <1>6, OpsDiffer
     DEF CapInd, AccountReceipt, PurgeFits
<1>19. HandlerRunsOnce'
  BY <1>1, <1>2, <1>3, <1>4, <1>5, <1>6
     DEF CapInd, HandlerRunsOnce, NotYetRun
<1>20. WaitFits'
  BY <1>1, <1>2, <1>3, <1>4, <1>5, <1>6
     DEF CapInd, WaitFits, ExecMoves
<1> QED  BY <1>7, <1>8, <1>9, <1>10, <1>11, <1>12, <1>13, <1>14, <1>15, <1>16, <1>17, <1>18, <1>19, <1>20 DEF CapInd

LEMMA CancelWithoutRuntimeStep ==
    ASSUME CapInd, NEW o \in OpIds, CancelStart(o), runtime[o] = 0
    PROVE  CapInd'
<1>0. CapTyped
  BY DEF CapInd
<1>1. cancel.pc = "idle" /\ runtime[o] = 0
  BY DEF CancelStart
<1>2. /\ FenceMoves(fence.readers \cup {Canceler}, fence.writer, fence.sealed)
      /\ ~fence.sealed /\ fence.writer = 0
  BY <1>0, FenceSteps DEF CancelStart, Readers
<1>3. cancel' \in CancelRow /\ cancel'.pc = "write" /\ cancel'.op = o
  BY <1>0, <1>1 DEF CancelStart, CancelRow, CapTyped
<1>4. UNCHANGED execs
  BY <1>1 DEF CancelStart
<1>5. /\ UNCHANGED opRow /\ UNCHANGED receipt /\ UNCHANGED rows /\ UNCHANGED files
      /\ UNCHANGED runtime /\ UNCHANGED reconcile /\ UNCHANGED ran
  BY DEF CancelStart
<1>6. CapTyped'
  BY <1>1, <1>2, <1>3, <1>4, <1>5
     DEF CapInd, CapTyped, OpState, FenceRow, FenceMoves
<1>7. FenceFits'
  BY <1>1, <1>2, <1>3, <1>4, <1>5, ReadersDiffer, ExecutionsArePositive
     DEF CapInd, FenceFits, FenceMoves
<1>8. PurgeFits'
  BY <1>1, <1>2, <1>3, <1>4, <1>5, ExecutionsArePositive
     DEF CapInd, PurgeFits, FenceFits, FenceMoves
<1>9. RegisteredFits'
  BY <1>1, <1>2, <1>3, <1>4, <1>5, OpsDiffer, ExecutionsArePositive
     DEF CapInd, RegisteredFits, OneLive, LivePc
<1>10. NotYetRun'
  BY <1>1, <1>2, <1>3, <1>4, <1>5, OpsDiffer
     DEF CapInd, NotYetRun, OneLive, LivePc
<1>11. OneLive'
  BY <1>1, <1>2, <1>3, <1>4, <1>5, OpsDiffer
     DEF CapInd, OneLive, LivePc
<1>12. NoRowNoRun'
  BY <1>1, <1>2, <1>3, <1>4, <1>5, OpsDiffer
     DEF CapInd, NoRowNoRun, LivePc
<1>13. RuntimeFits'
  BY <1>1, <1>2, <1>3, <1>4, <1>5, ExecutionsArePositive, RuntimeTyped
     DEF CapInd, RuntimeFits
<1>14. WriteFits'
  BY <1>1, <1>2, <1>3, <1>4, <1>5, OpsDiffer, ExecutionsArePositive
     DEF CapInd, WriteFits, WaitFits, LivePc, OneLive, NotYetRun, RegisteredFits
<1>15. CancelledHandlerStopped'
  BY <1>1, <1>2, <1>3, <1>4, <1>5, OpsDiffer
     DEF CapInd, CancelledHandlerStopped, OneLive, LivePc
<1>16. PurgedStaysPurged'
  BY <1>1, <1>2, <1>3, <1>4, <1>5, OpsDiffer
     DEF CapInd, PurgedStaysPurged, PurgeFits, FenceFits, FenceMoves
<1>17. AccountReceipt'
  BY <1>1, <1>2, <1>3, <1>4, <1>5, OpsDiffer
     DEF CapInd, AccountReceipt, PurgeFits
<1>18. HandlerRunsOnce'
  BY <1>1, <1>2, <1>3, <1>4, <1>5
     DEF CapInd, HandlerRunsOnce, NotYetRun
<1>19. WaitFits'
  BY <1>1, <1>2, <1>3, <1>4, <1>5
     DEF CapInd, WaitFits
<1> QED  BY <1>6, <1>7, <1>8, <1>9, <1>10, <1>11, <1>12, <1>13, <1>14, <1>15, <1>16, <1>17, <1>18, <1>19 DEF CapInd

LEMMA CancelWithRuntimeStep ==
    ASSUME CapInd, NEW o \in OpIds, CancelStart(o), runtime[o] # 0
    PROVE  CapInd'
<1>0. CapTyped
  BY DEF CapInd
<1>1. PICK t \in Executions : t = runtime[o]
  BY RuntimeTyped
<1>2. cancel.pc = "idle" /\ opRow[o] \in {"pending", "running"}
  BY DEF CancelStart
<1>3. execs[t].op = o /\ execs[t].pc \notin {"none", "started", "done"}
  BY <1>1 DEF CapInd, RuntimeFits
<1>4. /\ FenceMoves(fence.readers \cup {Canceler}, fence.writer, fence.sealed)
      /\ ~fence.sealed /\ fence.writer = 0
  BY <1>0, FenceSteps DEF CancelStart, Readers
<1>5. cancel' \in CancelRow /\ cancel'.pc = "wait" /\ cancel'.op = o /\ cancel'.exec = t
  BY <1>0, <1>1 DEF CancelStart, CancelRow, CapTyped
<1>6. ExecMoves(t, execs[t].op, execs[t].pc, TRUE)
  <2> DEFINE r == [execs[t] EXCEPT !.signalled = TRUE]
  <2>1. r \in ExecRow /\ r.op = execs[t].op /\ r.pc = execs[t].pc /\ r.signalled = TRUE
    BY <1>0, ExecSteps DEF ExecRow
  <2>2. execs' = [execs EXCEPT ![t] = r]
    BY <1>1 DEF CancelStart
  <2> HIDE DEF r
  <2> QED  BY <1>0, <2>1, <2>2, ExecSteps
<1>7. /\ UNCHANGED opRow /\ UNCHANGED receipt /\ UNCHANGED rows /\ UNCHANGED files
      /\ UNCHANGED runtime /\ UNCHANGED reconcile /\ UNCHANGED ran
  BY DEF CancelStart
<1>8. CapTyped'
  BY <1>1, <1>2, <1>3, <1>4, <1>5, <1>6, <1>7
     DEF CapInd, CapTyped, OpState, FenceRow, ExecMoves, FenceMoves
<1>9. FenceFits'
  BY <1>1, <1>2, <1>3, <1>4, <1>5, <1>6, <1>7, ReadersDiffer, ExecutionsArePositive
     DEF CapInd, FenceFits, ExecMoves, FenceMoves
<1>10. PurgeFits'
  BY <1>1, <1>2, <1>3, <1>4, <1>5, <1>6, <1>7, ExecutionsArePositive
     DEF CapInd, PurgeFits, FenceFits, ExecMoves, FenceMoves
<1>11. RegisteredFits'
  BY <1>1, <1>2, <1>3, <1>4, <1>5, <1>6, <1>7, OpsDiffer, ExecutionsArePositive
     DEF CapInd, RegisteredFits, OneLive, LivePc, ExecMoves
<1>12. NotYetRun'
  BY <1>1, <1>2, <1>3, <1>4, <1>5, <1>6, <1>7, OpsDiffer
     DEF CapInd, NotYetRun, OneLive, LivePc, ExecMoves
<1>13. OneLive'
  BY <1>1, <1>2, <1>3, <1>4, <1>5, <1>6, <1>7, OpsDiffer
     DEF CapInd, OneLive, LivePc, ExecMoves
<1>14. NoRowNoRun'
  BY <1>1, <1>2, <1>3, <1>4, <1>5, <1>6, <1>7, OpsDiffer
     DEF CapInd, NoRowNoRun, LivePc, ExecMoves
<1>15. RuntimeFits'
  BY <1>1, <1>2, <1>3, <1>4, <1>5, <1>6, <1>7, ExecutionsArePositive, RuntimeTyped
     DEF CapInd, RuntimeFits, ExecMoves
<1>16. WriteFits'
  BY <1>1, <1>2, <1>3, <1>4, <1>5, <1>6, <1>7, OpsDiffer, ExecutionsArePositive
     DEF CapInd, WriteFits, WaitFits, LivePc, OneLive, NotYetRun, RegisteredFits, ExecMoves
<1>17. CancelledHandlerStopped'
  BY <1>1, <1>2, <1>3, <1>4, <1>5, <1>6, <1>7, OpsDiffer
     DEF CapInd, CancelledHandlerStopped, OneLive, LivePc, ExecMoves
<1>18. PurgedStaysPurged'
  BY <1>1, <1>2, <1>3, <1>4, <1>5, <1>6, <1>7, OpsDiffer
     DEF CapInd, PurgedStaysPurged, PurgeFits, FenceFits, FenceMoves
<1>19. AccountReceipt'
  BY <1>1, <1>2, <1>3, <1>4, <1>5, <1>6, <1>7, OpsDiffer
     DEF CapInd, AccountReceipt, PurgeFits
<1>20. HandlerRunsOnce'
  BY <1>1, <1>2, <1>3, <1>4, <1>5, <1>6, <1>7
     DEF CapInd, HandlerRunsOnce, NotYetRun
<1>21. WaitFits'
  BY <1>1, <1>2, <1>3, <1>4, <1>5, <1>6, <1>7
     DEF CapInd, WaitFits, ExecMoves
<1> QED  BY <1>8, <1>9, <1>10, <1>11, <1>12, <1>13, <1>14, <1>15, <1>16, <1>17, <1>18, <1>19, <1>20, <1>21 DEF CapInd

LEMMA CancelGivesUpStep ==
    ASSUME CapInd, CancelGivesUp
    PROVE  CapInd'
<1>0. CapTyped
  BY DEF CapInd
<1>1. cancel.pc \in {"wait", "refused"}
  BY DEF CancelGivesUp
<1>2. /\ cancel' = NoCancel /\ cancel' \in CancelRow
      /\ cancel'.pc = "idle" /\ cancel'.op = Account
  BY OpsDiffer DEF CancelGivesUp, NoCancel, CancelRow
<1>3. FenceMoves(fence.readers \ {Canceler}, fence.writer, fence.sealed)
  BY <1>0, FenceSteps DEF CancelGivesUp, Readers
<1>4. /\ UNCHANGED opRow /\ UNCHANGED receipt /\ UNCHANGED rows /\ UNCHANGED files /\ UNCHANGED execs
      /\ UNCHANGED runtime /\ UNCHANGED reconcile /\ UNCHANGED ran
  BY DEF CancelGivesUp
<1>5. CapTyped'
  BY <1>1, <1>2, <1>3, <1>4
     DEF CapInd, CapTyped, OpState, FenceRow, FenceMoves
<1>6. FenceFits'
  BY <1>1, <1>2, <1>3, <1>4, ReadersDiffer, ExecutionsArePositive
     DEF CapInd, FenceFits, FenceMoves
<1>7. PurgeFits'
  BY <1>1, <1>2, <1>3, <1>4, ExecutionsArePositive
     DEF CapInd, PurgeFits, FenceFits, FenceMoves
<1>8. RegisteredFits'
  BY <1>1, <1>2, <1>3, <1>4, OpsDiffer, ExecutionsArePositive
     DEF CapInd, RegisteredFits, OneLive, LivePc
<1>9. NotYetRun'
  BY <1>1, <1>2, <1>3, <1>4, OpsDiffer
     DEF CapInd, NotYetRun, OneLive, LivePc
<1>10. OneLive'
  BY <1>1, <1>2, <1>3, <1>4, OpsDiffer
     DEF CapInd, OneLive, LivePc
<1>11. NoRowNoRun'
  BY <1>1, <1>2, <1>3, <1>4, OpsDiffer
     DEF CapInd, NoRowNoRun, LivePc
<1>12. RuntimeFits'
  BY <1>1, <1>2, <1>3, <1>4, ExecutionsArePositive, RuntimeTyped
     DEF CapInd, RuntimeFits
<1>13. WriteFits'
  BY <1>1, <1>2, <1>3, <1>4, OpsDiffer, ExecutionsArePositive
     DEF CapInd, WriteFits, WaitFits, LivePc, OneLive, NotYetRun, RegisteredFits
<1>14. CancelledHandlerStopped'
  BY <1>1, <1>2, <1>3, <1>4, OpsDiffer
     DEF CapInd, CancelledHandlerStopped, OneLive, LivePc
<1>15. PurgedStaysPurged'
  BY <1>1, <1>2, <1>3, <1>4, OpsDiffer
     DEF CapInd, PurgedStaysPurged, PurgeFits, FenceFits, FenceMoves
<1>16. AccountReceipt'
  BY <1>1, <1>2, <1>3, <1>4, OpsDiffer
     DEF CapInd, AccountReceipt, PurgeFits
<1>17. HandlerRunsOnce'
  BY <1>1, <1>2, <1>3, <1>4
     DEF CapInd, HandlerRunsOnce, NotYetRun
<1>18. WaitFits'
  BY <1>1, <1>2, <1>3, <1>4
     DEF CapInd, WaitFits
<1> QED  BY <1>5, <1>6, <1>7, <1>8, <1>9, <1>10, <1>11, <1>12, <1>13, <1>14, <1>15, <1>16, <1>17, <1>18 DEF CapInd

LEMMA CancelWritesStep ==
    ASSUME CapInd, CancelWrites
    PROVE  CapInd'
<1>0. CapTyped
  BY DEF CapInd
<1>1. PICK o \in OpIds : o = cancel.op
  BY <1>0 DEF CapTyped, CancelRow
<1>2. cancel.pc = "write" /\ CloseRow(o, "cancelled")
  BY <1>1 DEF CancelWrites
<1>3. RowMoves(o) /\ opRow'[o] \in {opRow[o], "cancelled"}
  BY <1>0, <1>2, RowSteps DEF OpState
<1>4. /\ cancel' = NoCancel /\ cancel' \in CancelRow
      /\ cancel'.pc = "idle" /\ cancel'.op = Account
  BY OpsDiffer DEF CancelWrites, NoCancel, CancelRow
<1>5. FenceMoves(fence.readers \ {Canceler}, fence.writer, fence.sealed)
  BY <1>0, FenceSteps DEF CancelWrites, Readers
<1>6. /\ UNCHANGED receipt /\ UNCHANGED rows /\ UNCHANGED files /\ UNCHANGED execs
      /\ UNCHANGED runtime /\ UNCHANGED reconcile /\ UNCHANGED ran
  BY DEF CancelWrites
<1>7. CapTyped'
  BY <1>1, <1>2, <1>3, <1>4, <1>5, <1>6
     DEF CapInd, CapTyped, OpState, FenceRow, RowMoves, FenceMoves
<1>8. FenceFits'
  BY <1>1, <1>2, <1>3, <1>4, <1>5, <1>6, ReadersDiffer, ExecutionsArePositive
     DEF CapInd, FenceFits, FenceMoves
<1>9. PurgeFits'
  BY <1>1, <1>2, <1>3, <1>4, <1>5, <1>6, ExecutionsArePositive
     DEF CapInd, PurgeFits, FenceFits, FenceMoves
<1>10. RegisteredFits'
  BY <1>1, <1>2, <1>3, <1>4, <1>5, <1>6, OpsDiffer, ExecutionsArePositive
     DEF CapInd, RegisteredFits, OneLive, LivePc
<1>11. NotYetRun'
  BY <1>1, <1>2, <1>3, <1>4, <1>5, <1>6, OpsDiffer
     DEF CapInd, NotYetRun, OneLive, LivePc
<1>12. OneLive'
  BY <1>1, <1>2, <1>3, <1>4, <1>5, <1>6, OpsDiffer
     DEF CapInd, OneLive, LivePc
<1>13. NoRowNoRun'
  BY <1>1, <1>2, <1>3, <1>4, <1>5, <1>6, OpsDiffer
     DEF CapInd, NoRowNoRun, LivePc, RowMoves
<1>14. RuntimeFits'
  BY <1>1, <1>2, <1>3, <1>4, <1>5, <1>6, ExecutionsArePositive, RuntimeTyped
     DEF CapInd, RuntimeFits
<1>15. WriteFits'
  BY <1>1, <1>2, <1>3, <1>4, <1>5, <1>6, OpsDiffer, ExecutionsArePositive
     DEF CapInd, WriteFits, WaitFits, LivePc, OneLive, NotYetRun, RegisteredFits
<1>16. CancelledHandlerStopped'
  BY <1>1, <1>2, <1>3, <1>6, OpsDiffer
     DEF CapInd, CapTyped, ExecRow, CancelledHandlerStopped, WriteFits, LivePc, RowMoves
<1>17. PurgedStaysPurged'
  BY <1>1, <1>2, <1>3, <1>4, <1>5, <1>6, OpsDiffer
     DEF CapInd, PurgedStaysPurged, PurgeFits, FenceFits, RowMoves, FenceMoves
<1>18. AccountReceipt'
  BY <1>1, <1>2, <1>3, <1>4, <1>5, <1>6, OpsDiffer
     DEF CapInd, AccountReceipt, PurgeFits, RowMoves
<1>19. HandlerRunsOnce'
  BY <1>1, <1>2, <1>3, <1>4, <1>5, <1>6
     DEF CapInd, HandlerRunsOnce, NotYetRun
<1>20. WaitFits'
  BY <1>1, <1>2, <1>3, <1>4, <1>5, <1>6
     DEF CapInd, WaitFits
<1> QED  BY <1>7, <1>8, <1>9, <1>10, <1>11, <1>12, <1>13, <1>14, <1>15, <1>16, <1>17, <1>18, <1>19, <1>20 DEF CapInd

LEMMA ReconcileReadsStep ==
    ASSUME CapInd, NEW o \in OpIds, ReconcileReads(o)
    PROVE  CapInd'
<1>0. CapTyped
  BY DEF CapInd
<1>1. reconcile = {} /\ reconcile' = {o}
  BY DEF ReconcileReads
<1>2. /\ FenceMoves(fence.readers \cup {Reconciler}, fence.writer, fence.sealed)
      /\ ~fence.sealed /\ fence.writer = 0
  BY <1>0, FenceSteps DEF ReconcileReads, Readers
<1>3. /\ UNCHANGED opRow /\ UNCHANGED receipt /\ UNCHANGED rows /\ UNCHANGED files /\ UNCHANGED execs
      /\ UNCHANGED runtime /\ UNCHANGED cancel /\ UNCHANGED ran
  BY DEF ReconcileReads
<1>4. CapTyped'
  BY <1>1, <1>2, <1>3
     DEF CapInd, CapTyped, OpState, FenceRow, FenceMoves
<1>5. FenceFits'
  BY <1>1, <1>2, <1>3, ReadersDiffer, ExecutionsArePositive
     DEF CapInd, FenceFits, FenceMoves
<1>6. PurgeFits'
  BY <1>1, <1>2, <1>3, ExecutionsArePositive
     DEF CapInd, PurgeFits, FenceFits, FenceMoves
<1>7. RegisteredFits'
  BY <1>1, <1>2, <1>3, OpsDiffer, ExecutionsArePositive
     DEF CapInd, RegisteredFits, OneLive, LivePc
<1>8. NotYetRun'
  BY <1>1, <1>2, <1>3, OpsDiffer
     DEF CapInd, NotYetRun, OneLive, LivePc
<1>9. OneLive'
  BY <1>1, <1>2, <1>3, OpsDiffer
     DEF CapInd, OneLive, LivePc
<1>10. NoRowNoRun'
  BY <1>1, <1>2, <1>3, OpsDiffer
     DEF CapInd, NoRowNoRun, LivePc
<1>11. RuntimeFits'
  BY <1>1, <1>2, <1>3, ExecutionsArePositive, RuntimeTyped
     DEF CapInd, RuntimeFits
<1>12. WriteFits'
  BY <1>1, <1>2, <1>3, OpsDiffer, ExecutionsArePositive
     DEF CapInd, WriteFits, WaitFits, LivePc, OneLive, NotYetRun, RegisteredFits
<1>13. CancelledHandlerStopped'
  BY <1>1, <1>2, <1>3, OpsDiffer
     DEF CapInd, CancelledHandlerStopped, OneLive, LivePc
<1>14. PurgedStaysPurged'
  BY <1>1, <1>2, <1>3, OpsDiffer
     DEF CapInd, PurgedStaysPurged, PurgeFits, FenceFits, FenceMoves
<1>15. AccountReceipt'
  BY <1>1, <1>2, <1>3, OpsDiffer
     DEF CapInd, AccountReceipt, PurgeFits
<1>16. HandlerRunsOnce'
  BY <1>1, <1>2, <1>3
     DEF CapInd, HandlerRunsOnce, NotYetRun
<1>17. WaitFits'
  BY <1>1, <1>2, <1>3
     DEF CapInd, WaitFits
<1> QED  BY <1>4, <1>5, <1>6, <1>7, <1>8, <1>9, <1>10, <1>11, <1>12, <1>13, <1>14, <1>15, <1>16, <1>17 DEF CapInd

LEMMA ReconcileFailsStep ==
    ASSUME CapInd, NEW o \in OpIds, ReconcileFails(o)
    PROVE  CapInd'
<1>0. CapTyped
  BY DEF CapInd
<1>1. o \in reconcile /\ reconcile' = {}
  BY DEF ReconcileFails
<1>2. RowMoves(o) /\ opRow'[o] \in {opRow[o], "failed"}
  BY <1>0, RowSteps DEF ReconcileFails, OpState
<1>3. FenceMoves(fence.readers \ {Reconciler}, fence.writer, fence.sealed)
  BY <1>0, FenceSteps DEF ReconcileFails, Readers
<1>4. /\ UNCHANGED receipt /\ UNCHANGED rows /\ UNCHANGED files /\ UNCHANGED execs
      /\ UNCHANGED runtime /\ UNCHANGED cancel /\ UNCHANGED ran
  BY DEF ReconcileFails
<1>5. CapTyped'
  BY <1>1, <1>2, <1>3, <1>4
     DEF CapInd, CapTyped, OpState, FenceRow, RowMoves, FenceMoves
<1>6. FenceFits'
  BY <1>1, <1>2, <1>3, <1>4, ReadersDiffer, ExecutionsArePositive
     DEF CapInd, FenceFits, FenceMoves
<1>7. PurgeFits'
  BY <1>1, <1>2, <1>3, <1>4, ExecutionsArePositive
     DEF CapInd, PurgeFits, FenceFits, FenceMoves
<1>8. RegisteredFits'
  BY <1>1, <1>2, <1>3, <1>4, OpsDiffer, ExecutionsArePositive
     DEF CapInd, RegisteredFits, OneLive, LivePc
<1>9. NotYetRun'
  BY <1>1, <1>2, <1>3, <1>4, OpsDiffer
     DEF CapInd, NotYetRun, OneLive, LivePc
<1>10. OneLive'
  BY <1>1, <1>2, <1>3, <1>4, OpsDiffer
     DEF CapInd, OneLive, LivePc
<1>11. NoRowNoRun'
  BY <1>1, <1>2, <1>3, <1>4, OpsDiffer
     DEF CapInd, NoRowNoRun, LivePc, RowMoves
<1>12. RuntimeFits'
  BY <1>1, <1>2, <1>3, <1>4, ExecutionsArePositive, RuntimeTyped
     DEF CapInd, RuntimeFits
<1>13. WriteFits'
  BY <1>1, <1>2, <1>3, <1>4, OpsDiffer, ExecutionsArePositive
     DEF CapInd, WriteFits, WaitFits, LivePc, OneLive, NotYetRun, RegisteredFits
<1>14. CancelledHandlerStopped'
  BY <1>1, <1>2, <1>3, <1>4, OpsDiffer
     DEF CapInd, CancelledHandlerStopped, OneLive, LivePc, RowMoves
<1>15. PurgedStaysPurged'
  BY <1>1, <1>2, <1>3, <1>4, OpsDiffer
     DEF CapInd, PurgedStaysPurged, PurgeFits, FenceFits, RowMoves, FenceMoves
<1>16. AccountReceipt'
  BY <1>1, <1>2, <1>3, <1>4, OpsDiffer
     DEF CapInd, AccountReceipt, PurgeFits, RowMoves
<1>17. HandlerRunsOnce'
  BY <1>1, <1>2, <1>3, <1>4
     DEF CapInd, HandlerRunsOnce, NotYetRun
<1>18. WaitFits'
  BY <1>1, <1>2, <1>3, <1>4
     DEF CapInd, WaitFits
<1> QED  BY <1>5, <1>6, <1>7, <1>8, <1>9, <1>10, <1>11, <1>12, <1>13, <1>14, <1>15, <1>16, <1>17, <1>18 DEF CapInd

LEMMA LoopsEnterStep ==
    ASSUME CapInd, LoopsEnter
    PROVE  CapInd'
<1>0. CapTyped
  BY DEF CapInd
<1>1. /\ FenceMoves(fence.readers \cup {Loops}, fence.writer, fence.sealed)
      /\ ~fence.sealed /\ fence.writer = 0
  BY <1>0, FenceSteps DEF LoopsEnter, Readers
<1>2. /\ UNCHANGED opRow /\ UNCHANGED receipt /\ UNCHANGED rows /\ UNCHANGED files /\ UNCHANGED execs
      /\ UNCHANGED runtime /\ UNCHANGED cancel /\ UNCHANGED reconcile /\ UNCHANGED ran
  BY DEF LoopsEnter
<1>3. CapTyped'
  BY <1>1, <1>2
     DEF CapInd, CapTyped, OpState, FenceRow, FenceMoves
<1>4. FenceFits'
  BY <1>1, <1>2, ReadersDiffer, ExecutionsArePositive
     DEF CapInd, FenceFits, FenceMoves
<1>5. PurgeFits'
  BY <1>1, <1>2, ExecutionsArePositive
     DEF CapInd, PurgeFits, FenceFits, FenceMoves
<1>6. RegisteredFits'
  BY <1>1, <1>2, OpsDiffer, ExecutionsArePositive
     DEF CapInd, RegisteredFits, OneLive, LivePc
<1>7. NotYetRun'
  BY <1>1, <1>2, OpsDiffer
     DEF CapInd, NotYetRun, OneLive, LivePc
<1>8. OneLive'
  BY <1>1, <1>2, OpsDiffer
     DEF CapInd, OneLive, LivePc
<1>9. NoRowNoRun'
  BY <1>1, <1>2, OpsDiffer
     DEF CapInd, NoRowNoRun, LivePc
<1>10. RuntimeFits'
  BY <1>1, <1>2, ExecutionsArePositive, RuntimeTyped
     DEF CapInd, RuntimeFits
<1>11. WriteFits'
  BY <1>1, <1>2, OpsDiffer, ExecutionsArePositive
     DEF CapInd, WriteFits, WaitFits, LivePc, OneLive, NotYetRun, RegisteredFits
<1>12. CancelledHandlerStopped'
  BY <1>1, <1>2, OpsDiffer
     DEF CapInd, CancelledHandlerStopped, OneLive, LivePc
<1>13. PurgedStaysPurged'
  BY <1>1, <1>2, OpsDiffer
     DEF CapInd, PurgedStaysPurged, PurgeFits, FenceFits, FenceMoves
<1>14. AccountReceipt'
  BY <1>1, <1>2, OpsDiffer
     DEF CapInd, AccountReceipt, PurgeFits
<1>15. HandlerRunsOnce'
  BY <1>1, <1>2
     DEF CapInd, HandlerRunsOnce, NotYetRun
<1>16. WaitFits'
  BY <1>1, <1>2
     DEF CapInd, WaitFits
<1> QED  BY <1>3, <1>4, <1>5, <1>6, <1>7, <1>8, <1>9, <1>10, <1>11, <1>12, <1>13, <1>14, <1>15, <1>16 DEF CapInd

LEMMA LoopsWriteStep ==
    ASSUME CapInd, LoopsWrite
    PROVE  CapInd'
<1>0. CapTyped
  BY DEF CapInd
<1>1. Loops \in fence.readers /\ rows' = TRUE /\ files' = TRUE
  BY DEF LoopsWrite
<1>2. FenceMoves(fence.readers \ {Loops}, fence.writer, fence.sealed)
  BY <1>0, FenceSteps DEF LoopsWrite, Readers
<1>3. receipt = "none"
  BY <1>1 DEF CapInd, PurgeFits
<1>4. /\ UNCHANGED opRow /\ UNCHANGED receipt /\ UNCHANGED execs
      /\ UNCHANGED runtime /\ UNCHANGED cancel /\ UNCHANGED reconcile /\ UNCHANGED ran
  BY DEF LoopsWrite
<1>5. CapTyped'
  BY <1>1, <1>2, <1>3, <1>4
     DEF CapInd, CapTyped, OpState, FenceRow, FenceMoves
<1>6. FenceFits'
  BY <1>1, <1>2, <1>3, <1>4, ReadersDiffer, ExecutionsArePositive
     DEF CapInd, FenceFits, FenceMoves
<1>7. PurgeFits'
  BY <1>1, <1>2, <1>3, <1>4, ExecutionsArePositive
     DEF CapInd, PurgeFits, FenceFits, FenceMoves
<1>8. RegisteredFits'
  BY <1>1, <1>2, <1>3, <1>4, OpsDiffer, ExecutionsArePositive
     DEF CapInd, RegisteredFits, OneLive, LivePc
<1>9. NotYetRun'
  BY <1>1, <1>2, <1>3, <1>4, OpsDiffer
     DEF CapInd, NotYetRun, OneLive, LivePc
<1>10. OneLive'
  BY <1>1, <1>2, <1>3, <1>4, OpsDiffer
     DEF CapInd, OneLive, LivePc
<1>11. NoRowNoRun'
  BY <1>1, <1>2, <1>3, <1>4, OpsDiffer
     DEF CapInd, NoRowNoRun, LivePc
<1>12. RuntimeFits'
  BY <1>1, <1>2, <1>3, <1>4, ExecutionsArePositive, RuntimeTyped
     DEF CapInd, RuntimeFits
<1>13. WriteFits'
  BY <1>1, <1>2, <1>3, <1>4, OpsDiffer, ExecutionsArePositive
     DEF CapInd, WriteFits, WaitFits, LivePc, OneLive, NotYetRun, RegisteredFits
<1>14. CancelledHandlerStopped'
  BY <1>1, <1>2, <1>3, <1>4, OpsDiffer
     DEF CapInd, CancelledHandlerStopped, OneLive, LivePc
<1>15. PurgedStaysPurged'
  BY <1>1, <1>2, <1>3, <1>4, OpsDiffer
     DEF CapInd, PurgedStaysPurged, PurgeFits, FenceFits, FenceMoves
<1>16. AccountReceipt'
  BY <1>1, <1>2, <1>3, <1>4, OpsDiffer
     DEF CapInd, AccountReceipt, PurgeFits
<1>17. HandlerRunsOnce'
  BY <1>1, <1>2, <1>3, <1>4
     DEF CapInd, HandlerRunsOnce, NotYetRun
<1>18. WaitFits'
  BY <1>1, <1>2, <1>3, <1>4
     DEF CapInd, WaitFits
<1> QED  BY <1>5, <1>6, <1>7, <1>8, <1>9, <1>10, <1>11, <1>12, <1>13, <1>14, <1>15, <1>16, <1>17, <1>18 DEF CapInd

LEMMA RestartStep ==
    ASSUME CapInd, Restart
    PROVE  CapInd'
<1>0. CapTyped
  BY DEF CapInd
<1>1. /\ execs' \in [Executions -> ExecRow]
      /\ \A t \in Executions : execs'[t].op = Account /\ execs'[t].pc \in {"none", "done"}
  BY OverExecs DEF Restart
<1>2. FenceMoves({}, 0, receipt # "none")
  BY <1>0 DEF Restart, OpenFence, FenceMoves, FenceRow
<1>3. \A o \in OpIds : runtime'[o] = 0
  BY DEF Restart
<1>4. runtime' \in [OpIds -> Executions \cup {0}]
  BY DEF Restart
<1>5. /\ cancel' = NoCancel /\ cancel' \in CancelRow
      /\ cancel'.pc = "idle" /\ cancel'.op = Account
  BY OpsDiffer DEF Restart, NoCancel, CancelRow
<1>6. /\ opRow' \in [OpIds -> OpState]
      /\ \A o \in OpIds : (opRow'[o] = "none" <=> opRow[o] = "none") /\ opRow'[o] \in {opRow[o], "uncertain"}
  BY <1>0 DEF Restart, CapTyped, OpState
<1>7. reconcile' = {}
  BY DEF Restart
<1>8. /\ UNCHANGED receipt /\ UNCHANGED rows /\ UNCHANGED files /\ UNCHANGED ran
  BY DEF Restart
<1>9. CapTyped'
  BY <1>1, <1>2, <1>3, <1>4, <1>5, <1>6, <1>7, <1>8
     DEF CapInd, CapTyped, OpState, FenceRow, FenceMoves
<1>10. FenceFits'
  BY <1>1, <1>2, <1>3, <1>4, <1>5, <1>6, <1>7, <1>8, ReadersDiffer, ExecutionsArePositive
     DEF CapInd, FenceFits, FenceMoves
<1>11. PurgeFits'
  BY <1>1, <1>2, <1>3, <1>4, <1>5, <1>6, <1>7, <1>8, ExecutionsArePositive
     DEF CapInd, PurgeFits, FenceFits, FenceMoves
<1>12. RegisteredFits'
  BY <1>1, <1>2, <1>3, <1>4, <1>5, <1>6, <1>7, <1>8, OpsDiffer, ExecutionsArePositive
     DEF CapInd, RegisteredFits, OneLive, LivePc
<1>13. NotYetRun'
  BY <1>1, <1>2, <1>3, <1>4, <1>5, <1>6, <1>7, <1>8, OpsDiffer
     DEF CapInd, NotYetRun, OneLive, LivePc
<1>14. OneLive'
  BY <1>1, <1>2, <1>3, <1>4, <1>5, <1>6, <1>7, <1>8, OpsDiffer
     DEF CapInd, OneLive, LivePc
<1>15. NoRowNoRun'
  BY <1>1, <1>2, <1>3, <1>4, <1>5, <1>6, <1>7, <1>8, OpsDiffer
     DEF CapInd, NoRowNoRun, LivePc
<1>16. RuntimeFits'
  BY <1>1, <1>2, <1>3, <1>4, <1>5, <1>6, <1>7, <1>8, ExecutionsArePositive, RuntimeTyped
     DEF CapInd, RuntimeFits
<1>17. WriteFits'
  BY <1>1, <1>2, <1>3, <1>4, <1>5, <1>6, <1>7, <1>8, OpsDiffer, ExecutionsArePositive
     DEF CapInd, WriteFits, WaitFits, LivePc, OneLive, NotYetRun, RegisteredFits
<1>18. CancelledHandlerStopped'
  BY <1>1, <1>2, <1>3, <1>4, <1>5, <1>6, <1>7, <1>8, OpsDiffer
     DEF CapInd, CancelledHandlerStopped, OneLive, LivePc
<1>19. PurgedStaysPurged'
  BY <1>1, <1>2, <1>3, <1>4, <1>5, <1>6, <1>7, <1>8, OpsDiffer
     DEF CapInd, PurgedStaysPurged, PurgeFits, FenceFits, FenceMoves
<1>20. AccountReceipt'
  BY <1>1, <1>2, <1>3, <1>4, <1>5, <1>6, <1>7, <1>8, OpsDiffer
     DEF CapInd, AccountReceipt, PurgeFits
<1>21. HandlerRunsOnce'
  BY <1>1, <1>2, <1>3, <1>4, <1>5, <1>6, <1>7, <1>8
     DEF CapInd, HandlerRunsOnce, NotYetRun
<1>22. WaitFits'
  BY <1>1, <1>2, <1>3, <1>4, <1>5, <1>6, <1>7, <1>8
     DEF CapInd, WaitFits
<1> QED  BY <1>9, <1>10, <1>11, <1>12, <1>13, <1>14, <1>15, <1>16, <1>17, <1>18, <1>19, <1>20, <1>21, <1>22 DEF CapInd

LEMMA CapStep == CapInd /\ [CapNext]_capVars => CapInd'
<1> SUFFICES ASSUME CapInd, [CapNext]_capVars PROVE CapInd'
  OBVIOUS
<1>1. CASE UNCHANGED capVars
  BY <1>1 DEF capVars, CapInd, CapTyped, FenceFits, PurgeFits, RegisteredFits, NotYetRun, OneLive,
     NoRowNoRun, RuntimeFits, WaitFits, WriteFits, CancelledHandlerStopped, PurgedStaysPurged,
     AccountReceipt, HandlerRunsOnce
<1>2. CASE ExecuteNext
  <2>1. ASSUME NEW t \in Executions, Register(t) PROVE CapInd'
    BY <2>1, RegisterAccountStep, RegisterOrdinaryStep
  <2>2. ASSUME NEW t \in Executions, Claim(t) PROVE CapInd'
    BY <2>2, ClaimEndsStep, ClaimRunsStep
  <2> QED  BY <1>2, <2>1, <2>2, ExecuteRefusedStep, OrdinaryWritesStep, OrdinaryReturnsStep,
              EndExecutionStep DEF ExecuteNext
<1>3. CASE PurgeNext
  BY <1>3, PurgeRefusedStep, BeginPurgeStep, DrainEndsStep, PurgeDatabaseStep, PurgeReplayedStep,
     PurgeDatabaseFailsStep, ExternalPurgeStep, ExternalPurgeFailsStep DEF PurgeNext
<1>4. CASE CallNext
  <2>1. ASSUME NEW o \in OpIds, CancelStart(o) PROVE CapInd'
    BY <2>1, CancelWithoutRuntimeStep, CancelWithRuntimeStep
  <2> QED  BY <1>4, <2>1, StartOperationStep, ReconcileReadsStep, ReconcileFailsStep,
              CancelGivesUpStep, CancelWritesStep DEF CallNext
<1>5. CASE LoopsEnter \/ LoopsWrite \/ Restart
  BY <1>5, LoopsEnterStep, LoopsWriteStep, RestartStep
<1> QED  BY <1>1, <1>2, <1>3, <1>4, <1>5 DEF CapNext

LEMMA CapStarts == CapInit => CapInd
<1> SUFFICES ASSUME CapInit PROVE CapInd
  OBVIOUS
<1>1. CapTyped
  <2>1. execs \in [Executions -> ExecRow]
    BY OverExecs DEF CapInit
  <2>2. fence \in [readers : SUBSET Readers, writer : Executions \cup {0}, sealed : BOOLEAN]
    BY DEF CapInit, OpenFence
  <2>3. cancel \in CancelRow
    BY OpsDiffer DEF CapInit, NoCancel, CancelRow
  <2> QED  BY <2>1, <2>2, <2>3 DEF CapInit, CapTyped
<1>2. \A t \in Executions : execs[t].op = Account /\ execs[t].pc = "none"
  BY OverExecs DEF CapInit
<1>3. fence.readers = {} /\ fence.writer = 0 /\ fence.sealed = FALSE
  BY DEF CapInit, OpenFence
<1>4. cancel = NoCancel /\ cancel.pc = "idle"
  BY DEF CapInit, NoCancel
<1>5. /\ \A o \in OpIds : opRow[o] = "none" /\ runtime[o] = 0
      /\ \A o \in Ordinary : ran[o] = 0
      /\ receipt = "none" /\ reconcile = {}
  BY DEF CapInit
<1>6. FenceFits /\ PurgeFits
  BY <1>2, <1>3, <1>4, <1>5, ExecutionsArePositive DEF FenceFits, PurgeFits
<1>7. RegisteredFits /\ NotYetRun /\ OneLive /\ NoRowNoRun /\ RuntimeFits /\ WaitFits /\ WriteFits
  BY <1>2, <1>4, <1>5, OpsDiffer
     DEF RegisteredFits, NotYetRun, OneLive, NoRowNoRun, RuntimeFits, WaitFits, WriteFits, LivePc
<1>8. CancelledHandlerStopped /\ PurgedStaysPurged /\ AccountReceipt /\ HandlerRunsOnce
  BY <1>2, <1>5, OpsDiffer
     DEF CancelledHandlerStopped, PurgedStaysPurged, AccountReceipt, HandlerRunsOnce
<1> QED  BY <1>1, <1>6, <1>7, <1>8 DEF CapInd

(* The fence, the receipt and the operation rows agree on how far the      *)
(* purge of the account got and what is purged is not written again; the   *)
(* handler of an ordinary operation runs at most once and not on under a   *)
(* cancelled row: for any operations and any number of executions,         *)
(* restarts, cancels and reconciliations.                                  *)
THEOREM PurgedAccountStaysPurged == CapSpec => []CapInv
<1>1. CapInd => CapInv
  <2> SUFFICES ASSUME CapInd PROVE CapInv
    OBVIOUS
  <2>1. CapTypeOK
    <3>1. /\ opRow \in [OpIds -> {"none", "pending", "running", "completed", "failed",
                                  "cancelled", "uncertain"}]
          /\ receipt \in {"none", "database_purged", "failed", "completed"}
          /\ fence.writer \in Executions \cup {0}
      BY DEF CapInd, CapTyped
    <3>2. \A o \in OpIds : runtime[o] # 0 =>
             /\ execs[runtime[o]].op = o
             /\ execs[runtime[o]].pc \notin {"none", "started", "done"}
      BY DEF CapInd, RuntimeFits
    <3>3. \A t \in Executions :
             ByExec(t) \in fence.readers <=>
                 execs[t].op # Account /\ execs[t].pc \in {"registered", "handler", "ending"}
      BY DEF CapInd, FenceFits
    <3>4. /\ Canceler \in fence.readers <=> cancel # NoCancel
          /\ Reconciler \in fence.readers <=> reconcile # {}
      BY DEF CapInd, FenceFits, NoCancel
    <3>5. fence.writer # 0 <=> \E t \in Executions : execs[t].pc \in {"draining", "external"}
      BY <3>1, ExecutionsArePositive DEF CapInd, FenceFits
    <3>6. fence.sealed => receipt # "none"
      BY DEF CapInd, PurgeFits
    <3> QED  BY <3>1, <3>2, <3>3, <3>4, <3>5, <3>6 DEF CapTypeOK
  <2> QED  BY <2>1 DEF CapInd, CapInv
<1> QED  BY <1>1, CapStarts, CapStep, PTL DEF CapSpec

(***************************************************************************)
(* The cron calculators.                                                   *)
(***************************************************************************)

(* A set of numbers has a least one.                                       *)
LEMMA LeastOf ==
    ASSUME NEW T, T \subseteq Nat, T # {}
    PROVE  \E x \in T : \A y \in T : x <= y
<1>1. \E x \in T : \A y \in T : ~(<<y, x>> \in OpToRel(<, Nat))
  BY NatLessThanWellFounded, WFMin
<1>2. \A x, y \in T : ~(<<y, x>> \in OpToRel(<, Nat)) => x <= y
  BY DEF OpToRel
<1> QED  BY <1>1, <1>2

(* The bounds and the step of an item are numbers.                         *)
LEMMA ItemTyped ==
    ASSUME NEW min \in Int, NEW max \in Int, NEW i \in CronField(min, max, Nat)
    PROVE  ItemLow(i, min) \in Int /\ ItemHigh(i, max) \in Int /\ ItemStep(i) \in Nat \ {0}
<1>1. i.base \in {<<>>} \cup {<<lo, hi>> : lo \in min..max, hi \in min..max} /\ i.step \in Nat
  BY DEF CronField
<1>2. CASE i.base = <<>>
  BY <1>1, <1>2 DEF ItemLow, ItemHigh, ItemStep
<1>3. ASSUME NEW lo \in min..max, NEW hi \in min..max, i.base = <<lo, hi>>
      PROVE  ItemLow(i, min) \in Int /\ ItemHigh(i, max) \in Int /\ ItemStep(i) \in Nat \ {0}
  BY <1>1, <1>3 DEF ItemLow, ItemHigh, ItemStep
<1> QED  BY <1>1, <1>2, <1>3

(* cronFieldMatches and parseField read a field alike.                     *)
LEMMA FieldsAgree ==
    ASSUME NEW min \in Int, NEW max \in Int, NEW field \in SUBSET CronField(min, max, Nat),
           NEW v \in Int
    PROVE  cronFieldMatches(field, v, min, max) <=> v \in parseField(field, min, max)
<1> DEFINE Hit(w) == \E i \in field : /\ w >= ItemLow(i, min) /\ w <= ItemHigh(i, max)
                                      /\ (w - ItemLow(i, min)) % ItemStep(i) = 0
           values == UNION {{w \in ItemLow(i, min)..ItemHigh(i, max) :
                                 (w - ItemLow(i, min)) % ItemStep(i) = 0} : i \in field}
<1>1. ASSUME NEW w \in Int PROVE Hit(w) <=> w \in values
  <2>1. \A i \in field : ItemLow(i, min) \in Int /\ ItemHigh(i, max) \in Int
    BY ItemTyped
  <2> QED  BY <2>1
<1>2. cronFieldMatches(field, v, min, max) <=> (v = 0 /\ max = 7 /\ Hit(7)) \/ Hit(v)
  BY DEF cronFieldMatches
<1>3. parseField(field, min, max) = values \cup (IF max = 7 /\ 7 \in values THEN {0} ELSE {})
  BY DEF parseField
<1> HIDE DEF Hit, values
<1> QED  BY <1>1, <1>2, <1>3

(* So the two tests of a day agree.                                        *)
LEMMA AcceptsAgree ==
    ASSUME NEW dom \in SUBSET CronField(1, 31, Nat), NEW dow \in SUBSET CronField(0, 7, Nat),
           NEW day \in Int, NEW weekday \in Int
    PROVE  NextCronAccepts(dom, dow, day, weekday) <=> CalculatorAccepts(dom, dow, day, weekday)
<1>1. cronFieldMatches(dom, day, 1, 31) <=> day \in parseField(dom, 1, 31)
  BY FieldsAgree
<1>2. cronFieldMatches(dow, weekday, 0, 7) <=> weekday \in parseField(dow, 0, 7)
  BY FieldsAgree
<1> QED  BY <1>1, <1>2 DEF NextCronAccepts, CalculatorAccepts

(* NextCron, which sets the cursor of a schedule, and CronCalculator, which *)
(* moves it, are of the same days for every valid expression: for any      *)
(* items, ranges and steps of the two day fields.                          *)
THEOREM CalculatorsAgree == CronInit /\ [][UNCHANGED cron]_cron => []CronCalculatorsAgree
<1>1. CronInit => CronCalculatorsAgree
  <2> SUFFICES ASSUME CronInit, NEW e \in cron, NEW day \in 1..31, NEW weekday \in 0..6
               PROVE  NextCronAccepts(e.dom, e.dow, day, weekday)
                        <=> CalculatorAccepts(e.dom, e.dow, day, weekday)
    BY DEF CronCalculatorsAgree
  <2>1. e \in [dom : DayFields, dow : WeekdayFields]
    BY DEF CronInit
  <2>2. e.dom \in SUBSET CronField(1, 31, Nat) /\ e.dow \in SUBSET CronField(0, 7, Nat)
    BY <2>1, CronFieldsAssumption
  <2> QED  BY <2>2, AcceptsAgree
<1>2. CronCalculatorsAgree /\ [UNCHANGED cron]_cron => CronCalculatorsAgree'
  BY DEF CronCalculatorsAgree
<1> QED  BY <1>1, <1>2, PTL

(* A recurring trigger g accepts the day t.                                *)
DayFits(g, t) == CalculatorAccepts(AnyDay, g.dow, t, t % 7)

(* Both calculators test a day alike.                                      *)
LEMMA DaysAgree ==
    ASSUME NEW g \in STriggers, NEW t \in Int
    PROVE  NextCronAccepts(AnyDay, g.dow, t, t % 7) <=> DayFits(g, t)
<1>1. AnyDay \in SUBSET CronField(1, 31, Nat)
  BY DEF AnyDay, CronField
<1>2. g.dow \in SUBSET CronField(0, 7, Nat) /\ t % 7 \in Int
  BY ScheduleAssumption
<1> QED  BY <1>1, <1>2, AcceptsAgree DEF DayFits

(* Within a week there is a day that a recurring trigger accepts.          *)
LEMMA SomeDayFits ==
    ASSUME NEW g \in STriggers, Recurring(g), NEW after \in Nat
    PROVE  \E t \in (after + 1)..(after + 7) : DayFits(g, t)
<1>1. g.dow # {} /\ g.dow \in SUBSET CronField(0, 7, Nat) /\ validCronField(g.dow, 0, 7)
  BY ScheduleAssumption DEF Recurring
<1>2. PICK i \in g.dow : i \in CronField(0, 7, Nat)
  BY <1>1
<1>3. ItemLow(i, 0) \in 0..7 /\ ItemLow(i, 0) <= ItemHigh(i, 7) /\ ItemHigh(i, 7) \in Int
      /\ ItemStep(i) \in Nat \ {0}
  <2>1. ItemHigh(i, 7) \in Int /\ ItemStep(i) \in Nat \ {0}
    BY <1>2, ItemTyped
  <2>2. CASE i.base = <<>>
    BY <2>1, <2>2 DEF ItemLow, ItemHigh
  <2>3. CASE i.base # <<>>
    BY <1>1, <1>2, <2>1, <2>3 DEF ItemLow, ItemHigh, validCronField
  <2> QED  BY <2>2, <2>3
<1>4. PICK low \in 0..7 : low = ItemLow(i, 0)
  BY <1>3
<1>5. low \in parseField(g.dow, 0, 7) /\ (low = 7 => 0 \in parseField(g.dow, 0, 7))
  <2>1. (low - ItemLow(i, 0)) % ItemStep(i) = 0
    BY <1>3, <1>4
  <2>2. low \in {w \in ItemLow(i, 0)..ItemHigh(i, 7) : (w - ItemLow(i, 0)) % ItemStep(i) = 0}
    BY <1>3, <1>4, <2>1
  <2> QED  BY <1>2, <2>2 DEF parseField
<1>6. \E t \in (after + 1)..(after + 7) : t % 7 = low % 7
  <2>1. PICK d \in 0..6 : d = (low - (after + 1)) % 7
    OBVIOUS
  <2>2. (after + 1 + d) % 7 = low % 7
    BY <2>1
  <2> QED  BY <2>2
<1>7. low % 7 \in parseField(g.dow, 0, 7)
  BY <1>5
<1>8. \A t : t % 7 \in parseField(g.dow, 0, 7) => DayFits(g, t)
  BY DEF DayFits, CalculatorAccepts, Wildcard, AnyDay
<1> QED  BY <1>6, <1>7, <1>8

(* There is a first such day.                                              *)
LEMMA FirstDayFits ==
    ASSUME NEW g \in STriggers, Recurring(g), NEW after \in Nat
    PROVE  \E t \in (after + 1)..(after + 7) :
              DayFits(g, t) /\ \A u \in (after + 1)..(t - 1) : ~DayFits(g, u)
<1> DEFINE T == {t \in (after + 1)..(after + 7) : DayFits(g, t)}
<1>1. T # {} /\ T \subseteq Nat
  BY SomeDayFits
<1>2. PICK t \in T : \A u \in T : t <= u
  <2> HIDE DEF T
  <2> QED  BY <1>1, LeastOf
<1>3. \A u \in (after + 1)..(t - 1) : ~DayFits(g, u)
  <2>1. SUFFICES ASSUME NEW u \in (after + 1)..(t - 1), DayFits(g, u) PROVE FALSE
    OBVIOUS
  <2>2. u \in T /\ ~(t <= u)
    BY <1>2, <2>1
  <2> QED  BY <1>2, <2>2
<1> QED  BY <1>2, <1>3

(* The calculators put the cursor on it.                                   *)
LEMMA CalculatorMoves ==
    ASSUME NEW g \in STriggers, Recurring(g), NEW after \in Nat
    PROVE  /\ CalculatorNext(after, g) \in (after + 1)..(after + 7)
           /\ DayFits(g, CalculatorNext(after, g))
<1> DEFINE First(t) == DayFits(g, t) /\ \A u \in (after + 1)..(t - 1) : ~DayFits(g, u)
           S == (after + 1)..(after + 7)
<1>1. \E t \in S : First(t)
  BY FirstDayFits
<1>2. CalculatorNext(after, g) = CHOOSE t \in S : First(t)
  BY DEF CalculatorNext, FirstAfter, DayFits
<1>3. First(CHOOSE t \in S : First(t)) /\ (CHOOSE t \in S : First(t)) \in S
  <2> HIDE DEF First, S
  <2> QED  BY <1>1
<1> QED  BY <1>2, <1>3

LEMMA NextCronMoves ==
    ASSUME NEW g \in STriggers, Recurring(g), NEW after \in Nat
    PROVE  /\ NextCron(after, g) \in (after + 1)..(after + 7)
           /\ DayFits(g, NextCron(after, g))
<1> DEFINE Good(t) == NextCronAccepts(AnyDay, g.dow, t, t % 7)
           First(t) == Good(t) /\ \A u \in (after + 1)..(t - 1) : ~Good(u)
           S == (after + 1)..(after + 7)
<1>1. \A t \in Int : Good(t) <=> DayFits(g, t)
  BY DaysAgree
<1>2. \E t \in S : First(t)
  <2>1. PICK t \in S : DayFits(g, t) /\ \A u \in (after + 1)..(t - 1) : ~DayFits(g, u)
    BY FirstDayFits
  <2> HIDE DEF Good
  <2> QED  BY <1>1, <2>1
<1>3. NextCron(after, g) = CHOOSE t \in S : First(t)
  BY DEF NextCron, FirstAfter
<1>4. First(CHOOSE t \in S : First(t)) /\ (CHOOSE t \in S : First(t)) \in S
  <2> HIDE DEF First, S
  <2> QED  BY <1>2
<1>5. NextCron(after, g) \in S /\ Good(NextCron(after, g))
  BY <1>3, <1>4
<1> HIDE DEF Good
<1> QED  BY <1>1, <1>5

(***************************************************************************)
(* Schedules.                                                              *)
(***************************************************************************)
SRow == [state : {"none", "live", "deleted"}, trigger : STriggers \cup {NoTrigger},
         paused : BOOLEAN, next : Nat, last : Nat, rev : Nat, profile : SProfiles \cup {0}]
SEdit == [sched : Schedules \cup {0}, row : SRow, trigger : STriggers \cup {NoTrigger},
          profile : SProfiles \cup {0}, at : Nat]
SOcc == [sched : Schedules, at : Nat, key : SKeys \cup {0}]

STyped ==
    /\ clock \in Nat /\ clock \in SFirst..SLast
    /\ sched \in [Schedules -> SRow]
    /\ occs \subseteq SOcc
    /\ receipts \in [SKeys -> Schedules \cup {0}]
    /\ profs \in [SProfiles -> {"none", "live", "bare", "deleted"}]
    /\ profRefs \subseteq Schedules \X SProfiles
    /\ default \in SProfiles \cup {0}
    /\ sloop \in [pc : {"idle", "draining", "stopped"}, now : Nat, tries : 0..(SRetries - 1)]
    /\ edit \in SEdit
    /\ trig \in [SKeys -> [sched : Schedules \cup {0}, profile : SProfiles \cup {0}]]
    /\ edits \in Nat

(* What was written lies in the past.                                      *)
InThePast ==
    /\ sloop.now <= clock /\ edit.at <= clock
    /\ \A s \in Schedules : sched[s].last <= clock
    /\ \A o \in occs : o.at \in 1..clock

RowsFit ==
    \A s \in Schedules : /\ sched[s].state = "none" => sched[s] = NoSchedule
                         /\ sched[s].state # "none" => sched[s].trigger \in STriggers

(* The references of live schedules are those their rows name.             *)
RefsFit ==
    /\ \A r \in profRefs : Live(r[1])
    /\ \A s \in Schedules : Live(s) /\ sched[s].profile # 0 => <<s, sched[s].profile>> \in profRefs

DefaultFits == default = 0 <=> Eligible(profs) = {}

(* An update in flight has read the row of its revision, and the schedule  *)
(* has not fired since.                                                    *)
EditFits ==
    edit # NoEdit =>
        /\ edit.sched \in Schedules /\ edit.trigger \in STriggers
        /\ edit.row.rev <= sched[edit.sched].rev
        /\ sched[edit.sched].rev = edit.row.rev =>
              /\ sched[edit.sched] = edit.row
              /\ \A o \in occs : o.sched = edit.sched /\ o.key = 0 => o.at <= edit.at

(* A call of trigger_now in flight has no receipt yet.                     *)
TrigFits == \A k \in SKeys : trig[k] # NoTrig => trig[k].sched \in Schedules /\ receipts[k] = 0

(* The inductive invariant.                                                *)
SInd ==
    /\ STyped /\ InThePast /\ RowsFit /\ RefsFit /\ DefaultFits /\ EditFits /\ TrigFits
    /\ CursorAhead /\ NamedProfileKept /\ OneTaskPerKey

(* The numbers of schedules and profiles are not 0, which stands for none. *)
LEMMA SNumbers ==
    /\ 0 \notin Schedules /\ 0 \notin SProfiles /\ 0 \notin SKeys
    /\ Schedules \subseteq Nat /\ SProfiles \subseteq Nat
    /\ SFirst \in Nat /\ SLast \in Nat /\ SFirst <= SLast /\ 1 <= SFirst
    /\ SRetries \in Nat /\ SRetries >= 1 /\ SEdits \in Nat
    /\ \A g \in STriggers : g.at \in Nat
BY ScheduleAssumption

(* The default converges on an eligible profile while there is one.        *)
LEMMA ConvergedFits ==
    ASSUME NEW ps, NEW current \in SProfiles \cup {0}
    PROVE  /\ Converged(current, ps) \in SProfiles \cup {0}
           /\ Converged(current, ps) = 0 <=> Eligible(ps) = {}
<1> DEFINE E == Eligible(ps)
           later == {p \in E : p > current}
<1>1. E \subseteq SProfiles /\ E \subseteq Nat /\ 0 \notin E /\ later \subseteq E
  BY SNumbers DEF Eligible
<1>2. ASSUME NEW S, S \subseteq E, S # {} PROVE Least(S) \in S
  <2>1. \E x \in S : \A y \in S : x <= y
    BY <1>1, <1>2, LeastOf
  <2> QED  BY <2>1 DEF Least
<1>3. Converged(current, ps) = IF current \in E THEN current
                               ELSE IF later # {} THEN Least(later)
                               ELSE IF E # {} THEN Least(E) ELSE 0
  BY DEF Converged
<1> HIDE DEF E, later
<1>4. later # {} => Least(later) \in E
  BY <1>1, <1>2
<1>5. E # {} => Least(E) \in E
  BY <1>2
<1>6. /\ Converged(current, ps) \in SProfiles \cup {0}
      /\ Converged(current, ps) = 0 <=> E = {}
  BY <1>1, <1>3, <1>4, <1>5
<1> QED  BY <1>6 DEF E

LEMMA SStart == ScheduleInit => SInd
<1> SUFFICES ASSUME ScheduleInit PROVE SInd
  OBVIOUS
<1>1. NoSchedule \in SRow /\ NoEdit \in SEdit
  <2>1. NoSchedule \in SRow
    BY DEF NoSchedule, SRow
  <2> QED  BY <2>1 DEF NoEdit, SEdit
<1>2. default \in SProfiles \cup {0} /\ DefaultFits
  BY ConvergedFits DEF ScheduleInit, DefaultFits
<1>3. STyped
  BY <1>1, <1>2, SNumbers DEF ScheduleInit, STyped, NoTrig
<1>4. InThePast
  BY SNumbers DEF ScheduleInit, InThePast, NoSchedule, NoEdit
<1>5. RowsFit
  BY DEF ScheduleInit, RowsFit, NoSchedule
<1>6. RefsFit /\ EditFits /\ TrigFits
  BY DEF ScheduleInit, RefsFit, EditFits, TrigFits, Live, NoSchedule
<1>7. CursorAhead /\ NamedProfileKept /\ OneTaskPerKey
  BY DEF ScheduleInit, CursorAhead, NamedProfileKept, OneTaskPerKey, Live, NoSchedule
<1> QED  BY <1>2, <1>3, <1>4, <1>5, <1>6, <1>7 DEF SInd

(* Time, the ticks of the loop and the owner's reads write no row.         *)
LEMMA SReads ==
    ASSUME SInd, UNCHANGED <<sched, occs, receipts, profs, profRefs, default>>,
           STyped', InThePast', EditFits', TrigFits'
    PROVE  SInd'
BY DEF SInd, RowsFit, RefsFit, DefaultFits, CursorAhead, NamedProfileKept, OneTaskPerKey, Live

LEMMA DayPassesStep == SInd /\ DayPasses => SInd'
<1> SUFFICES ASSUME SInd, DayPasses PROVE SInd'
  OBVIOUS
<1>1. STyped'
  BY SNumbers DEF SInd, STyped, DayPasses
<1>2. InThePast'
  <2>1. /\ clock \in Nat /\ sloop.now \in Nat /\ edit.at \in Nat
        /\ \A s \in Schedules : sched[s].last \in Nat
        /\ \A o \in occs : o.at \in Nat
    BY DEF SInd, STyped, SRow, SOcc, SEdit
  <2> QED  BY <2>1 DEF SInd, InThePast, DayPasses
<1>3. EditFits' /\ TrigFits'
  BY DEF SInd, EditFits, TrigFits, DayPasses
<1> QED  BY <1>1, <1>2, <1>3, SReads DEF DayPasses

LEMMA LoopStep ==
    ASSUME SInd, Tick \/ NothingDue \/ RestartProcess \/ \E s \in Schedules : MaterializeFails(s)
    PROVE  SInd'
<1>1. UNCHANGED <<clock, sched, occs, receipts, profs, profRefs, default, edits>>
  BY DEF Tick, NothingDue, RestartProcess, MaterializeFails
<1>2. sloop' \in [pc : {"idle", "draining", "stopped"}, now : Nat, tries : 0..(SRetries - 1)]
      /\ sloop'.now <= clock
  <2>1. /\ sloop \in [pc : {"idle", "draining", "stopped"}, now : Nat, tries : 0..(SRetries - 1)]
        /\ sloop.now <= clock /\ clock \in Nat
    BY DEF SInd, STyped, InThePast
  <2>2. CASE Tick \/ NothingDue \/ RestartProcess
    <3>1. \/ sloop' = [pc |-> "draining", now |-> clock, tries |-> 0]
          \/ sloop' = [sloop EXCEPT !.pc = "idle", !.tries = 0]
      BY <2>2 DEF Tick, NothingDue, RestartProcess
    <3>2. \/ sloop' = [pc |-> "draining", now |-> clock, tries |-> 0]
          \/ sloop' = [pc |-> "idle", now |-> sloop.now, tries |-> 0]
      BY <2>1, <3>1
    <3> QED  BY <2>1, <3>2, SNumbers
  <2>3. ASSUME NEW s \in Schedules, MaterializeFails(s)
        PROVE  /\ sloop' \in [pc : {"idle", "draining", "stopped"}, now : Nat,
                              tries : 0..(SRetries - 1)]
               /\ sloop'.now <= clock
    <3>1. \/ sloop' = [sloop EXCEPT !.tries = @ + 1] /\ sloop.tries + 1 < SRetries
          \/ sloop' = [sloop EXCEPT !.pc = "stopped"]
      BY <2>3 DEF MaterializeFails
    <3> QED  BY <2>1, <3>1, SNumbers
  <2> QED  BY <2>2, <2>3
<1>3. \/ UNCHANGED <<edit, trig>>
      \/ edit' = NoEdit /\ trig' = [k \in SKeys |-> NoTrig]
  BY DEF Tick, NothingDue, RestartProcess, MaterializeFails
<1>4. edit' \in SEdit /\ edit'.at <= clock
      /\ trig' \in [SKeys -> [sched : Schedules \cup {0}, profile : SProfiles \cup {0}]]
  <2>1. NoEdit \in SEdit /\ NoEdit.at = 0
    <3>1. NoSchedule \in SRow
      BY DEF NoSchedule, SRow
    <3> QED  BY <3>1 DEF NoEdit, SEdit
  <2> QED  BY <1>3, <2>1, SNumbers DEF SInd, STyped, InThePast, NoTrig
<1>5. STyped' /\ InThePast'
  BY <1>1, <1>2, <1>4 DEF SInd, STyped, InThePast
<1>6. EditFits' /\ TrigFits'
  BY <1>1, <1>3 DEF SInd, EditFits, TrigFits
<1> QED  BY <1>1, <1>5, <1>6, SReads

(* Profiles come, lose their key and go; a named one stays.                *)
LEMMA ProfilesStep ==
    ASSUME SInd, NEW ps \in [SProfiles -> {"none", "live", "bare", "deleted"}],
           NEW chosen \in SProfiles \cup {0}, ProfilesBecome(ps, chosen),
           \A p \in SProfiles : \/ ps[p] \in {profs[p], "live", "bare"}
                               \/ ~ \E s \in Schedules : <<s, p>> \in profRefs /\ Live(s)
    PROVE  SInd'
<1>1. /\ profs' = ps /\ default' = Converged(chosen, ps)
      /\ edits > 0 /\ edits' = edits - 1
      /\ UNCHANGED <<clock, sched, occs, receipts, profRefs, sloop, edit, trig>>
  BY DEF ProfilesBecome
<1>2. default' \in SProfiles \cup {0} /\ DefaultFits'
  BY <1>1, ConvergedFits DEF DefaultFits, Eligible
<1>3. STyped'
  BY <1>1, <1>2 DEF SInd, STyped
<1>4. NamedProfileKept'
  <2>1. ASSUME NEW s \in Schedules, Live(s), sched[s].profile # 0
        PROVE  profs'[sched[s].profile] \in {"live", "bare"}
    <3>1. sched[s].profile \in SProfiles
      BY <2>1 DEF SInd, STyped, SRow
    <3>2. <<s, sched[s].profile>> \in profRefs
      BY <2>1 DEF SInd, RefsFit
    <3>3. profs[sched[s].profile] \in {"live", "bare"}
      BY <2>1 DEF SInd, NamedProfileKept
    <3> QED  BY <1>1, <2>1, <3>1, <3>2, <3>3
  <2> QED  BY <1>1, <2>1 DEF NamedProfileKept, Live
<1>5. InThePast' /\ RowsFit' /\ RefsFit' /\ EditFits' /\ TrigFits' /\ CursorAhead' /\ OneTaskPerKey'
  BY <1>1 DEF SInd, InThePast, RowsFit, RefsFit, EditFits, TrigFits, CursorAhead, OneTaskPerKey, Live
<1> QED  BY <1>2, <1>3, <1>4, <1>5 DEF SInd

LEMMA ProfileNextStep == SInd /\ ProfileNext => SInd'
<1> SUFFICES ASSUME SInd, ProfileNext
             PROVE  SInd'
  OBVIOUS
<1>1. profs \in [SProfiles -> {"none", "live", "bare", "deleted"}] /\ default \in SProfiles \cup {0}
  BY DEF SInd, STyped
<1>2. ASSUME NEW p \in SProfiles, NEW now \in {"live", "bare", "deleted"},
             ProfilesBecome([profs EXCEPT ![p] = now], default),
             now = "deleted" => ~ \E s \in Schedules : <<s, p>> \in profRefs /\ Live(s)
      PROVE  SInd'
  <2>1. PICK ps \in [SProfiles -> {"none", "live", "bare", "deleted"}] : ps = [profs EXCEPT ![p] = now]
    BY <1>1
  <2>2. \A q \in SProfiles : ps[q] = IF q = p THEN now ELSE profs[q]
    BY <1>1, <2>1
  <2> QED  BY <1>1, <1>2, <2>1, <2>2, ProfilesStep
<1>3. ASSUME NEW p \in SProfiles, CreateProfile(p) PROVE SInd'
  BY <1>2, <1>3 DEF CreateProfile
<1>4. ASSUME NEW p \in SProfiles, UpdateProfile(p) PROVE SInd'
  <2>1. PICK now \in {"live", "bare"} : now = IF profs[p] = "live" THEN "bare" ELSE "live"
    OBVIOUS
  <2>2. ProfilesBecome([profs EXCEPT ![p] = now], default)
    BY <1>4, <2>1 DEF UpdateProfile
  <2> QED  BY <1>2, <2>1, <2>2
<1>5. ASSUME NEW p \in SProfiles, DeleteProfile(p) PROVE SInd'
  BY <1>2, <1>5 DEF DeleteProfile
<1>6. ASSUME NEW listed \in SUBSET SProfiles, NEW chosen \in SProfiles \cup {0},
             SyncProfiles(listed, chosen)
      PROVE  SInd'
  <2>1. PICK ps \in [SProfiles -> {"none", "live", "bare", "deleted"}] :
           ps = [p \in SProfiles |-> IF p \in listed THEN "live" ELSE profs[p]]
    BY <1>1
  <2>2. ProfilesBecome(ps, chosen)
    BY <1>6, <2>1 DEF SyncProfiles
  <2>3. \A p \in SProfiles : ps[p] \in {profs[p], "live"}
    BY <2>1
  <2> QED  BY <2>2, <2>3, ProfilesStep
<1> QED  BY <1>3, <1>4, <1>5, <1>6 DEF ProfileNext

(* A row that is written gets a new revision: what an update in flight has *)
(* read is no longer the row.                                              *)
SWrites(s, row) ==
    /\ s \in Schedules /\ row \in SRow /\ row.rev > sched[s].rev
    /\ sched' = [sched EXCEPT ![s] = row]

(* The fields of a row that is changed in part.                            *)
SChanged(r, state, paused, next, last) ==
    [state |-> state, trigger |-> r.trigger, paused |-> paused, next |-> next, last |-> last,
     rev |-> r.rev + 1, profile |-> r.profile]

LEMMA ChangedTyped ==
    ASSUME NEW r \in SRow, NEW state \in {"none", "live", "deleted"}, NEW paused \in BOOLEAN,
           NEW next \in Nat, NEW last \in Nat
    PROVE  /\ SChanged(r, state, paused, next, last) \in SRow
           /\ SChanged(r, state, paused, next, last).rev > r.rev
BY DEF SRow, SChanged

LEMMA RowsChange ==
    ASSUME NEW r \in SRow, NEW row
    PROVE  /\ \A p \in BOOLEAN : row = [r EXCEPT !.paused = p, !.rev = @ + 1] =>
                                  row = SChanged(r, r.state, p, r.next, r.last)
           /\ row = [r EXCEPT !.state = "deleted", !.rev = @ + 1] =>
                 row = SChanged(r, "deleted", r.paused, r.next, r.last)
<1>1. ASSUME NEW p \in BOOLEAN, row = [r EXCEPT !.paused = p, !.rev = @ + 1]
      PROVE  row = SChanged(r, r.state, p, r.next, r.last)
  BY <1>1 DEF SRow, SChanged
<1>2. ASSUME row = [r EXCEPT !.state = "deleted", !.rev = @ + 1]
      PROVE  row = SChanged(r, "deleted", r.paused, r.next, r.last)
  BY <1>2 DEF SRow, SChanged
<1> QED  BY <1>1, <1>2

LEMMA WrittenRow ==
    ASSUME SInd, NEW s, NEW row, SWrites(s, row),
           row.state # "none", row.trigger \in STriggers, row.last <= clock,
           UNCHANGED <<clock, profs>>, edit' \in {edit, NoEdit},
           occs \subseteq occs', \A o \in occs' \ occs : o.sched = s \/ o.key # 0
    PROVE  /\ sched' \in [Schedules -> SRow] /\ RowsFit' /\ EditFits'
           /\ edit' \in SEdit /\ edit'.at <= clock
           /\ \A u \in Schedules : sched'[u].last <= clock
           /\ \A u \in Schedules : u # s => sched'[u] = sched[u]
           /\ sched'[s] = row
<1>1. sched \in [Schedules -> SRow] /\ s \in Schedules /\ sched' = [sched EXCEPT ![s] = row]
      /\ row \in SRow /\ row.rev \in Nat /\ sched[s].rev \in Nat /\ row.rev > sched[s].rev
  BY DEF SInd, STyped, SWrites, SRow
<1>2. /\ sched' \in [Schedules -> SRow] /\ sched'[s] = row
      /\ \A u \in Schedules : u # s => sched'[u] = sched[u]
  BY <1>1
<1>3. RowsFit' /\ \A u \in Schedules : sched'[u].last <= clock
  BY <1>2 DEF SInd, RowsFit, InThePast
<1>4. edit' \in SEdit /\ edit'.at <= clock
  <2>1. NoEdit \in SEdit /\ NoEdit.at = 0
    <3>1. NoSchedule \in SRow
      BY DEF NoSchedule, SRow
    <3> QED  BY <3>1 DEF NoEdit, SEdit
  <2> QED  BY <2>1 DEF SInd, STyped, InThePast
<1>5. EditFits'
  <2>1. SUFFICES ASSUME edit # NoEdit, edit' = edit PROVE EditFits'
    BY DEF EditFits
  <2>2. /\ edit.sched \in Schedules /\ edit.trigger \in STriggers
        /\ edit.row.rev <= sched[edit.sched].rev /\ edit.row.rev \in Nat
        /\ sched[edit.sched].rev = edit.row.rev =>
              /\ sched[edit.sched] = edit.row
              /\ \A o \in occs : o.sched = edit.sched /\ o.key = 0 => o.at <= edit.at
    BY <2>1 DEF SInd, EditFits, STyped, SEdit, SRow
  <2>3. CASE edit.sched = s
    <3>1. edit.row.rev < sched'[s].rev
      BY <1>1, <1>2, <2>2, <2>3
    <3> QED  BY <1>1, <1>2, <2>1, <2>2, <2>3, <3>1 DEF EditFits
  <2>4. CASE edit.sched # s
    <3>1. sched'[edit.sched] = sched[edit.sched]
      BY <1>2, <2>2, <2>4
    <3> QED  BY <2>1, <2>2, <2>4, <3>1 DEF EditFits
  <2> QED  BY <2>3, <2>4
<1> QED  BY <1>2, <1>3, <1>4, <1>5

(* Cursors and references after a write of one row.                        *)
LEMMA SRowStep ==
    ASSUME SInd, NEW s, NEW row, SWrites(s, row),
           row.state # "none", row.trigger \in STriggers, row.last <= clock,
           UNCHANGED <<clock, occs, receipts, profs, default, sloop, trig>>,
           edit' \in {edit, NoEdit}, edits' \in Nat,
           profRefs' \subseteq Schedules \X SProfiles,
           \A r \in profRefs' : (r \in profRefs /\ r[1] # s) \/ (r[1] = s /\ row.state = "live"),
           \A r \in profRefs : r[1] # s => r \in profRefs',
           row.state = "live" /\ row.profile # 0 =>
              <<s, row.profile>> \in profRefs' /\ profs[row.profile] \in {"live", "bare"},
           row.state = "live" /\ Recurring(row.trigger) =>
              /\ DayFits(row.trigger, row.next)
              /\ \A o \in occs : o.sched = s /\ o.key = 0 => o.at < row.next
    PROVE  SInd'
<1>1. /\ sched' \in [Schedules -> SRow] /\ RowsFit' /\ EditFits'
      /\ edit' \in SEdit /\ edit'.at <= clock
      /\ \A u \in Schedules : sched'[u].last <= clock
      /\ \A u \in Schedules : u # s => sched'[u] = sched[u]
      /\ sched'[s] = row /\ s \in Schedules
  BY WrittenRow DEF SWrites
<1>2. STyped' /\ InThePast' /\ DefaultFits'
  BY <1>1 DEF SInd, STyped, InThePast, DefaultFits, Eligible
<1>3. TrigFits' /\ OneTaskPerKey'
  BY DEF SInd, TrigFits, OneTaskPerKey
<1>4. RefsFit'
  <2>1. ASSUME NEW r \in profRefs' PROVE sched'[r[1]].state = "live"
    <3>1. r[1] \in Schedules
      BY <2>1
    <3> QED  BY <1>1, <2>1, <3>1 DEF SInd, RefsFit, Live
  <2>2. ASSUME NEW u \in Schedules, sched'[u].state = "live", sched'[u].profile # 0
        PROVE  <<u, sched'[u].profile>> \in profRefs'
    <3>1. CASE u = s
      BY <1>1, <2>2, <3>1
    <3>2. CASE u # s
      <4>1. <<u, sched[u].profile>> \in profRefs /\ sched'[u] = sched[u]
        BY <1>1, <2>2, <3>2 DEF SInd, RefsFit, Live
      <4>2. <<u, sched[u].profile>>[1] = u
        OBVIOUS
      <4> QED  BY <3>2, <4>1, <4>2
    <3> QED  BY <3>1, <3>2
  <2> QED  BY <2>1, <2>2 DEF RefsFit, Live
<1>5. CursorAhead'
  <2>1. ASSUME NEW u \in Schedules, sched'[u].state = "live", Recurring(sched'[u].trigger)
        PROVE  /\ DayFits(sched'[u].trigger, sched'[u].next)
               /\ \A o \in occs : o.sched = u /\ o.key = 0 => o.at < sched'[u].next
    <3>1. CASE u = s
      BY <1>1, <2>1, <3>1
    <3>2. CASE u # s
      BY <1>1, <2>1, <3>2 DEF SInd, CursorAhead, Live, DayFits
    <3> QED  BY <3>1, <3>2
  <2> QED  BY <2>1 DEF CursorAhead, Live, DayFits
<1>6. NamedProfileKept'
  BY <1>1 DEF SInd, NamedProfileKept, Live
<1> QED  BY <1>1, <1>2, <1>3, <1>4, <1>5, <1>6 DEF SInd

LEMMA CreateScheduleStep ==
    ASSUME SInd, NEW s \in Schedules, NEW g \in STriggers, NEW p \in SProfiles \cup {0},
           CreateSchedule(s, g, p)
    PROVE  SInd'
<1>1. PICK row : row = [state |-> "live", trigger |-> g, paused |-> FALSE,
                        next |-> IF Recurring(g) THEN NextCron(clock, g) ELSE g.at,
                        last |-> 0, rev |-> 1, profile |-> p]
  OBVIOUS
<1>2. /\ sched[s].state = "none" /\ lockLiveScheduleProfileTx(p)
      /\ sched' = [sched EXCEPT ![s] = row]
      /\ profRefs' = profRefs \cup {<<s, q>> : q \in {p} \ {0}}
      /\ edits > 0 /\ edits' = edits - 1
      /\ UNCHANGED <<clock, occs, receipts, profs, default, sloop, edit, trig>>
  BY <1>1 DEF CreateSchedule, OwnerStep
<1>3. clock \in Nat /\ edits \in Nat /\ profRefs \subseteq Schedules \X SProfiles
  BY DEF SInd, STyped
<1>4. Recurring(g) => /\ NextCron(clock, g) \in Nat /\ NextCron(clock, g) > clock
                      /\ DayFits(g, NextCron(clock, g))
  BY <1>3, NextCronMoves
<1>5. row \in SRow
  BY <1>1, <1>4, SNumbers DEF SRow
<1>6. SWrites(s, row)
  <2>1. sched[s].rev = 0
    BY <1>2 DEF SInd, RowsFit, NoSchedule
  <2> QED  BY <1>1, <1>2, <1>5, <2>1 DEF SWrites
<1>7. \A r \in profRefs : Live(r[1])
  BY DEF SInd, RefsFit
<1>8. /\ profRefs' \subseteq Schedules \X SProfiles
      /\ \A r \in profRefs' : (r \in profRefs /\ r[1] # s) \/ (r[1] = s /\ row.state = "live")
      /\ \A r \in profRefs : r[1] # s => r \in profRefs'
      /\ row.profile # 0 => <<s, row.profile>> \in profRefs' /\ profs[row.profile] \in {"live", "bare"}
  BY <1>1, <1>2, <1>3, <1>7 DEF Live, lockLiveScheduleProfileTx
<1>9. Recurring(row.trigger) => /\ DayFits(row.trigger, row.next)
                                /\ \A o \in occs : o.sched = s /\ o.key = 0 => o.at < row.next
  <2>1. \A o \in occs : o.at \in Nat /\ o.at <= clock
    BY <1>3 DEF SInd, InThePast
  <2> QED  BY <1>1, <1>3, <1>4, <2>1
<1>10. row.state = "live" /\ row.trigger \in STriggers /\ row.last <= clock
  BY <1>1, <1>3
<1> QED  BY <1>2, <1>3, <1>6, <1>8, <1>9, <1>10, SRowStep

LEMMA PauseStep ==
    ASSUME SInd, NEW s \in Schedules, NEW paused \in BOOLEAN, SetPaused(s, paused)
    PROVE  SInd'
<1>1. PICK row : row = [sched[s] EXCEPT !.paused = paused, !.rev = @ + 1]
  OBVIOUS
<1>2. /\ Live(s) /\ sched' = [sched EXCEPT ![s] = row] /\ edits > 0 /\ edits' = edits - 1
      /\ UNCHANGED <<clock, occs, receipts, profs, profRefs, default, sloop, edit, trig>>
  BY <1>1 DEF SetPaused, OwnerStep
<1>3. sched[s] \in SRow /\ edits \in Nat /\ sched[s].rev \in Nat
      /\ profRefs \subseteq Schedules \X SProfiles
  BY DEF SInd, STyped, SRow
<1>4. /\ row \in SRow /\ row.rev = sched[s].rev + 1 /\ row.state = sched[s].state
      /\ row.trigger = sched[s].trigger /\ row.last = sched[s].last
      /\ row.next = sched[s].next /\ row.profile = sched[s].profile
  <2>1. row = SChanged(sched[s], sched[s].state, paused, sched[s].next, sched[s].last)
    BY <1>1, <1>3, RowsChange
  <2>2. sched[s].state \in {"none", "live", "deleted"} /\ sched[s].next \in Nat /\ sched[s].last \in Nat
    BY <1>3 DEF SRow
  <2> QED  BY <1>3, <2>1, <2>2, ChangedTyped DEF SChanged
<1>5. SWrites(s, row)
  BY <1>2, <1>3, <1>4 DEF SWrites
<1>6. row.state = "live" /\ row.trigger \in STriggers /\ row.last <= clock
  BY <1>2, <1>4 DEF SInd, Live, RowsFit, InThePast
<1>7. /\ row.profile # 0 => <<s, row.profile>> \in profRefs /\ profs[row.profile] \in {"live", "bare"}
      /\ Recurring(row.trigger) => /\ DayFits(row.trigger, row.next)
                                   /\ \A o \in occs : o.sched = s /\ o.key = 0 => o.at < row.next
  BY <1>2, <1>4 DEF SInd, RefsFit, NamedProfileKept, CursorAhead, DayFits
<1>8. edits' \in Nat
  BY <1>2, <1>3
<1> QED  BY <1>2, <1>3, <1>5, <1>6, <1>7, <1>8, SRowStep

LEMMA DeleteScheduleStep ==
    ASSUME SInd, NEW s \in Schedules, DeleteSchedule(s)
    PROVE  SInd'
<1>1. PICK row : row = [sched[s] EXCEPT !.state = "deleted", !.rev = @ + 1]
  OBVIOUS
<1>2. /\ Live(s) /\ sched' = [sched EXCEPT ![s] = row] /\ edits > 0 /\ edits' = edits - 1
      /\ profRefs' = {r \in profRefs : r[1] # s}
      /\ UNCHANGED <<clock, occs, receipts, profs, default, sloop, edit, trig>>
  BY <1>1 DEF DeleteSchedule, OwnerStep
<1>3. sched[s] \in SRow /\ edits \in Nat /\ sched[s].rev \in Nat
      /\ profRefs \subseteq Schedules \X SProfiles
  BY DEF SInd, STyped, SRow
<1>4. /\ row \in SRow /\ row.rev = sched[s].rev + 1 /\ row.state = "deleted"
      /\ row.trigger = sched[s].trigger /\ row.last = sched[s].last
  <2>1. row = SChanged(sched[s], "deleted", sched[s].paused, sched[s].next, sched[s].last)
    BY <1>1, <1>3, RowsChange
  <2>2. sched[s].paused \in BOOLEAN /\ sched[s].next \in Nat /\ sched[s].last \in Nat
    BY <1>3 DEF SRow
  <2> QED  BY <1>3, <2>1, <2>2, ChangedTyped DEF SChanged
<1>5. SWrites(s, row)
  BY <1>2, <1>3, <1>4 DEF SWrites
<1>6. row.trigger \in STriggers /\ row.last <= clock
  BY <1>2, <1>4 DEF SInd, Live, RowsFit, InThePast
<1>7. /\ edits' \in Nat /\ profRefs' \subseteq Schedules \X SProfiles
      /\ \A r \in profRefs' : r \in profRefs /\ r[1] # s
      /\ \A r \in profRefs : r[1] # s => r \in profRefs'
  BY <1>2, <1>3
<1>8. row.state # "none" /\ row.state # "live"
  BY <1>4
<1>9. /\ UNCHANGED <<clock, occs, receipts, profs, default, sloop, trig>>
      /\ edit' \in {edit, NoEdit}
  BY <1>2
<1>10. \A r \in profRefs' : (r \in profRefs /\ r[1] # s) \/ (r[1] = s /\ row.state = "live")
  BY <1>7
<1>11. /\ row.state = "live" /\ row.profile # 0 =>
             <<s, row.profile>> \in profRefs' /\ profs[row.profile] \in {"live", "bare"}
       /\ row.state = "live" /\ Recurring(row.trigger) =>
             /\ DayFits(row.trigger, row.next)
             /\ \A o \in occs : o.sched = s /\ o.key = 0 => o.at < row.next
  BY <1>8
<1> QED  BY <1>5, <1>6, <1>7, <1>8, <1>9, <1>10, <1>11, SRowStep

LEMMA ReadForUpdateStep ==
    ASSUME SInd, NEW s \in Schedules, NEW g \in STriggers, NEW p \in SProfiles \cup {0},
           ReadForUpdate(s, g, p)
    PROVE  SInd'
<1>1. /\ edit' = [sched |-> s, row |-> sched[s], trigger |-> g, profile |-> p, at |-> clock]
      /\ edits > 0 /\ edits' = edits - 1
      /\ UNCHANGED <<clock, sched, occs, receipts, profs, profRefs, default, sloop, trig>>
  BY DEF ReadForUpdate, OwnerStep
<1>2. clock \in Nat /\ sched[s] \in SRow /\ sched[s].rev \in Nat /\ edits \in Nat
  BY DEF SInd, STyped, SRow
<1>3. edit' \in SEdit
  BY <1>1, <1>2 DEF SEdit
<1>4. STyped' /\ InThePast'
  BY <1>1, <1>2, <1>3 DEF SInd, STyped, InThePast
<1>5. EditFits'
  <2>1. edit'.sched = s /\ edit'.row = sched[s] /\ edit'.trigger = g /\ edit'.at = clock
    BY <1>1
  <2>2. \A o \in occs : o.at <= clock
    BY <1>2 DEF SInd, InThePast
  <2> QED  BY <1>1, <1>2, <2>1, <2>2 DEF EditFits
<1>6. TrigFits'
  BY <1>1 DEF SInd, TrigFits
<1> QED  BY <1>1, <1>4, <1>5, <1>6, SReads

(* An update that applies writes back the row it has read.                 *)
LEMMA UpdateAppliesStep ==
    ASSUME SInd, UpdateSchedule, UpdateApplies(edit)
    PROVE  SInd'
<1>0. edit # NoEdit /\ UpdateApplies(edit)
  BY DEF UpdateSchedule
<1>1. PICK s, g, p, n, row :
        /\ s = edit.sched /\ g = edit.trigger /\ p = edit.profile
        /\ n = UpdatedCursor(sched[s], edit)
        /\ row = [edit.row EXCEPT !.trigger = g, !.profile = p, !.next = n, !.rev = sched[s].rev + 1]
  OBVIOUS
<1>2. /\ sched' = [sched EXCEPT ![s] = row] /\ profRefs' = MovedRefs(edit) /\ edit' = NoEdit
      /\ UNCHANGED <<clock, occs, receipts, profs, default, sloop, trig, edits>>
  BY <1>0, <1>1 DEF UpdateSchedule, WriteUpdate
<1>3. /\ s \in Schedules /\ g \in STriggers /\ p \in SProfiles \cup {0}
      /\ edit.row = sched[s] /\ sched[s].state = "live" /\ lockLiveScheduleProfileTx(p)
      /\ \A o \in occs : o.sched = s /\ o.key = 0 => o.at <= edit.at
  BY <1>0, <1>1 DEF SInd, EditFits, UpdateApplies, Live, STyped, SEdit
<1>4. edit.at \in Nat /\ sched[s] \in SRow /\ sched[s].next \in Nat /\ sched[s].last \in Nat
      /\ sched[s].rev \in Nat /\ sched[s].paused \in BOOLEAN /\ edits \in Nat
      /\ profRefs \subseteq Schedules \X SProfiles /\ \A o \in occs : o.at \in Nat
  BY <1>3 DEF SInd, STyped, SEdit, SRow, SOcc
<1>5. /\ n \in Nat
      /\ Recurring(g) => /\ DayFits(g, n)
                         /\ \A o \in occs : o.sched = s /\ o.key = 0 => o.at < n
  <2>1. CASE g = sched[s].trigger
    <3>1. n = sched[s].next
      BY <1>1, <1>3, <2>1 DEF UpdatedCursor
    <3> QED  BY <1>3, <1>4, <2>1, <3>1 DEF SInd, CursorAhead, Live, DayFits
  <2>2. CASE g # sched[s].trigger /\ Recurring(g)
    <3>1. n = NextCron(edit.at, g)
      BY <1>1, <2>2 DEF UpdatedCursor
    <3>2. n \in Nat /\ n > edit.at /\ DayFits(g, n)
      BY <1>3, <1>4, <2>2, <3>1, NextCronMoves
    <3> QED  BY <1>3, <1>4, <3>2
  <2>3. CASE g # sched[s].trigger /\ ~Recurring(g)
    <3>1. n = g.at
      BY <1>1, <2>3 DEF UpdatedCursor
    <3> QED  BY <1>3, <2>3, <3>1, SNumbers
  <2> QED  BY <2>1, <2>2, <2>3
<1>6. row = [state |-> sched[s].state, trigger |-> g, paused |-> sched[s].paused, next |-> n,
             last |-> sched[s].last, rev |-> sched[s].rev + 1, profile |-> p]
  BY <1>1, <1>3, <1>4 DEF SRow
<1>7. row \in SRow
  BY <1>3, <1>4, <1>5, <1>6 DEF SRow
<1>8. /\ SWrites(s, row) /\ row.state = "live" /\ row.trigger = g /\ row.last <= clock
      /\ row.next = n /\ row.profile = p
  BY <1>2, <1>3, <1>4, <1>6, <1>7 DEF SWrites, SInd, InThePast
<1>9. profRefs' = {r \in profRefs : r[1] # s} \cup {<<s, q>> : q \in {p} \ {0}}
  BY <1>1, <1>2 DEF MovedRefs
<1>10. /\ profRefs' \subseteq Schedules \X SProfiles
       /\ \A r \in profRefs' : (r \in profRefs /\ r[1] # s) \/ (r[1] = s /\ row.state = "live")
       /\ \A r \in profRefs : r[1] # s => r \in profRefs'
       /\ p # 0 => <<s, p>> \in profRefs' /\ profs[p] \in {"live", "bare"}
  BY <1>3, <1>4, <1>8, <1>9 DEF lockLiveScheduleProfileTx
<1>11. edits' \in Nat /\ row.state # "none" /\ row.trigger \in STriggers
  BY <1>2, <1>3, <1>4, <1>8
<1>12. /\ row.profile # 0 => <<s, row.profile>> \in profRefs' /\ profs[row.profile] \in {"live", "bare"}
       /\ Recurring(row.trigger) => /\ DayFits(row.trigger, row.next)
                                    /\ \A o \in occs : o.sched = s /\ o.key = 0 => o.at < row.next
  BY <1>5, <1>8, <1>10
<1> QED  BY <1>2, <1>8, <1>10, <1>11, <1>12, SRowStep

LEMMA UpdateScheduleStep == SInd /\ UpdateSchedule => SInd'
<1> SUFFICES ASSUME SInd, UpdateSchedule PROVE SInd'
  OBVIOUS
<1>1. CASE UpdateApplies(edit)
  BY <1>1, UpdateAppliesStep
<1>2. CASE ~UpdateApplies(edit)
  <2>1. edit' = NoEdit
        /\ UNCHANGED <<sched, profRefs, clock, occs, receipts, profs, default, sloop, trig, edits>>
    BY <1>2 DEF UpdateSchedule
  <2>2. NoEdit \in SEdit /\ NoEdit.at = 0
    <3>1. NoSchedule \in SRow
      BY DEF NoSchedule, SRow
    <3> QED  BY <3>1 DEF NoEdit, SEdit
  <2>3. STyped' /\ InThePast'
    BY <2>1, <2>2 DEF SInd, STyped, InThePast
  <2>4. EditFits' /\ TrigFits'
    BY <2>1 DEF SInd, EditFits, TrigFits
  <2> QED  BY <2>1, <2>3, <2>4, SReads
<1> QED  BY <1>1, <1>2

LEMMA TriggerReadStep ==
    ASSUME SInd, NEW k \in SKeys, NEW s \in Schedules, TriggerRead(k, s)
    PROVE  SInd'
<1>1. PICK t : t = [sched |-> s, profile |-> sched[s].profile]
  OBVIOUS
<1>2. /\ receipts[k] = 0 /\ trig' = [trig EXCEPT ![k] = t]
      /\ UNCHANGED <<clock, sched, occs, receipts, profs, profRefs, default, sloop, edit, edits>>
  BY <1>1 DEF TriggerRead
<1>3. t \in [sched : Schedules \cup {0}, profile : SProfiles \cup {0}] /\ t.sched \in Schedules
  BY <1>1 DEF SInd, STyped, SRow
<1>4. trig \in [SKeys -> [sched : Schedules \cup {0}, profile : SProfiles \cup {0}]]
  BY DEF SInd, STyped
<1>5. STyped' /\ InThePast'
  BY <1>2, <1>3 DEF SInd, STyped, InThePast
<1>6. TrigFits'
  BY <1>2, <1>3, <1>4 DEF SInd, TrigFits
<1>7. EditFits'
  BY <1>2 DEF SInd, EditFits
<1> QED  BY <1>2, <1>5, <1>6, <1>7, SReads

(* One commit per key: its receipt is new, and the occurrence is its only  *)
(* one.                                                                    *)
LEMMA TriggerCommitStep ==
    ASSUME SInd, NEW k \in SKeys, TriggerCommit(k)
    PROVE  SInd'
<1>1. /\ trig[k] # NoTrig /\ trig' = [trig EXCEPT ![k] = NoTrig]
      /\ UNCHANGED <<clock, sched, profs, profRefs, sloop, edit, edits>>
  BY DEF TriggerCommit
<1>2. trig[k].sched \in Schedules /\ receipts[k] = 0 /\ trig[k].sched # 0
  BY <1>1, SNumbers DEF SInd, TrigFits
<1>3. /\ trig \in [SKeys -> [sched : Schedules \cup {0}, profile : SProfiles \cup {0}]]
      /\ receipts \in [SKeys -> Schedules \cup {0}] /\ occs \subseteq SOcc
      /\ clock \in Nat /\ clock >= 1 /\ default \in SProfiles \cup {0}
  BY SNumbers DEF SInd, STyped
<1>4. trig' \in [SKeys -> [sched : Schedules \cup {0}, profile : SProfiles \cup {0}]]
  BY <1>1, <1>3 DEF NoTrig
<1>5. CASE UNCHANGED <<occs, receipts, default>>
  <2>1. STyped' /\ InThePast'
    BY <1>1, <1>4, <1>5 DEF SInd, STyped, InThePast
  <2>2. EditFits' /\ TrigFits'
    BY <1>1, <1>3, <1>5 DEF SInd, EditFits, TrigFits
  <2> QED  BY <1>1, <1>5, <2>1, <2>2, SReads
<1>6. CASE /\ occs' = occs \cup {[sched |-> trig[k].sched, at |-> clock, key |-> k]}
           /\ receipts' = [receipts EXCEPT ![k] = trig[k].sched]
           /\ default' = IF trig[k].profile = 0 THEN Resolved(0) ELSE default
  <2>1. PICK o : o = [sched |-> trig[k].sched, at |-> clock, key |-> k]
    OBVIOUS
  <2>2. occs' = occs \cup {o} /\ o.key = k /\ o.sched = trig[k].sched /\ o.at = clock /\ o \in SOcc
        /\ o.key # 0
    BY <1>2, <1>3, <1>6, <2>1, SNumbers DEF SOcc
  <2>3. default' \in SProfiles \cup {0} /\ DefaultFits'
    <3>1. default' \in {default, Converged(default, profs)}
      BY <1>6 DEF Resolved
    <3> QED  BY <1>1, <1>3, <3>1, ConvergedFits DEF SInd, DefaultFits, Eligible
  <2>4. receipts' \in [SKeys -> Schedules \cup {0}]
    BY <1>2, <1>3, <1>6
  <2>5. STyped'
    BY <1>1, <1>3, <1>4, <2>2, <2>3, <2>4 DEF SInd, STyped
  <2>6. InThePast'
    BY <1>1, <1>3, <2>2 DEF SInd, InThePast
  <2>7. RowsFit' /\ RefsFit' /\ NamedProfileKept'
    BY <1>1 DEF SInd, RowsFit, RefsFit, NamedProfileKept, Live
  <2>8. EditFits' /\ CursorAhead'
    BY <1>1, <2>2 DEF SInd, EditFits, CursorAhead, Live
  <2>9. TrigFits'
    BY <1>1, <1>3, <1>6 DEF SInd, TrigFits
  <2>10. ASSUME NEW j \in SKeys
         PROVE  {x.sched : x \in {y \in occs' : y.key = j}} = {receipts'[j]} \ {0}
    <3>1. {x.sched : x \in {y \in occs : y.key = j}} = {receipts[j]} \ {0}
      BY DEF SInd, OneTaskPerKey
    <3>2. CASE j = k
      <4>1. receipts'[j] = o.sched /\ receipts[j] = 0
        BY <1>2, <1>3, <1>6, <2>2, <3>2
      <4>2. \A y \in occs : y.key # k
        BY <3>1, <3>2, <4>1
      <4>3. {y \in occs' : y.key = j} = {o}
        BY <2>2, <3>2, <4>2
      <4> QED  BY <1>2, <2>2, <4>1, <4>3
    <3>3. CASE j # k
      <4>1. receipts'[j] = receipts[j]
        BY <1>3, <1>6, <3>3
      <4>2. {y \in occs' : y.key = j} = {y \in occs : y.key = j}
        BY <2>2, <3>3
      <4> QED  BY <3>1, <4>1, <4>2
    <3> QED  BY <3>2, <3>3
  <2>11. OneTaskPerKey'
    BY <2>10 DEF OneTaskPerKey
  <2> QED  BY <2>3, <2>5, <2>6, <2>7, <2>8, <2>9, <2>11 DEF SInd
<1> QED  BY <1>5, <1>6 DEF TriggerCommit

(* The time a due schedule fires for is the last one it has missed.        *)
LEMMA DueTimeFits ==
    ASSUME SInd, NEW s \in DueNow
    PROVE  /\ DueTime(s) \in Nat /\ 1 <= DueTime(s)
           /\ sched[s].next <= DueTime(s) /\ DueTime(s) <= sloop.now
           /\ Recurring(sched[s].trigger) =>
                \A t \in (sched[s].next + 1)..sloop.now : DayFits(sched[s].trigger, t) => t <= DueTime(s)
<1>0. /\ s \in Schedules /\ sched[s].next \in Nat /\ sloop.now \in Nat
      /\ 1 <= sched[s].next /\ sched[s].next <= sloop.now
  BY DEF SInd, STyped, SRow, DueNow
<1> DEFINE n == sched[s].next
           missed == IF Recurring(sched[s].trigger)
                     THEN {t \in (n + 1)..sloop.now : DayFits(sched[s].trigger, t)} ELSE {}
           Last(t) == \A u \in missed : u <= t
           S == missed \cup {n}
<1>1. \A t \in S : t \in Nat /\ n <= t /\ t <= sloop.now
  BY <1>0
<1>a. n \in S /\ missed \subseteq S
  OBVIOUS
<1>2. \E t \in S : Last(t)
  <2> DEFINE T == {sloop.now - t : t \in S}
  <2>1. T \subseteq Nat /\ T # {}
    <3> HIDE DEF S, missed
    <3> QED  BY <1>0, <1>1, <1>a
  <2>2. PICK d \in T : \A e \in T : d <= e
    <3> HIDE DEF T
    <3> QED  BY <2>1, LeastOf
  <2>3. PICK t \in S : d = sloop.now - t
    BY <2>2
  <2>4. \A u \in S : sloop.now - u \in T
    OBVIOUS
  <2>5. \A u \in missed : u <= t
    <3> HIDE DEF S, missed, T
    <3> QED  BY <1>0, <1>1, <1>a, <2>2, <2>3, <2>4
  <2> QED  BY <2>3, <2>5
<1>3. DueTime(s) = CHOOSE t \in S : Last(t)
  BY DEF DueTime, DayFits
<1>4. DueTime(s) \in S /\ Last(DueTime(s))
  <2> HIDE DEF S, Last
  <2> QED  BY <1>2, <1>3
<1>5. DueTime(s) \in Nat /\ n <= DueTime(s) /\ DueTime(s) <= sloop.now
  <2> HIDE DEF S, missed
  <2> QED  BY <1>1, <1>4
<1>6. Recurring(sched[s].trigger) =>
         \A t \in (n + 1)..sloop.now : DayFits(sched[s].trigger, t) => t <= DueTime(s)
  BY <1>4
<1> QED  BY <1>0, <1>5, <1>6

(* Where firing leaves the row.                                            *)
LEMMA AdvancedFits ==
    ASSUME SInd, NEW s \in DueNow
    PROVE  /\ sched' = [sched EXCEPT ![s] = Advanced(@, DueTime(s))] =>
                SWrites(s, Advanced(sched[s], DueTime(s)))
           /\ Advanced(sched[s], DueTime(s)).state = "live"
           /\ Advanced(sched[s], DueTime(s)).trigger = sched[s].trigger
           /\ Advanced(sched[s], DueTime(s)).trigger \in STriggers
           /\ Advanced(sched[s], DueTime(s)).profile = sched[s].profile
           /\ Advanced(sched[s], DueTime(s)).last = DueTime(s)
           /\ ~Recurring(sched[s].trigger) => Advanced(sched[s], DueTime(s)).next = 0
           /\ Recurring(sched[s].trigger) =>
                /\ DayFits(sched[s].trigger, Advanced(sched[s], DueTime(s)).next)
                /\ DueTime(s) < Advanced(sched[s], DueTime(s)).next
                /\ sloop.now < Advanced(sched[s], DueTime(s)).next
<1>1. PICK row, due, n, g :
        /\ row = Advanced(sched[s], due) /\ due = DueTime(s) /\ g = sched[s].trigger
        /\ n = IF Recurring(g) THEN CalculatorNext(due, g) ELSE 0
  OBVIOUS
<1>2. /\ s \in Schedules /\ sched[s] \in SRow /\ sched[s].state = "live" /\ g \in STriggers
      /\ sched[s].rev \in Nat /\ sched[s].paused \in BOOLEAN /\ sched[s].next \in Nat /\ sloop.now \in Nat
  BY <1>1 DEF SInd, STyped, SRow, DueNow, Live, RowsFit
<1>3. /\ due \in Nat /\ sched[s].next <= due
      /\ Recurring(g) => \A t \in (sched[s].next + 1)..sloop.now : DayFits(g, t) => t <= due
  BY <1>1, DueTimeFits
<1>4. Recurring(g) => n \in Nat /\ due < n /\ DayFits(g, n) /\ sloop.now < n
  <2>1. SUFFICES ASSUME Recurring(g) PROVE n \in Nat /\ due < n /\ DayFits(g, n) /\ sloop.now < n
    OBVIOUS
  <2>2. n \in (due + 1)..(due + 7) /\ DayFits(g, n)
    BY <1>1, <1>2, <1>3, <2>1, CalculatorMoves
  <2> QED  BY <1>2, <1>3, <2>1, <2>2
<1>5. n \in Nat
  BY <1>1, <1>4
<1>6. row = SChanged(sched[s], sched[s].state, sched[s].paused, n, due)
  <2>1. row = [sched[s] EXCEPT !.last = due, !.rev = @ + 1, !.next = n]
    BY <1>1 DEF Advanced
  <2> QED  BY <1>2, <2>1 DEF SRow, SChanged
<1>7. row \in SRow /\ row.rev > sched[s].rev
  BY <1>2, <1>3, <1>5, <1>6, ChangedTyped
<1>8. row.state = "live" /\ row.trigger = g /\ row.profile = sched[s].profile /\ row.last = due
      /\ row.next = n
  BY <1>1, <1>2, <1>6 DEF SChanged
<1>9. sched' = [sched EXCEPT ![s] = Advanced(@, due)] => SWrites(s, row)
  <2>1. DOMAIN sched = Schedules
    BY DEF SInd, STyped
  <2> QED  BY <1>1, <1>2, <1>7, <2>1 DEF SWrites
<1> QED  BY <1>1, <1>2, <1>4, <1>8, <1>9

LEMMA MaterializeStep ==
    ASSUME SInd, NEW s \in Schedules, MaterializeNextDue(s)
    PROVE  SInd'
<1>0. s \in DueNow
  BY DEF MaterializeNextDue, FirstDue
<1>1. PICK due, row, o : /\ due = DueTime(s) /\ row = Advanced(sched[s], due)
                         /\ o = [sched |-> s, at |-> due, key |-> 0]
  OBVIOUS
<1>2. /\ occs' = occs \cup {o} /\ sched' = [sched EXCEPT ![s] = Advanced(@, due)]
      /\ default' = IF sched[s].profile = 0 THEN Resolved(0) ELSE default
      /\ sloop' = [sloop EXCEPT !.tries = 0]
      /\ UNCHANGED <<clock, receipts, profs, profRefs, edit, trig, edits>>
  BY <1>1 DEF MaterializeNextDue
<1>3. /\ due \in Nat /\ 1 <= due /\ sched[s].next <= due /\ due <= sloop.now /\ sloop.now <= clock
      /\ sloop.now \in Nat /\ clock \in Nat /\ sched[s].next \in Nat
  BY <1>0, <1>1, DueTimeFits DEF SInd, InThePast, STyped, SRow
<1>4. /\ SWrites(s, row) /\ row.state = "live" /\ row.trigger \in STriggers
      /\ row.trigger = sched[s].trigger /\ row.profile = sched[s].profile /\ row.last = due
      /\ Recurring(row.trigger) => DayFits(row.trigger, row.next) /\ due < row.next
  BY <1>0, <1>1, <1>2, AdvancedFits
<1>5. o \in SOcc /\ o.sched = s /\ o.key = 0 /\ o.at = due
  BY <1>1, <1>3 DEF SOcc
<1>6. /\ sched' \in [Schedules -> SRow] /\ RowsFit' /\ EditFits'
      /\ \A u \in Schedules : sched'[u].last <= clock
      /\ \A u \in Schedules : u # s => sched'[u] = sched[u]
      /\ sched'[s] = row
  <2>1. row.last <= clock /\ row.state # "none"
    BY <1>3, <1>4
  <2>2. occs \subseteq occs' /\ \A x \in occs' \ occs : x.sched = s \/ x.key # 0
    BY <1>2, <1>5
  <2> QED  BY <1>2, <1>4, <2>1, <2>2, WrittenRow
<1>7. default' \in SProfiles \cup {0} /\ DefaultFits'
  <2>1. default' \in {default, Converged(default, profs)}
    BY <1>2 DEF Resolved
  <2> QED  BY <1>2, <2>1, ConvergedFits DEF SInd, STyped, DefaultFits, Eligible
<1>8. sloop' \in [pc : {"idle", "draining", "stopped"}, now : Nat, tries : 0..(SRetries - 1)]
      /\ sloop'.now = sloop.now
  BY <1>2, SNumbers DEF SInd, STyped
<1>9. STyped'
  BY <1>2, <1>5, <1>6, <1>7, <1>8 DEF SInd, STyped
<1>10. InThePast'
  BY <1>2, <1>3, <1>5, <1>6, <1>8 DEF SInd, InThePast
<1>11. Live(s) /\ \A u \in Schedules : Live(u)' <=> Live(u)
  BY <1>0, <1>4, <1>6 DEF Live, DueNow
<1>12. RefsFit' /\ NamedProfileKept'
  <2>1. \A u \in Schedules : sched'[u].profile = sched[u].profile
    BY <1>4, <1>6
  <2>2. \A r \in profRefs : r[1] \in Schedules
    BY DEF SInd, STyped
  <2> QED  BY <1>2, <1>11, <2>1, <2>2 DEF SInd, RefsFit, NamedProfileKept
<1>13. CursorAhead'
  <2>1. ASSUME NEW u \in Schedules, Live(u)', Recurring(sched'[u].trigger)
        PROVE  /\ DayFits(sched'[u].trigger, sched'[u].next)
               /\ \A x \in occs' : x.sched = u /\ x.key = 0 => x.at < sched'[u].next
    <3>1. CASE u # s
      BY <1>2, <1>5, <1>6, <1>11, <2>1, <3>1 DEF SInd, CursorAhead, DayFits
    <3>2. CASE u = s
      <4>1. \A x \in occs : x.sched = s /\ x.key = 0 => x.at < sched[s].next
        BY <1>4, <1>6, <1>11, <2>1, <3>2 DEF SInd, CursorAhead
      <4>2. row.next \in Nat /\ \A x \in occs : x.at \in Nat
        BY <1>4 DEF SInd, STyped, SWrites, SRow, SOcc
      <4>3. \A x \in occs' : x.sched = s /\ x.key = 0 => x.at < row.next
        BY <1>2, <1>3, <1>4, <1>5, <1>6, <2>1, <3>2, <4>1, <4>2
      <4> QED  BY <1>4, <1>6, <2>1, <3>2, <4>3
    <3> QED  BY <3>1, <3>2
  <2> QED  BY <2>1 DEF CursorAhead, DayFits
<1>14. TrigFits'
  BY <1>2 DEF SInd, TrigFits
<1>15. OneTaskPerKey'
  <2>1. ASSUME NEW j \in SKeys PROVE {y \in occs' : y.key = j} = {y \in occs : y.key = j}
    BY <1>2, <1>5, SNumbers
  <2> QED  BY <1>2, <2>1 DEF SInd, OneTaskPerKey
<1> QED  BY <1>6, <1>7, <1>9, <1>10, <1>12, <1>13, <1>14, <1>15 DEF SInd

LEMMA SStep == SInd /\ [ScheduleNext]_scheduleVars => SInd'
<1> SUFFICES ASSUME SInd, [ScheduleNext]_scheduleVars PROVE SInd'
  OBVIOUS
<1>1. CASE UNCHANGED scheduleVars
  <2>1. UNCHANGED <<clock, sched, occs, receipts, profs, profRefs, default, sloop, edit, trig, edits>>
    BY <1>1 DEF scheduleVars
  <2>2. STyped' /\ InThePast' /\ EditFits' /\ TrigFits'
    BY <2>1 DEF SInd, STyped, InThePast, EditFits, TrigFits
  <2> QED  BY <2>1, <2>2, SReads
<1>2. CASE OwnerNext
  <2>1. ASSUME NEW s \in Schedules, SetPaused(s, TRUE) \/ SetPaused(s, FALSE) PROVE SInd'
    BY <2>1, PauseStep
  <2> QED  BY <1>2, <2>1, CreateScheduleStep, ReadForUpdateStep, UpdateScheduleStep,
              DeleteScheduleStep, TriggerReadStep, TriggerCommitStep DEF OwnerNext
<1>3. CASE LoopNext
  BY <1>3, LoopStep, MaterializeStep DEF LoopNext
<1> QED  BY <1>1, <1>2, <1>3, DayPassesStep, ProfileNextStep DEF ScheduleNext

LEMMA SInvariant == ScheduleSpec => []SInd
BY SStart, SStep, PTL DEF ScheduleSpec

(* Whatever updates were in flight while the loop fired, the cursor of a   *)
(* recurring schedule is ahead of every time it has fired for (a firing is *)
(* never repeated nor refused as a duplicate), a live schedule's profile   *)
(* is not deleted, and one key of trigger_now makes one task: for any      *)
(* schedules, profiles, keys and cron fields, at any time.                 *)
THEOREM SchedulesFireOnce == ScheduleSpec => []ScheduleInv
<1>1. SInd => ScheduleInv
  <2> SUFFICES ASSUME SInd PROVE ScheduleInv
    OBVIOUS
  <2>1. /\ clock \in SFirst..SLast /\ default \in SProfiles \cup {0}
        /\ default = 0 <=> Eligible(profs) = {}
        /\ sloop.pc \in {"idle", "draining", "stopped"} /\ sloop.tries \in 0..(SRetries - 1)
        /\ receipts \in [SKeys -> Schedules \cup {0}]
    BY DEF SInd, STyped, DefaultFits
  <2>2. ASSUME NEW s \in Schedules
        PROVE  /\ sched[s].state \in {"none", "live", "deleted"}
               /\ sched[s].state # "none" => sched[s].trigger \in STriggers
               /\ sched[s].next \in Nat /\ sched[s].last \in 0..clock /\ sched[s].rev \in Nat
               /\ sched[s].profile \in SProfiles \cup {0}
    <3>1. sched[s] \in SRow /\ sched[s].last <= clock /\ clock \in Nat
      BY DEF SInd, STyped, InThePast
    <3> QED  BY <3>1 DEF SRow, SInd, RowsFit
  <2>3. \A o \in occs : o.sched \in Schedules /\ o.at \in 1..clock /\ o.key \in SKeys \cup {0}
    BY DEF SInd, STyped, InThePast, SOcc
  <2>4. profRefs \subseteq {r \in Schedules \X SProfiles : Live(r[1])}
    BY DEF SInd, STyped, RefsFit
  <2>5. ScheduleTypeOK
    BY <2>1, <2>2, <2>3, <2>4 DEF ScheduleTypeOK
  <2> QED  BY <2>5 DEF SInd, ScheduleInv
<1> QED  BY <1>1, SInvariant, PTL

(* A schedule that fires at a tick is not due again at that tick: the loop *)
(* drains it, and missed times do not pile up, for any cron expression.    *)
THEOREM MissedTimesFireOnce == ScheduleSpec => FiringCatchesUp
<1> DEFINE CatchesUp == \A s \in Schedules :
             sched'[s].last # sched[s].last => sched'[s].next = 0 \/ sched'[s].next > sloop.now
<1>1. SInd /\ [ScheduleNext]_scheduleVars => [CatchesUp]_scheduleVars
  <2> SUFFICES ASSUME SInd, ScheduleNext, NEW s \in Schedules, sched'[s].last # sched[s].last
               PROVE  sched'[s].next = 0 \/ sched'[s].next > sloop.now
    OBVIOUS
  <2>0. sched \in [Schedules -> SRow]
    BY DEF SInd, STyped
  <2>1. ASSUME NEW u \in Schedules, MaterializeNextDue(u)
        PROVE  sched'[s].next = 0 \/ sched'[s].next > sloop.now
    <3>1. u \in DueNow /\ sched' = [sched EXCEPT ![u] = Advanced(@, DueTime(u))]
      BY <2>1 DEF MaterializeNextDue, FirstDue
    <3>2. s = u
      BY <2>0, <3>1
    <3>3. sched'[s] = Advanced(sched[s], DueTime(s))
      BY <2>0, <3>1, <3>2
    <3>4. sloop.now \in Nat /\ sched'[s].next \in Nat
      BY <2>1, MaterializeStep DEF SInd, STyped, SRow
    <3> QED  BY <3>1, <3>2, <3>3, <3>4, AdvancedFits
  <2>2. UpdateSchedule => FALSE
    <3>1. SUFFICES ASSUME UpdateSchedule PROVE FALSE
      OBVIOUS
    <3>2. PICK e : e = edit
      OBVIOUS
    <3>3. UpdateApplies(e) /\ e # NoEdit
      BY <3>1, <3>2 DEF UpdateSchedule
    <3>4. e.sched \in Schedules /\ e.row = sched[e.sched]
      BY <3>2, <3>3 DEF SInd, EditFits, UpdateApplies
    <3>5. PICK row : row = [e.row EXCEPT !.trigger = e.trigger, !.profile = e.profile,
                                         !.next = UpdatedCursor(sched[e.sched], e),
                                         !.rev = sched[e.sched].rev + 1]
      OBVIOUS
    <3>6. sched' = [sched EXCEPT ![e.sched] = row]
      BY <3>1, <3>2, <3>3, <3>5 DEF UpdateSchedule, WriteUpdate
    <3>7. row.last = sched[e.sched].last
      BY <2>0, <3>4, <3>5 DEF SRow
    <3> QED  BY <2>0, <3>4, <3>6, <3>7
  <2>3. ASSUME NEW u \in Schedules, NEW g \in STriggers, NEW p \in SProfiles \cup {0},
               CreateSchedule(u, g, p)
        PROVE  FALSE
    <3>1. sched[u].last = 0
      BY <2>3 DEF CreateSchedule, SInd, RowsFit, NoSchedule
    <3>2. sched'[u].last = 0 /\ (u # s => sched'[s] = sched[s])
      BY <2>0, <2>3 DEF CreateSchedule
    <3> QED  BY <3>1, <3>2
  <2>4. ASSUME NEW u \in Schedules, SetPaused(u, TRUE) \/ SetPaused(u, FALSE) \/ DeleteSchedule(u)
        PROVE  FALSE
    <3>1. PICK row : /\ sched' = [sched EXCEPT ![u] = row]
                     /\ \/ \E b \in BOOLEAN : row = [sched[u] EXCEPT !.paused = b, !.rev = @ + 1]
                        \/ row = [sched[u] EXCEPT !.state = "deleted", !.rev = @ + 1]
      BY <2>0, <2>4 DEF SetPaused, DeleteSchedule
    <3>2. sched[u] \in SRow
      BY <2>0
    <3>3. row.last = sched[u].last
      <4>1. ASSUME NEW b \in BOOLEAN, row = [sched[u] EXCEPT !.paused = b, !.rev = @ + 1]
            PROVE  row.last = sched[u].last
        BY <3>2, <4>1 DEF SRow
      <4>2. CASE row = [sched[u] EXCEPT !.state = "deleted", !.rev = @ + 1]
        BY <3>2, <4>2 DEF SRow
      <4> QED  BY <3>1, <4>1, <4>2
    <3> QED  BY <2>0, <3>1, <3>3
  <2>5. ~(UNCHANGED sched)
    OBVIOUS
  <2>6. CASE OwnerNext
    BY <2>2, <2>3, <2>4, <2>5, <2>6 DEF OwnerNext, ReadForUpdate, TriggerRead, TriggerCommit
  <2>7. CASE LoopNext
    BY <2>1, <2>5, <2>7 DEF LoopNext, Tick, NothingDue, RestartProcess, MaterializeFails
  <2>8. ~DayPasses /\ ~ProfileNext
    BY <2>5 DEF DayPasses, ProfileNext, CreateProfile, UpdateProfile, DeleteProfile, SyncProfiles, ProfilesBecome
  <2> QED  BY <2>6, <2>7, <2>8 DEF ScheduleNext
<1> QED  BY <1>1, SInvariant, PTL DEF ScheduleSpec, FiringCatchesUp

(***************************************************************************)
(* Conversation turns.                                                     *)
(***************************************************************************)
TurnStates == {"accepted", "running", "waiting_confirmation"} \cup Terminal
TurnDisps == {"", "dispatched", "completed", "uncertain"}
TurnPcs == {"idle", "claimed", "prepared", "asking", "backoff", "fallback", "recorded",
            "tools", "call", "run", "ran"}
TurnCodes == {"", "answer", "fallback", "turn_commit_failed", "run_failed",
              "model_dispatch_uncertain", "tool_dispatch_uncertain", "invalid_tool_result",
              "tool_prepare_failed"}
TurnRow == [state : TurnStates, owner : Supervisors \cup {Nobody}, live : BOOLEAN,
            cancel : BOOLEAN, rev : Nat \ {0}, disp : TurnDisps, started : BOOLEAN,
            count : Nat, code : TurnCodes, asked : Nat]
AttemptRow == [state : {"dispatched", "retryable", "ended"}, final : BOOLEAN]
CallRow == [tool : {"read", "local", "gated"}, state : {"pending", "dispatched", "terminal"},
            public : {"absent", "pending", "terminal"}]
GateRow == [state : {"none", "waiting", "dispatched", "ended"},
            task : {"none", "waiting_user", "queued", "running", "ended"}, slot : BOOLEAN]
RunnerRow == [pc : TurnPcs, call : {<<>>} \cup (Nat \X (Nat \ {0}))]
RunRow == [rev : Nat, conv : Nat, disp : TurnDisps, final : BOOLEAN, retried : BOOLEAN,
           mine : BOOLEAN]
BudgetRow == [max : Nat \ {0}, batches : SUBSET Seq({"read", "local", "gated"}),
              steers : Nat, stops : Nat, others : Nat]

LedgerTyped ==
    /\ attempts \in Seq(AttemptRow) /\ turn.count = Len(attempts)
    /\ finals \subseteq 1..turn.rev

OthersTyped ==
    /\ result \in {"none", "answer", "continue", "unusable", "tools"}
    /\ calls \in Seq(CallRow) /\ gate \in GateRow
    /\ runner \in [Supervisors -> RunnerRow] /\ run \in RunRow
    /\ conv \in Nat /\ steers \in [count : Nat, rev : Nat]
    /\ effects \subseteq Nat \X Nat /\ budget \in BudgetRow

TurnTyped == turn \in TurnRow /\ LedgerTyped /\ OthersTyped

TurnOver == turn.state \in Terminal

(* Only a running turn is leased, and not once its cancel was requested.   *)
LeaseFits ==
    /\ turn.owner # Nobody => turn.state = "running"
    /\ turn.cancel /\ ~TurnOver => turn.state \in {"accepted", "running"} /\ turn.owner = Nobody

FinalAttempts == {i \in DOMAIN attempts : attempts[i].final}
OrdinaryAttempts == {i \in DOMAIN attempts : ~attempts[i].final}

(* Only a result with tools has calls, and a gated call is never marked as *)
(* dispatched: its own attempt is.                                         *)
ResultFits ==
    /\ result # "tools" => calls = <<>>
    /\ \A i \in DOMAIN calls : calls[i].tool # "read" => calls[i].state # "dispatched"

(* The gated attempt and its task go together; the turn of one whose       *)
(* result is not yet its call's has no lease and keeps that call public.   *)
GateColumns ==
    /\ gate.slot <=> gate.task = "running"
    /\ gate.state = "none" => gate.task = "none"
    /\ gate.state = "waiting" => gate.task \in {"waiting_user", "queued", "running"}
    /\ gate.state = "dispatched" => gate.task = "running"
    /\ gate.state = "ended" => gate.task = "ended"
GateFits ==
    /\ gate.state \in {"waiting", "dispatched"} => turn.state = "waiting_confirmation"
    /\ gate.state # "none" /\ ~TurnOver =>
          /\ turn.state \in {"accepted", "waiting_confirmation"}
          /\ turn.disp = "completed" /\ Open # {}
          /\ calls[Current].tool # "read" /\ calls[Current].public = "pending"

(* A dispatch under way, and a result without calls, was asked for after   *)
(* the last steer.                                                         *)
AskedInTime ==
    /\ steers.rev <= turn.rev
    /\ ~TurnOver /\ turn.disp = "dispatched" => turn.asked >= steers.rev
    /\ ~TurnOver /\ turn.disp = "completed" /\ calls = <<>> => turn.asked >= steers.rev

PastEffects == \A x \in effects : x[1] <= turn.count

(* A supervisor about to run a tool is the only one to run that call, now  *)
(* and before.                                                             *)
RunnersApart ==
    \A e \in Supervisors : runner[e].pc = "run" =>
        /\ runner[e].call # <<>> /\ runner[e].call \notin effects
        /\ runner[e].call[1] <= turn.count
        /\ \A f \in Supervisors : f # e /\ runner[f].pc = "run" => runner[f].call # runner[e].call

(* No tool call of an attempt that has no result was run or can be.        *)
NoEarlyCall ==
    ~TurnOver /\ turn.disp = "dispatched" =>
        /\ \A x \in effects : x[1] = turn.count => x[2] = 0
        /\ \A e \in Supervisors : runner[e].pc = "run" => runner[e].call[1] # turn.count

(* A pending call was not run, unless by the gated attempt, and nobody is  *)
(* about to run it.                                                        *)
GateRan == gate.state \in {"dispatched", "ended"}
PendingUntouched ==
    ~TurnOver /\ turn.disp = "completed" =>
        \A i \in DOMAIN calls : calls[i].state = "pending" =>
            /\ <<turn.count, i>> \in effects => GateRan /\ i = Current
            /\ \A e \in Supervisors : runner[e].pc = "run" => runner[e].call # <<turn.count, i>>

(* What the holder of the lease knows of the turn at its place in          *)
(* executeTurn.                                                            *)
HolderAt(pc) ==
    /\ pc \in {"prepared", "asking", "backoff"} => turn.disp = "dispatched"
    /\ pc = "prepared" => <<turn.count, 0>> \notin effects
    /\ pc \in {"prepared", "asking"} /\ run.final /\ ~run.retried
          => FinalAttempts = {turn.count}
    /\ pc = "backoff" => run.retried /\ (run.final => FinalAttempts = {turn.count})
    /\ pc \in {"recorded", "tools", "call", "run", "ran"} => turn.disp = "completed"
    /\ pc = "call" => Open # {} /\ calls[Current].public = "pending"
HolderFits == \A e \in Supervisors : Holds(e) => HolderAt(runner[e].pc)

EffectsFit == PastEffects /\ RunnersApart /\ NoEarlyCall /\ PendingUntouched
LedgerFits == DispatchLedger /\ DispatchBudget
EndsFit == TranscriptExact /\ LogClosesOnce

TurnInd ==
    /\ TurnTyped /\ LeaseFits /\ LedgerFits /\ EndsFit /\ ResultFits
    /\ GateColumns /\ GateFits /\ AskedInTime /\ GuidanceHeard /\ EffectsFit /\ HolderFits
    /\ TurnEffectsOnce

(* The current call is the first open one.                                 *)
LEMMA CurrentIsOpen ==
    ASSUME calls \in Seq(CallRow), Open # {}
    PROVE  Current \in Open /\ \A j \in Open : Current <= j
<1>1. Open \subseteq Nat
  BY DEF Open
<1>2. \E i \in Open : \A j \in Open : i <= j
  BY <1>1, LeastOf
<1> QED  BY <1>2 DEF Current

LEMMA CurrentKept ==
    ASSUME Open' = Open PROVE Current' = Current
BY DEF Current

LEMMA OpenKept ==
    ASSUME calls' = calls PROVE Open' = Open /\ Current' = Current
<1>1. Open' = Open
  BY DEF Open
<1> QED  BY <1>1, CurrentKept

(* Whether the lease has run out, the conversation's revision and the      *)
(* bounds are nothing the invariant rests on.                              *)
LEMMA AccountStays ==
    ASSUME TurnInd, turn' \in TurnRow, turn'.state = turn.state, turn'.owner = turn.owner,
           turn'.cancel = turn.cancel, turn'.rev = turn.rev, turn'.disp = turn.disp,
           turn'.started = turn.started, turn'.count = turn.count, turn'.code = turn.code,
           turn'.asked = turn.asked, conv' \in Nat, budget' \in BudgetRow,
           budget'.max = budget.max,
           UNCHANGED <<attempts, finals, result, calls, gate, runner, run, said, log, steers,
                       effects, repeated>>
    PROVE  TurnInd'
<1>1. Open' = Open /\ Current' = Current
  BY OpenKept
<1>2. TurnTyped'
  BY DEF TurnInd, TurnTyped, LedgerTyped, OthersTyped
<1>3. /\ LeaseFits' /\ LedgerFits' /\ EndsFit' /\ ResultFits' /\ GateColumns' /\ AskedInTime'
      /\ GuidanceHeard' /\ TurnEffectsOnce'
  BY DEF TurnInd, LeaseFits, LedgerFits, EndsFit, ResultFits, GateColumns, AskedInTime,
         GuidanceHeard, TurnEffectsOnce, TurnOver, DispatchLedger, DispatchBudget,
         TranscriptExact, LogClosesOnce
<1>4. GateFits'
  BY <1>1 DEF TurnInd, GateFits, TurnOver
<1>5. EffectsFit'
  BY <1>1 DEF TurnInd, EffectsFit, PastEffects, RunnersApart, NoEarlyCall, PendingUntouched,
              TurnOver, GateRan
<1>6. ASSUME NEW f \in Supervisors, Holds(f)', NEW pc, pc = runner'[f].pc PROVE HolderAt(pc)'
  <2>1. HolderAt(pc)
    BY <1>6 DEF TurnInd, HolderFits, Holds
  <2>2. FinalAttempts' = FinalAttempts
    BY DEF FinalAttempts
  <2> QED  BY <2>1, <2>2, <1>1 DEF HolderAt
<1>7. HolderFits'
  BY <1>6 DEF HolderFits
<1> QED  BY <1>2, <1>3, <1>4, <1>5, <1>7 DEF TurnInd

LEMMA TurnStutters ==
    ASSUME TurnInd, UNCHANGED turnVars PROVE TurnInd'
<1>1. /\ turn' = turn /\ conv' = conv /\ budget' = budget
      /\ UNCHANGED <<attempts, finals, result, calls, gate, runner, run, said, log, steers,
                     effects, repeated>>
  BY DEF turnVars
<1>2. turn \in TurnRow /\ conv \in Nat /\ budget \in BudgetRow
  BY DEF TurnInd, TurnTyped, OthersTyped
<1> QED  BY <1>1, <1>2, AccountStays

(* A step of one supervisor that only moves itself: the turn and all it    *)
(* rests on stay.                                                          *)
LEMMA OnlyMoves ==
    ASSUME TurnInd, NEW e \in Supervisors, NEW r \in RunnerRow, r.pc # "run",
           runner' = [runner EXCEPT ![e] = r], run' \in RunRow, ~Holds(e) => run' = run,
           UNCHANGED <<turn, attempts, finals, result, calls, gate, conv, said, log, steers,
                       effects, repeated>>,
           budget' \in BudgetRow, budget'.max = budget.max,
           Holds(e) => HolderAt(r.pc)'
    PROVE  TurnInd'
<1>0. TurnTyped /\ Nobody \notin Supervisors
  BY TurnAssumption DEF TurnInd
<1>1. TurnTyped'
  BY <1>0 DEF TurnTyped, LedgerTyped, OthersTyped
<1>2. Open' = Open /\ Current' = Current
  BY OpenKept
<1>3. /\ LeaseFits' /\ LedgerFits' /\ EndsFit' /\ ResultFits' /\ GateColumns' /\ AskedInTime'
      /\ GuidanceHeard' /\ TurnEffectsOnce'
  BY DEF TurnInd, LeaseFits, LedgerFits, EndsFit, ResultFits, GateColumns, AskedInTime,
         GuidanceHeard, TurnEffectsOnce, TurnOver, DispatchLedger, DispatchBudget,
         TranscriptExact, LogClosesOnce
<1>4. GateFits'
  BY <1>2 DEF TurnInd, GateFits, TurnOver
<1>5. \A f \in Supervisors : runner'[f].pc = "run" =>
          runner[f].pc = "run" /\ runner'[f] = runner[f]
  BY <1>0 DEF TurnTyped, OthersTyped
<1>6. PastEffects'
  BY DEF TurnInd, EffectsFit, PastEffects
<1>7. RunnersApart'
  BY <1>5 DEF TurnInd, EffectsFit, RunnersApart
<1>8. NoEarlyCall'
  BY <1>5 DEF TurnInd, EffectsFit, NoEarlyCall, TurnOver
<1>9. PendingUntouched'
  BY <1>2, <1>5 DEF TurnInd, EffectsFit, PendingUntouched, TurnOver, GateRan
<1>10. ASSUME NEW f \in Supervisors, Holds(f)', NEW pc, pc = runner'[f].pc PROVE HolderAt(pc)'
  <2>1. Holds(f)
    BY <1>10 DEF Holds
  <2>2. CASE f = e
    <3>1. pc = r.pc
      BY <1>10, <2>2, <1>0 DEF TurnTyped, OthersTyped
    <3> QED  BY <3>1, <2>1, <2>2
  <2>3. CASE f # e
    <3>1. ~Holds(e)
      BY <2>1, <2>3 DEF Holds
    <3>2. HolderAt(pc)
      BY <1>10, <2>1, <2>3, <1>0 DEF TurnInd, HolderFits, TurnTyped, OthersTyped
    <3>3. FinalAttempts' = FinalAttempts
      BY DEF FinalAttempts
    <3> QED  BY <3>1, <3>2, <3>3, <1>2 DEF HolderAt
  <2> QED  BY <2>2, <2>3
<1>11. HolderFits'
  BY <1>10 DEF HolderFits
<1> QED  BY <1>1, <1>3, <1>4, <1>6, <1>7, <1>8, <1>9, <1>11 DEF TurnInd, EffectsFit

(* The step of a run that ends, holding the lease or not.                  *)
LEMMA OnlyReturns ==
    ASSUME TurnInd, NEW e \in Supervisors, Returns(e),
           UNCHANGED <<turn, attempts, finals, result, calls, gate, conv, said, log, steers,
                       effects, repeated>>,
           budget' \in BudgetRow, budget'.max = budget.max
    PROVE  TurnInd'
<1>1. Idle \in RunnerRow /\ Idle.pc = "idle" /\ NoRun \in RunRow
  BY DEF Idle, RunnerRow, TurnPcs, NoRun, RunRow, TurnDisps
<1>2. run \in RunRow
  BY DEF TurnInd, TurnTyped, OthersTyped
<1>3. HolderAt("idle")'
  BY DEF HolderAt
<1> QED  BY <1>1, <1>2, <1>3, OnlyMoves DEF Returns

(* The step of a run that goes on.                                         *)
LEMMA OnlyGoes ==
    ASSUME TurnInd, NEW e \in Supervisors, NEW pc \in TurnPcs \ {"run"}, Goes(e, pc),
           UNCHANGED <<turn, attempts, finals, result, calls, gate, conv, said, log, steers,
                       effects, repeated, budget>>,
           Holds(e) => HolderAt(pc)'
    PROVE  TurnInd'
<1>0. TurnTyped
  BY DEF TurnInd
<1> DEFINE r == [runner[e] EXCEPT !.pc = pc]
<1>1. r \in RunnerRow /\ r.pc = pc
  BY <1>0 DEF TurnTyped, OthersTyped, RunnerRow
<1>2. runner' = [runner EXCEPT ![e] = r]
  BY <1>0 DEF TurnTyped, OthersTyped, Goes
<1> HIDE DEF r
<1> QED  BY <1>0, <1>1, <1>2, OnlyMoves DEF Goes, TurnTyped, OthersTyped

(* Before the turn ends its log is open.                                   *)
LEMMA LogOpen ==
    ASSUME EndsFit, ~TurnOver PROVE log.ends = 0 /\ ~log.late
BY DEF EndsFit, LogClosesOnce, TurnOver

LEMMA LogsKept ==
    ASSUME log.ends = 0, ~log.late, NEW kind, kind # "end", Logs(kind)
    PROVE  log'.ends = 0 /\ ~log'.late
<1>1. log'.ends = log.ends + 0 /\ (log'.late <=> log.late \/ log.ends > 0)
  BY DEF Logs
<1> QED  BY <1>1

LEMMA LogsEnd ==
    ASSUME log.ends = 0, ~log.late, Logs("end")
    PROVE  log'.ends = 1 /\ ~log'.late
<1>1. log'.ends = log.ends + 1 /\ (log'.late <=> log.late \/ log.ends > 0)
  BY DEF Logs
<1> QED  BY <1>1

LEMMA EmptyHasNone ==
    ASSUME NEW S, NEW s \in Seq(S), Len(s) = 0 PROVE DOMAIN s = {}
<1>1. DOMAIN s = 1..Len(s)
  OBVIOUS
<1>2. 1..0 = {}
  OBVIOUS
<1> QED  BY <1>1, <1>2

(* The end of a turn: with its lease gone and its gated attempt, if any,   *)
(* over, only what it leaves behind is left to see.                        *)
LEMMA TurnEnds ==
    ASSUME TurnInd, ~TurnOver, turn' \in TurnRow, turn'.state \in Terminal,
           turn'.owner = Nobody, turn'.rev = turn.rev + 1, turn'.count = turn.count,
           turn'.code = "answer" /\ turn'.state = "completed" => turn'.asked >= steers.rev,
           OthersTyped', ResultFits', GateColumns',
           gate'.state \notin {"waiting", "dispatched"},
           \A f \in Supervisors : runner'[f].pc = "run" => runner'[f] = runner[f],
           TranscriptExact', log'.ends = 1, ~log'.late,
           UNCHANGED <<attempts, finals, steers, effects, repeated>>, budget'.max = budget.max
    PROVE  TurnInd'
<1>0. TurnTyped /\ Nobody \notin Supervisors
  BY TurnAssumption DEF TurnInd
<1>1. TurnTyped'
  <2>1. LedgerTyped'
    BY <1>0 DEF TurnTyped, LedgerTyped, TurnRow
  <2> QED  BY <2>1 DEF TurnTyped
<1>2. TurnOver'
  BY DEF TurnOver
<1>3. LeaseFits' /\ GateFits'
  BY <1>2 DEF LeaseFits, GateFits
<1>4. DispatchLedger' /\ DispatchBudget'
  BY <1>2 DEF TurnInd, LedgerFits, DispatchLedger, DispatchBudget, TurnOver
<1>5. LogClosesOnce'
  BY <1>2 DEF LogClosesOnce, TurnOver
<1>6. AskedInTime'
  BY <1>0, <1>2 DEF TurnInd, AskedInTime, TurnTyped, OthersTyped, TurnRow
<1>7. GuidanceHeard' /\ TurnEffectsOnce'
  BY DEF TurnInd, GuidanceHeard, TurnEffectsOnce
<1>8. PastEffects' /\ NoEarlyCall' /\ PendingUntouched'
  BY <1>2 DEF TurnInd, EffectsFit, PastEffects, NoEarlyCall, PendingUntouched
<1>9. RunnersApart'
  BY DEF TurnInd, EffectsFit, RunnersApart
<1>10. HolderFits'
  BY <1>0 DEF HolderFits, Holds
<1> QED  BY <1>1, <1>3, <1>4, <1>5, <1>6, <1>7, <1>8, <1>9, <1>10
         DEF TurnInd, EffectsFit, LedgerFits, EndsFit

(* The turn is given back for another round: no lease, no dispatch and no  *)
(* result; its attempts are all over.                                      *)
LEMMA TurnGivenBack ==
    ASSUME TurnInd, ~TurnOver, ~turn.cancel, turn' \in TurnRow, turn'.state = "accepted",
           turn'.owner = Nobody, turn'.rev \in {turn.rev, turn.rev + 1},
           turn'.count = turn.count, turn'.disp = "", turn'.cancel = turn.cancel,
           LedgerTyped', \A i \in DOMAIN attempts' : attempts'[i].state # "dispatched",
           DOMAIN attempts' = DOMAIN attempts,
           \A i \in DOMAIN attempts : attempts'[i].final = attempts[i].final,
           OthersTyped', ResultFits', gate' = NoGate,
           \A f \in Supervisors : runner'[f].pc = "run" => runner'[f] = runner[f],
           log'.ends = 0, ~log'.late,
           steers'.rev <= turn'.rev,
           UNCHANGED <<said, effects, repeated>>, budget'.max = budget.max
    PROVE  TurnInd'
<1>0. TurnTyped /\ Nobody \notin Supervisors
  BY TurnAssumption DEF TurnInd
<1>1. TurnTyped'
  BY DEF TurnTyped
<1>2. ~TurnOver'
  BY DEF TurnOver, Terminal
<1>3. LeaseFits' /\ GateFits' /\ GateColumns'
  BY <1>2 DEF LeaseFits, GateFits, GateColumns, NoGate
<1>4. DispatchLedger'
  BY DEF DispatchLedger
<1>5. DispatchBudget'
  <2>1. /\ {i \in DOMAIN attempts' : attempts'[i].final} = {i \in DOMAIN attempts : attempts[i].final}
        /\ {i \in DOMAIN attempts' : ~attempts'[i].final} = {i \in DOMAIN attempts : ~attempts[i].final}
    OBVIOUS
  <2> QED  BY <2>1 DEF TurnInd, LedgerFits, DispatchBudget
<1>6. EndsFit'
  <2>1. TranscriptExact'
    BY DEF TurnInd, EndsFit, TranscriptExact, TurnOver, Terminal
  <2> QED  BY <2>1, <1>2 DEF EndsFit, LogClosesOnce, TurnOver
<1>7. AskedInTime' /\ GuidanceHeard' /\ TurnEffectsOnce'
  <2>2. AskedInTime'
    BY DEF AskedInTime
  <2>3. GuidanceHeard' /\ TurnEffectsOnce'
    BY DEF TurnInd, GuidanceHeard, TurnEffectsOnce
  <2> QED  BY <2>2, <2>3
<1>8. PastEffects' /\ NoEarlyCall' /\ PendingUntouched'
  BY DEF TurnInd, EffectsFit, PastEffects, NoEarlyCall, PendingUntouched
<1>9. RunnersApart'
  BY DEF TurnInd, EffectsFit, RunnersApart
<1>10. HolderFits'
  BY <1>0 DEF HolderFits, Holds
<1> QED  BY <1>1, <1>3, <1>4, <1>5, <1>6, <1>7, <1>8, <1>9, <1>10
         DEF TurnInd, EffectsFit, LedgerFits

(* What a cleared result leaves.                                           *)
LEMMA NoCallsTyped == <<>> \in Seq(CallRow)
OBVIOUS

LEMMA ClearedFits ==
    ASSUME ResultCleared
    PROVE  /\ ResultFits' /\ calls' \in Seq(CallRow) /\ DOMAIN calls' = {}
           /\ result' \in {"none", "answer", "continue", "unusable", "tools"}
<1>1. calls' = <<>> /\ result' = "none"
  BY DEF ResultCleared
<1>2. calls' \in Seq(CallRow)
  BY <1>1, NoCallsTyped
<1>3. Len(calls') = 0
  BY <1>1
<1>4. DOMAIN calls' = {}
  BY <1>2, <1>3, EmptyHasNone
<1> QED  BY <1>1, <1>2, <1>4 DEF ResultFits

(* What the holder of the lease may rely on.                               *)
LEMMA HolderFacts ==
    ASSUME TurnInd, NEW e \in Supervisors, Holds(e)
    PROVE  /\ ~TurnOver /\ ~turn.cancel /\ gate = NoGate /\ gate.state = "none"
           /\ turn.owner = e /\ turn.state = "running"
           /\ log.ends = 0 /\ ~log.late
           /\ HolderAt(runner[e].pc)
           /\ \A f \in Supervisors : f # e => ~Holds(f)
<1>1. turn.owner = e /\ turn.state = "running" /\ turn.owner # Nobody
  BY TurnAssumption DEF Holds
<1>2. ~TurnOver
  BY <1>1 DEF TurnOver, Terminal
<1>3. ~turn.cancel
  BY <1>1, <1>2 DEF TurnInd, LeaseFits
<1>4. gate \in GateRow
  BY DEF TurnInd, TurnTyped, OthersTyped
<1>5. gate.state = "none"
  BY <1>1, <1>2 DEF TurnInd, GateFits
<1>6. gate.task = "none" /\ gate.slot = FALSE
  BY <1>4, <1>5 DEF TurnInd, GateColumns, GateRow
<1>7. gate = NoGate
  BY <1>4, <1>5, <1>6 DEF GateRow, NoGate
<1>8. HolderAt(runner[e].pc)
  BY DEF TurnInd, HolderFits
<1>9. log.ends = 0 /\ ~log.late
  BY <1>2, LogOpen DEF TurnInd
<1>10. \A f \in Supervisors : f # e => ~Holds(f)
  BY <1>1 DEF Holds
<1> QED  BY <1>1, <1>2, <1>3, <1>5, <1>7, <1>8, <1>9, <1>10

(* The supervisor that returns leaves no call behind.                      *)
LEMMA ReturnsTyped ==
    ASSUME OthersTyped, NEW e \in Supervisors, Returns(e)
    PROVE  /\ runner' \in [Supervisors -> RunnerRow] /\ run' \in RunRow
           /\ \A f \in Supervisors : runner'[f].pc = "run" => runner'[f] = runner[f]
<1>1. Idle \in RunnerRow /\ Idle.pc = "idle" /\ NoRun \in RunRow
  BY DEF Idle, RunnerRow, TurnPcs, NoRun, RunRow, TurnDisps
<1>2. runner' = [runner EXCEPT ![e] = Idle] /\ run' \in {run, NoRun}
  BY DEF Returns
<1> QED  BY <1>1, <1>2 DEF OthersTyped

RowWith(s, o, l, x, r, d, b, n, c, a) ==
    [state |-> s, owner |-> o, live |-> l, cancel |-> x, rev |-> r, disp |-> d,
     started |-> b, count |-> n, code |-> c, asked |-> a]

LEMMA RowFields ==
    ASSUME NEW t \in TurnRow
    PROVE  /\ t.state \in TurnStates /\ t.owner \in Supervisors \cup {Nobody}
           /\ t.live \in BOOLEAN /\ t.cancel \in BOOLEAN /\ t.rev \in Nat \ {0}
           /\ t.rev + 1 \in Nat \ {0}
           /\ t.disp \in TurnDisps /\ t.started \in BOOLEAN /\ t.count \in Nat
           /\ t.code \in TurnCodes /\ t.asked \in Nat
BY DEF TurnRow

EndedRow(t, s, c) == Released([t EXCEPT !.state = s, !.rev = @ + 1, !.code = c])
LEMMA RowEnds ==
    ASSUME NEW t \in TurnRow, NEW s \in Terminal, NEW c \in TurnCodes,
           NEW u, u = EndedRow(t, s, c)
    PROVE  /\ u \in TurnRow /\ u.state = s /\ u.owner = Nobody /\ u.rev = t.rev + 1
           /\ u.count = t.count /\ u.code = c /\ u.asked = t.asked
<1>1. u = [state |-> s, owner |-> Nobody, live |-> FALSE, cancel |-> t.cancel, rev |-> t.rev + 1,
           disp |-> t.disp, started |-> t.started, count |-> t.count, code |-> c,
           asked |-> t.asked]
  BY DEF Released, TurnRow, EndedRow
<1>2. s \in TurnStates
  BY DEF TurnStates
<1>3. t.rev \in Nat /\ t.rev + 1 \in Nat \ {0}
  BY DEF TurnRow
<1>4. /\ t.cancel \in BOOLEAN /\ t.disp \in TurnDisps /\ t.started \in BOOLEAN
      /\ t.count \in Nat /\ t.asked \in Nat
  BY DEF TurnRow
<1>5. [state |-> s, owner |-> Nobody, live |-> FALSE, cancel |-> t.cancel, rev |-> t.rev + 1,
       disp |-> t.disp, started |-> t.started, count |-> t.count, code |-> c,
       asked |-> t.asked] \in TurnRow
  BY <1>2, <1>3, <1>4 DEF TurnRow
<1>6. u \in TurnRow
  BY <1>1, <1>5, Zenon
<1>7. /\ u.state = s /\ u.owner = Nobody /\ u.rev = t.rev + 1
      /\ u.count = t.count /\ u.code = c /\ u.asked = t.asked
  BY DEF TurnRow, Released, EndedRow
<1> QED  BY <1>6, <1>7

LEMMA SaidAdds ==
    ASSUME NEW m \in [user : Nat, steer : Nat, assistant : Nat, failed : Nat], NEW n \in Nat,
           m.steer = 0, m.assistant = 0, m.failed = 0, NEW q
    PROVE  /\ q = [m EXCEPT !.user = 1, !.failed = @ + 1]
                => q = [user |-> 1, steer |-> 0, assistant |-> 0, failed |-> 1]
           /\ q = [m EXCEPT !.user = 1, !.steer = n, !.assistant = @ + 1]
                => q = [user |-> 1, steer |-> n, assistant |-> 1, failed |-> 0]
<1>1. ASSUME q = [m EXCEPT !.user = 1, !.failed = @ + 1]
      PROVE  q = [user |-> 1, steer |-> 0, assistant |-> 0, failed |-> 1]
  <2>1. q = [user |-> 1, steer |-> m.steer, assistant |-> m.assistant, failed |-> m.failed + 1]
    BY <1>1
  <2> QED  BY <2>1
<1>2. ASSUME q = [m EXCEPT !.user = 1, !.steer = n, !.assistant = @ + 1]
      PROVE  q = [user |-> 1, steer |-> n, assistant |-> 1, failed |-> 0]
  <2>1. q = [user |-> 1, steer |-> n, assistant |-> m.assistant + 1, failed |-> m.failed]
    BY <1>2
  <2> QED  BY <2>1
<1> QED  BY <1>1, <1>2

(* FailTurn, whether its caller holds the lease or not.                    *)
LEMMA FailTurnKeeps ==
    ASSUME TurnInd, NEW e \in Supervisors, NEW c \in TurnCodes \ {"answer"}, FailTurn(e, c),
           UNCHANGED <<attempts, finals, result, calls, gate, steers, effects, repeated, budget>>
    PROVE  TurnInd'
<1>0. TurnTyped
  BY DEF TurnInd
<1>1. CASE ~Holds(e)
  BY <1>0, <1>1, OnlyReturns DEF FailTurn, TurnTyped, OthersTyped
<1>2. CASE Holds(e)
  <2>0. /\ turn' = Released([turn EXCEPT !.state = "failed", !.rev = @ + 1, !.code = c])
        /\ failedTurnTranscriptTx /\ Logs("end") /\ Returns(e)
    BY <1>2 DEF FailTurn
  <2>1. /\ turn' \in TurnRow /\ turn'.state = "failed" /\ turn'.owner = Nobody
        /\ turn'.rev = turn.rev + 1 /\ turn'.count = turn.count
    <3>1. "failed" \in Terminal /\ turn \in TurnRow /\ c \in TurnCodes
      BY <1>0 DEF Terminal, TurnTyped
    <3>2. turn' = EndedRow(turn, "failed", c)
      BY <2>0 DEF EndedRow
    <3> QED  BY <3>1, <3>2, RowEnds
  <2>2. OthersTyped'
    BY <2>0, <1>0, ReturnsTyped DEF TurnTyped, OthersTyped, failedTurnTranscriptTx
  <2>3. ResultFits' /\ GateColumns'
    BY DEF TurnInd, ResultFits, GateColumns
  <2>4. log'.ends = 1 /\ ~log'.late
    BY <1>2, <2>0, HolderFacts, LogsEnd
  <2>5. TranscriptExact'
    <3>1. /\ said \in [user : Nat, steer : Nat, assistant : Nat, failed : Nat]
          /\ said.steer = 0 /\ said.assistant = 0 /\ said.failed = 0
      BY <1>2 DEF TurnInd, EndsFit, TranscriptExact, Holds
    <3>0. steers.count \in Nat
      BY <1>0 DEF TurnTyped, OthersTyped
    <3>2. said' = [user |-> 1, steer |-> 0, assistant |-> 0, failed |-> 1]
      BY <3>0, <3>1, <2>0, SaidAdds DEF failedTurnTranscriptTx
    <3> QED  BY <3>2, <2>1 DEF TranscriptExact
  <2>6. gate'.state \notin {"waiting", "dispatched"} /\ ~TurnOver
    BY <1>2, HolderFacts
  <2>7. turn'.state \in Terminal
    BY <2>1 DEF Terminal
  <2> QED  BY <2>0, <2>1, <2>2, <2>3, <2>4, <2>5, <2>6, <2>7, <1>0, ReturnsTyped, TurnEnds DEF TurnTyped
<1> QED  BY <1>1, <1>2

(* CommitTurn: an answer was asked for after the last steer.               *)
LEMMA CommitTurnKeeps ==
    ASSUME TurnInd, NEW e \in Supervisors, NEW c \in {"answer", "fallback"}, CommitTurn(e, c),
           c = "answer" => turn.asked >= steers.rev,
           UNCHANGED <<attempts, finals, result, calls, gate, steers, effects, repeated, budget>>
    PROVE  TurnInd'
<1>0. TurnTyped
  BY DEF TurnInd
<1>1. CASE ~(Holds(e) /\ conv = run.conv)
  <2>1. "turn_commit_failed" \in TurnCodes \ {"answer"}
    BY DEF TurnCodes
  <2> QED  BY <1>1, <2>1, FailTurnKeeps DEF CommitTurn
<1>2. CASE Holds(e) /\ conv = run.conv
  <2>0. /\ turn' = Released([turn EXCEPT !.state = "completed", !.rev = @ + 1, !.code = c])
        /\ conv' = conv + 1 /\ Logs("end") /\ Returns(e)
        /\ said' = [said EXCEPT !.user = 1, !.steer = steers.count, !.assistant = @ + 1]
    BY <1>2 DEF CommitTurn
  <2>1. /\ turn' \in TurnRow /\ turn'.state = "completed" /\ turn'.owner = Nobody
        /\ turn'.rev = turn.rev + 1 /\ turn'.count = turn.count /\ turn'.code = c
        /\ turn'.asked = turn.asked
    <3>1. "completed" \in Terminal /\ turn \in TurnRow /\ c \in TurnCodes
      BY <1>0 DEF Terminal, TurnTyped, TurnCodes
    <3>2. turn' = EndedRow(turn, "completed", c)
      BY <2>0 DEF EndedRow
    <3> QED  BY <3>1, <3>2, RowEnds
  <2>2. OthersTyped'
    BY <2>0, <1>0, ReturnsTyped DEF TurnTyped, OthersTyped
  <2>3. ResultFits' /\ GateColumns'
    BY DEF TurnInd, ResultFits, GateColumns
  <2>4. log'.ends = 1 /\ ~log'.late
    BY <1>2, <2>0, HolderFacts, LogsEnd
  <2>5. TranscriptExact'
    <3>1. /\ said \in [user : Nat, steer : Nat, assistant : Nat, failed : Nat]
          /\ said.steer = 0 /\ said.assistant = 0 /\ said.failed = 0
      BY <1>2 DEF TurnInd, EndsFit, TranscriptExact, Holds
    <3>0. steers.count \in Nat
      BY <1>0 DEF TurnTyped, OthersTyped
    <3>2. said' = [user |-> 1, steer |-> steers.count, assistant |-> 1, failed |-> 0]
      BY <3>0, <3>1, <2>0, SaidAdds
    <3> QED  BY <3>2, <2>1 DEF TranscriptExact
  <2>6. gate'.state \notin {"waiting", "dispatched"} /\ ~TurnOver
    BY <1>2, HolderFacts
  <2>7. turn'.state \in Terminal
    BY <2>1 DEF Terminal
  <2> QED  BY <2>0, <2>1, <2>2, <2>3, <2>4, <2>5, <2>6, <2>7, <1>0, ReturnsTyped, TurnEnds DEF TurnTyped
<1> QED  BY <1>1, <1>2

(* MarkTurnCanceledRequested, by a supervisor that returns or is idle.     *)
LEMMA CancelKeeps ==
    ASSUME TurnInd, NEW e \in Supervisors, MarkTurnCanceledRequested,
           Returns(e) \/ UNCHANGED <<runner, run>>,
           turn.cancel,
           UNCHANGED <<attempts, finals, result, calls, gate, conv, said, steers, effects,
                       repeated, budget>>
    PROVE  TurnInd'
<1>0. TurnTyped
  BY DEF TurnInd
<1>1. CASE ~(turn.state \in {"accepted", "running"} /\ turn.owner = Nobody)
  <2>1. turn' = turn /\ log' = log
    BY <1>1 DEF MarkTurnCanceledRequested
  <2>2. CASE Returns(e)
    BY <2>1, <2>2, <1>0, OnlyReturns DEF TurnTyped, OthersTyped
  <2>3. CASE UNCHANGED <<runner, run>>
    BY <2>1, <2>3, TurnStutters DEF turnVars
  <2> QED  BY <2>2, <2>3
<1>2. CASE turn.state \in {"accepted", "running"} /\ turn.owner = Nobody
  <2>0. turn' = [turn EXCEPT !.state = "canceled", !.rev = @ + 1] /\ Logs("end")
    BY <1>2 DEF MarkTurnCanceledRequested
  <2>1. /\ turn' \in TurnRow /\ turn'.state = "canceled" /\ turn'.owner = Nobody
        /\ turn'.rev = turn.rev + 1 /\ turn'.count = turn.count
    <3>1. turn' = [state |-> "canceled", owner |-> turn.owner, live |-> turn.live,
                   cancel |-> turn.cancel, rev |-> turn.rev + 1, disp |-> turn.disp,
                   started |-> turn.started, count |-> turn.count, code |-> turn.code,
                   asked |-> turn.asked]
      BY <2>0, <1>0 DEF TurnTyped, TurnRow
    <3> QED  BY <3>1, <1>2, <1>0 DEF TurnTyped, TurnRow, TurnStates, Terminal
  <2>2. ~TurnOver /\ turn'.state \in Terminal
    BY <1>2, <2>1 DEF TurnOver, Terminal
  <2>3. /\ OthersTyped'
        /\ \A f \in Supervisors : runner'[f].pc = "run" => runner'[f] = runner[f]
    BY <1>0, ReturnsTyped DEF TurnTyped, OthersTyped
  <2>4. ResultFits' /\ GateColumns'
    BY DEF TurnInd, ResultFits, GateColumns
  <2>5. log'.ends = 1 /\ ~log'.late
    BY <2>0, <2>2, LogOpen, LogsEnd DEF TurnInd
  <2>6. TranscriptExact'
    BY <1>2, <2>1 DEF TurnInd, EndsFit, TranscriptExact
  <2>7. gate'.state \notin {"waiting", "dispatched"}
    BY <1>2 DEF TurnInd, GateFits
  <2> QED  BY <2>0, <2>1, <2>2, <2>3, <2>4, <2>5, <2>6, <2>7, TurnEnds
<1> QED  BY <1>1, <1>2

(* The ledger with the state of one attempt changed.                       *)
Marked(s, n, x) == [s EXCEPT ![n].state = x]
LEMMA MarkedAttempts ==
    ASSUME NEW s \in Seq(AttemptRow), NEW n \in Nat,
           NEW x \in {"dispatched", "retryable", "ended"}, NEW q, q = Marked(s, n, x)
    PROVE  /\ q \in Seq(AttemptRow) /\ Len(q) = Len(s) /\ DOMAIN q = DOMAIN s
           /\ \A i \in DOMAIN s : /\ q[i].final = s[i].final
                                  /\ i # n => q[i] = s[i]
                                  /\ i = n => q[i].state = x
<1>1. CASE n \notin DOMAIN s
  <2>1. q = s
    BY <1>1 DEF Marked
  <2> QED  BY <2>1, <1>1
<1>2. CASE n \in DOMAIN s
  <2> DEFINE a == [s[n] EXCEPT !.state = x]
  <2>1. q = [s EXCEPT ![n] = a]
    BY DEF Marked
  <2>3. s[n] \in AttemptRow
    BY <1>2
  <2>2. a \in AttemptRow /\ a.final = s[n].final /\ a.state = x
    BY <2>3 DEF AttemptRow
  <2> HIDE DEF a
  <2> QED  BY <1>2, <2>1, <2>2
<1> QED  BY <1>1, <1>2

LEMMA IntentTyped ==
    ASSUME NEW r \in Nat \ {0}, NEW f \in SUBSET (1..r) PROVE f \cup {r} \subseteq 1..r
OBVIOUS

LEMMA OneMore ==
    ASSUME NEW a \in Nat, NEW b \in Nat, NEW r \in {b, b + 1}, a <= b PROVE a <= r
OBVIOUS

LEMMA RowBack ==
    ASSUME NEW t \in TurnRow
    PROVE  /\ Released([t EXCEPT !.state = "accepted", !.disp = ""])
                = RowWith("accepted", Nobody, FALSE, t.cancel, t.rev, "", t.started, t.count,
                          t.code, t.asked)
           /\ Released([t EXCEPT !.state = "accepted", !.disp = "", !.started = FALSE])
                = RowWith("accepted", Nobody, FALSE, t.cancel, t.rev, "", FALSE, t.count,
                          t.code, t.asked)
           /\ Released([t EXCEPT !.state = "accepted", !.disp = "", !.rev = @ + 1])
                = RowWith("accepted", Nobody, FALSE, t.cancel, t.rev + 1, "", t.started, t.count,
                          t.code, t.asked)
           /\ Released([t EXCEPT !.state = "accepted", !.disp = "", !.started = FALSE,
                                 !.rev = @ + 1])
                = RowWith("accepted", Nobody, FALSE, t.cancel, t.rev + 1, "", FALSE, t.count,
                          t.code, t.asked)
<1>1. ASSUME NEW u, u = Released([t EXCEPT !.state = "accepted", !.disp = ""])
      PROVE  u = RowWith("accepted", Nobody, FALSE, t.cancel, t.rev, "", t.started, t.count,
                         t.code, t.asked)
  BY <1>1 DEF Released, RowWith, TurnRow
<1>2. ASSUME NEW u, u = Released([t EXCEPT !.state = "accepted", !.disp = "", !.started = FALSE])
      PROVE  u = RowWith("accepted", Nobody, FALSE, t.cancel, t.rev, "", FALSE, t.count,
                         t.code, t.asked)
  BY <1>2 DEF Released, RowWith, TurnRow
<1>3. ASSUME NEW u, u = Released([t EXCEPT !.state = "accepted", !.disp = "", !.rev = @ + 1])
      PROVE  u = RowWith("accepted", Nobody, FALSE, t.cancel, t.rev + 1, "", t.started, t.count,
                         t.code, t.asked)
  BY <1>3 DEF Released, RowWith, TurnRow
<1>4. ASSUME NEW u, u = Released([t EXCEPT !.state = "accepted", !.disp = "", !.started = FALSE,
                                           !.rev = @ + 1])
      PROVE  u = RowWith("accepted", Nobody, FALSE, t.cancel, t.rev + 1, "", FALSE, t.count,
                         t.code, t.asked)
  BY <1>4 DEF Released, RowWith, TurnRow
<1> QED  BY <1>1, <1>2, <1>3, <1>4, Zenon

(* A turn is given back by its holder: what TurnGivenBack asks for.        *)
LEMMA HolderGivesBack ==
    ASSUME TurnInd, NEW e \in Supervisors, Holds(e), NEW r \in {turn.rev, turn.rev + 1},
           NEW b \in BOOLEAN,
           turn' = RowWith("accepted", Nobody, FALSE, turn.cancel, r, "", b, turn.count,
                           turn.code, turn.asked),
           attempts' \in Seq(AttemptRow), DOMAIN attempts' = DOMAIN attempts,
           Len(attempts') = Len(attempts),
           \A i \in DOMAIN attempts : attempts'[i].state # "dispatched",
           \A i \in DOMAIN attempts : attempts'[i].final = attempts[i].final,
           finals' \subseteq 1..r, ResultCleared \/ UNCHANGED <<result, calls>>,
           runner' \in [Supervisors -> RunnerRow], run' \in RunRow,
           \A f \in Supervisors : runner'[f].pc = "run" => runner'[f] = runner[f],
           Logs("tool_result") \/ UNCHANGED log,
           UNCHANGED <<gate, conv, said, steers, effects, repeated, budget>>
    PROVE  TurnInd'
<1>0. TurnTyped
  BY DEF TurnInd
<1>1. /\ ~TurnOver /\ ~turn.cancel /\ gate' = NoGate /\ log.ends = 0 /\ ~log.late
  BY HolderFacts
<1>2. /\ turn' \in TurnRow /\ turn'.state = "accepted" /\ turn'.owner = Nobody
      /\ turn'.rev = r /\ turn'.count = turn.count /\ turn'.disp = ""
      /\ turn'.cancel = turn.cancel
  <2>1. "accepted" \in TurnStates /\ "" \in TurnDisps
    BY DEF TurnStates, TurnDisps
  <2>2. r \in Nat \ {0} /\ turn \in TurnRow
    BY <1>0, RowFields DEF TurnTyped
  <2> QED  BY <2>1, <2>2, RowFields DEF RowWith, TurnRow
<1>3. log'.ends = 0 /\ ~log'.late
  <2>1. CASE UNCHANGED log
    BY <1>1, <2>1
  <2>2. CASE Logs("tool_result")
    BY <1>1, <2>2, LogsKept
  <2> QED  BY <2>1, <2>2
<1>4. LedgerTyped'
  BY <1>0, <1>2 DEF TurnTyped, LedgerTyped
<1>5. OthersTyped'
  <2>1. CASE ResultCleared
    BY <2>1, <1>0, ClearedFits DEF TurnTyped, OthersTyped
  <2>2. CASE UNCHANGED <<result, calls>>
    BY <2>2, <1>0 DEF TurnTyped, OthersTyped
  <2> QED  BY <2>1, <2>2
<1>7. ResultFits'
  <2>1. CASE UNCHANGED <<result, calls>>
    BY <2>1 DEF TurnInd, ResultFits
  <2> QED  BY <2>1, ClearedFits
<1>6. steers'.rev <= turn'.rev
  <2>1. steers.rev <= turn.rev /\ steers.rev \in Nat /\ turn.rev \in Nat
    BY <1>0 DEF TurnInd, AskedInTime, TurnTyped, OthersTyped, TurnRow
  <2>2. steers.rev <= r
    BY <2>1, OneMore
  <2> QED  BY <2>2, <1>2
<1> QED  BY <1>1, <1>2, <1>3, <1>4, <1>5, <1>6, <1>7, TurnGivenBack

LEMMA NoneDispatched ==
    ASSUME TurnInd, ~TurnOver, turn.disp # "dispatched" \/ ~turn.started
    PROVE  \A i \in DOMAIN attempts : attempts[i].state # "dispatched"
BY DEF TurnInd, LedgerFits, DispatchLedger, TurnOver

(* PrepareTurnFinalization without a failure.                              *)
LEMMA NoFailureIntentKeeps ==
    ASSUME TurnInd, NEW e \in Supervisors, NoFailureIntent(e),
           UNCHANGED <<gate, conv, said, log, steers, effects, repeated, budget>>
    PROVE  TurnInd'
<1>0. TurnTyped
  BY DEF TurnInd
<1> DEFINE Given == /\ Holds(e) /\ turn.rev = run.rev /\ ~Finalizing
                    /\ turn.disp \in {"", "completed"} \/ (turn.disp = "dispatched" /\ ~turn.started)
<1>1. Returns(e) /\ attempts' = attempts
  BY DEF NoFailureIntent
<1>2. CASE ~Given
  BY <1>0, <1>1, <1>2, OnlyReturns DEF NoFailureIntent, TurnTyped, OthersTyped
<1>3. CASE Given
  <2>1. turn' = Released([turn EXCEPT !.state = "accepted", !.disp = ""])
    BY <1>3 DEF NoFailureIntent
  <2>2. turn' = RowWith("accepted", Nobody, FALSE, turn.cancel, turn.rev, "", turn.started,
                        turn.count, turn.code, turn.asked)
    <3>1. turn \in TurnRow
      BY <1>0 DEF TurnTyped
    <3> QED  BY <2>1, <3>1, RowBack, Zenon
  <2>3. finals' \subseteq 1..turn.rev /\ ResultCleared
    <3>1. finals' = finals \cup {turn.rev} /\ ResultCleared
      BY <1>3 DEF NoFailureIntent
    <3> QED  BY <3>1, <1>0, RowFields, IntentTyped DEF TurnTyped, LedgerTyped
  <2>4. turn.started \in BOOLEAN
    BY <1>0, RowFields DEF TurnTyped
  <2>5. \A i \in DOMAIN attempts : attempts[i].state # "dispatched"
    BY <1>3, HolderFacts, NoneDispatched
  <2>6. attempts' \in Seq(AttemptRow) /\ DOMAIN attempts' = DOMAIN attempts
        /\ Len(attempts') = Len(attempts)
    BY <1>0, <1>1 DEF TurnTyped, LedgerTyped
  <2> HIDE DEF Given
  <2>7. Holds(e)
    BY <1>3 DEF Given
  <2> QED  BY <2>2, <2>3, <2>4, <2>5, <2>6, <2>7, <1>0, <1>1, ReturnsTyped, HolderGivesBack
           DEF TurnTyped
<1> QED  BY <1>2, <1>3

(* What a holder does while it keeps its lease.                            *)
LEMMA HolderWorks ==
    ASSUME TurnInd, ~TurnOver, NEW e \in Supervisors, turn'.owner = e, turn'.state = "running",
           ~turn'.cancel, gate' = gate, gate.state = "none", said' = said,
           log'.ends = 0, ~log'.late, TurnTyped', LedgerFits', ResultFits', AskedInTime',
           EffectsFit', repeated' = {}, NEW pc, pc = runner'[e].pc, HolderAt(pc)'
    PROVE  TurnInd'
<1>0. Nobody \notin Supervisors
  BY TurnAssumption
<1>1. ~TurnOver'
  BY DEF TurnOver, Terminal
<1>2. LeaseFits' /\ GateFits' /\ GateColumns' /\ GuidanceHeard' /\ TurnEffectsOnce'
  BY <1>0, <1>1 DEF TurnInd, LeaseFits, GateFits, GateColumns, GuidanceHeard, TurnEffectsOnce
<1>3. EndsFit'
  <2>1. TranscriptExact'
    BY DEF TurnInd, EndsFit, TranscriptExact, TurnOver, Terminal
  <2> QED  BY <2>1, <1>1 DEF EndsFit, LogClosesOnce, TurnOver
<1>4. HolderFits'
  <2>1. ASSUME NEW f \in Supervisors, Holds(f)', NEW p, p = runner'[f].pc PROVE HolderAt(p)'
    <3>1. f = e
      BY <2>1 DEF Holds
    <3>2. p = pc
      BY <2>1, <3>1
    <3> QED  BY <3>2
  <2> QED  BY <2>1 DEF HolderFits
<1> QED  BY <1>2, <1>3, <1>4 DEF TurnInd

(* The attempts that count against the budget are the same.                *)
LEMMA BudgetKept ==
    ASSUME LedgerFits, DOMAIN attempts' = DOMAIN attempts, budget'.max = budget.max,
           \A i \in DOMAIN attempts : attempts'[i].final = attempts[i].final
    PROVE  DispatchBudget' /\ FinalAttempts' = FinalAttempts
<1>1. /\ {i \in DOMAIN attempts' : attempts'[i].final} = {i \in DOMAIN attempts : attempts[i].final}
      /\ {i \in DOMAIN attempts' : ~attempts'[i].final} = {i \in DOMAIN attempts : ~attempts[i].final}
  OBVIOUS
<1> QED  BY <1>1 DEF LedgerFits, DispatchBudget, FinalAttempts

(* The calls made, and about to be made, are the same.                     *)
LEMMA EffectsKept ==
    ASSUME EffectsFit, effects' = effects, turn'.count = turn.count,
           \A f \in Supervisors : runner'[f].pc = "run" => runner'[f] = runner[f]
    PROVE  /\ PastEffects' /\ RunnersApart'
           /\ turn'.state \in Terminal \/ turn'.disp # "dispatched" => NoEarlyCall'
           /\ turn'.state \in Terminal \/ turn'.disp # "completed" => PendingUntouched'
           /\ ~TurnOver /\ turn.disp = "dispatched" => NoEarlyCall'
           /\ ~TurnOver /\ turn.disp = "completed" /\ calls' = calls /\ gate' = gate => PendingUntouched'
<1>1. PastEffects' /\ RunnersApart'
  BY DEF EffectsFit, PastEffects, RunnersApart
<1>2. turn'.state \in Terminal \/ turn'.disp # "dispatched" => NoEarlyCall'
  BY DEF NoEarlyCall, TurnOver
<1>3. turn'.state \in Terminal \/ turn'.disp # "completed" => PendingUntouched'
  BY DEF PendingUntouched, TurnOver
<1>4. ~TurnOver /\ turn.disp = "dispatched" => NoEarlyCall'
  BY DEF EffectsFit, NoEarlyCall
<1>5. ASSUME ~TurnOver, turn.disp = "completed", calls' = calls, gate' = gate PROVE PendingUntouched'
  <2>1. Current' = Current
    BY <1>5, OpenKept
  <2> QED  BY <1>5, <2>1 DEF EffectsFit, PendingUntouched, GateRan
<1> QED  BY <1>1, <1>2, <1>3, <1>4, <1>5

(* The supervisor that goes on is not about to run a tool.                 *)
LEMMA GoesTyped ==
    ASSUME OthersTyped, NEW e \in Supervisors, NEW pc \in TurnPcs \ {"run"},
           runner' = [runner EXCEPT ![e].pc = pc]
    PROVE  /\ runner' \in [Supervisors -> RunnerRow] /\ runner'[e].pc = pc
           /\ \A f \in Supervisors : runner'[f].pc = "run" => runner'[f] = runner[f]
<1> DEFINE r == [runner[e] EXCEPT !.pc = pc]
<1>1. r \in RunnerRow /\ r.pc = pc
  BY DEF OthersTyped, RunnerRow
<1>2. runner' = [runner EXCEPT ![e] = r]
  OBVIOUS
<1> HIDE DEF r
<1> QED  BY <1>1, <1>2 DEF OthersTyped

LEMMA RowWorks ==
    ASSUME NEW t \in TurnRow, NEW r, NEW d, NEW b, NEW n, NEW a
    PROVE  /\ [t EXCEPT !.disp = d, !.started = b]
                = RowWith(t.state, t.owner, t.live, t.cancel, t.rev, d, b, t.count, t.code, t.asked)
           /\ [t EXCEPT !.disp = d, !.started = b, !.count = n, !.asked = a]
                = RowWith(t.state, t.owner, t.live, t.cancel, t.rev, d, b, n, t.code, a)
           /\ [t EXCEPT !.started = b]
                = RowWith(t.state, t.owner, t.live, t.cancel, t.rev, t.disp, b, t.count, t.code, t.asked)
           /\ [t EXCEPT !.rev = r]
                = RowWith(t.state, t.owner, t.live, t.cancel, r, t.disp, t.started, t.count, t.code, t.asked)
           /\ [t EXCEPT !.live = b]
                = RowWith(t.state, t.owner, b, t.cancel, t.rev, t.disp, t.started, t.count, t.code, t.asked)
<1>1. ASSUME NEW u, u = [t EXCEPT !.disp = d, !.started = b]
      PROVE  u = RowWith(t.state, t.owner, t.live, t.cancel, t.rev, d, b, t.count, t.code, t.asked)
  BY <1>1 DEF RowWith, TurnRow
<1>2. ASSUME NEW u, u = [t EXCEPT !.disp = d, !.started = b, !.count = n, !.asked = a]
      PROVE  u = RowWith(t.state, t.owner, t.live, t.cancel, t.rev, d, b, n, t.code, a)
  BY <1>2 DEF RowWith, TurnRow
<1>3. ASSUME NEW u, u = [t EXCEPT !.started = b]
      PROVE  u = RowWith(t.state, t.owner, t.live, t.cancel, t.rev, t.disp, b, t.count, t.code, t.asked)
  BY <1>3 DEF RowWith, TurnRow
<1>4. ASSUME NEW u, u = [t EXCEPT !.rev = r]
      PROVE  u = RowWith(t.state, t.owner, t.live, t.cancel, r, t.disp, t.started, t.count, t.code, t.asked)
  BY <1>4 DEF RowWith, TurnRow
<1>5. ASSUME NEW u, u = [t EXCEPT !.live = b]
      PROVE  u = RowWith(t.state, t.owner, b, t.cancel, t.rev, t.disp, t.started, t.count, t.code, t.asked)
  BY <1>5 DEF RowWith, TurnRow
<1> QED  BY <1>1, <1>2, <1>3, <1>4, <1>5, Zenon

(* PrepareTurnFinalization after a failed dispatch.                        *)
LEMMA FailureIntentKeeps ==
    ASSUME TurnInd, NEW e \in Supervisors, FailureIntent(e),
           UNCHANGED <<result, calls, gate, conv, said, log, steers, effects, repeated, budget>>
    PROVE  TurnInd'
<1>0. TurnTyped /\ turn \in TurnRow /\ OthersTyped /\ turn.count \in Nat
  BY RowFields DEF TurnInd, TurnTyped
<1> DEFINE Given == /\ Holds(e) /\ turn.rev = run.rev
                    /\ turn.disp = "dispatched" /\ turn.started
                    /\ attempts[turn.count].state = "dispatched"
                    /\ attempts[turn.count].final = Finalizing
<1>1. CASE ~Given
  BY <1>0, <1>1, OnlyReturns DEF FailureIntent, TurnTyped, OthersTyped
<1>2. CASE Given
  <2>1. /\ attempts' = Marked(attempts, turn.count, "ended")
        /\ finals' = finals \cup {turn.rev}
    BY <1>2 DEF FailureIntent, Marked
  <2>2. /\ attempts' \in Seq(AttemptRow) /\ Len(attempts') = Len(attempts)
        /\ DOMAIN attempts' = DOMAIN attempts
        /\ \A i \in DOMAIN attempts : /\ attempts'[i].final = attempts[i].final
                                      /\ i # turn.count => attempts'[i] = attempts[i]
                                      /\ i = turn.count => attempts'[i].state = "ended"
    BY <2>1, <1>0, MarkedAttempts DEF TurnTyped, LedgerTyped
  <2>3. Holds(e) /\ ~TurnOver /\ ~turn.cancel /\ gate.state = "none" /\ turn.owner = e
        /\ turn.state = "running" /\ log.ends = 0 /\ ~log.late
    BY <1>2, HolderFacts
  <2>4. \A i \in DOMAIN attempts : attempts'[i].state # "dispatched"
    BY <2>2, <2>3 DEF TurnInd, LedgerFits, DispatchLedger, TurnOver
  <2>5. finals' \subseteq 1..turn.rev
    BY <2>1, <1>0, RowFields, IntentTyped DEF TurnTyped, LedgerTyped
  <2>6. CASE Finalizing
    <3>1. turn' = [turn EXCEPT !.disp = "uncertain", !.started = FALSE] /\ Goes(e, "fallback")
      BY <1>2, <2>6 DEF FailureIntent
    <3>2. turn' = RowWith(turn.state, turn.owner, turn.live, turn.cancel, turn.rev, "uncertain",
                          FALSE, turn.count, turn.code, turn.asked)
      BY <3>1, <1>0, RowWorks, Zenon
    <3>3. /\ turn' \in TurnRow /\ turn'.state = "running" /\ turn'.owner = e
          /\ turn'.cancel = turn.cancel /\ turn'.rev = turn.rev /\ turn'.disp = "uncertain"
          /\ turn'.started = FALSE /\ turn'.count = turn.count
      <4>1. "uncertain" \in TurnDisps
        BY DEF TurnDisps
      <4> QED  BY <1>0, <2>3, <3>2, <4>1, RowFields DEF RowWith, TurnRow
    <3>4. /\ runner' \in [Supervisors -> RunnerRow] /\ runner'[e].pc = "fallback" /\ run' = run
          /\ \A f \in Supervisors : runner'[f].pc = "run" => runner'[f] = runner[f]
      <4>1. "fallback" \in TurnPcs \ {"run"}
        BY DEF TurnPcs
      <4> QED  BY <1>0, <3>1, <4>1, GoesTyped DEF Goes
    <3>5. TurnTyped'
      BY <3>3, <3>4, <2>2, <2>5, <1>0 DEF TurnTyped, LedgerTyped, OthersTyped
    <3>6. LedgerFits'
      <4>1. DispatchLedger'
        BY <2>4, <2>2, <3>3 DEF DispatchLedger
      <4> QED  BY <4>1, <2>2, BudgetKept DEF TurnInd, LedgerFits
    <3>7. ResultFits' /\ AskedInTime'
      BY <3>3 DEF TurnInd, ResultFits, AskedInTime
    <3>8. EffectsFit'
      BY <3>3, <3>4, EffectsKept DEF TurnInd, EffectsFit
    <3>9. HolderAt("fallback")'
      BY DEF HolderAt
    <3>10. repeated' = {} /\ gate' = gate /\ said' = said /\ log'.ends = 0 /\ ~log'.late
      BY <2>3 DEF TurnInd, TurnEffectsOnce
    <3> QED  BY <2>3, <3>3, <3>4, <3>5, <3>6, <3>7, <3>8, <3>9, <3>10, HolderWorks
  <2>7. CASE ~Finalizing
    <3>1. /\ turn' = Released([turn EXCEPT !.state = "accepted", !.disp = "", !.started = FALSE])
          /\ Returns(e)
      BY <1>2, <2>7 DEF FailureIntent
    <3>2. turn' = RowWith("accepted", Nobody, FALSE, turn.cancel, turn.rev, "", FALSE,
                          turn.count, turn.code, turn.asked)
      BY <3>1, <1>0, RowBack, Zenon
    <3> QED  BY <1>0, <2>2, <2>3, <2>4, <2>5, <3>1, <3>2, ReturnsTyped, HolderGivesBack
  <2> QED  BY <2>6, <2>7
<1> QED  BY <1>1, <1>2

LEMMA ClaimTurnKeeps ==
    ASSUME TurnInd, NEW e \in Supervisors, ClaimTurn(e)
    PROVE  TurnInd'
<1>0. TurnTyped /\ turn \in TurnRow /\ OthersTyped
  BY DEF TurnInd, TurnTyped
<1>1. /\ runner[e].pc = "idle" /\ turn.state \in {"accepted", "running"} /\ ~turn.cancel
      /\ ~(turn.state = "accepted" /\ turn.disp = "completed" /\ gate.state = "ended")
      /\ turn' = [turn EXCEPT !.state = "running", !.owner = e, !.live = TRUE]
      /\ runner' = [runner EXCEPT ![e].pc = "claimed"]
      /\ run' = [NoRun EXCEPT !.rev = turn.rev, !.conv = conv, !.disp = turn.disp]
      /\ UNCHANGED <<attempts, finals, result, calls, gate, conv, said, log, steers, effects,
                     repeated, budget>>
  BY DEF ClaimTurn
<1>2. ~TurnOver
  BY <1>1 DEF TurnOver, Terminal
<1>3. gate.state = "none"
  <2>1. gate.state # "none" => turn.state = "accepted" /\ turn.disp = "completed"
    BY <1>1, <1>2 DEF TurnInd, GateFits
  <2>2. gate.state \notin {"waiting", "dispatched"}
    BY <1>1 DEF TurnInd, GateFits
  <2>3. gate.state \in {"none", "waiting", "dispatched", "ended"}
    BY <1>0 DEF OthersTyped, GateRow
  <2> QED  BY <1>1, <2>1, <2>2, <2>3
<1>4. turn' = RowWith("running", e, TRUE, turn.cancel, turn.rev, turn.disp, turn.started,
                      turn.count, turn.code, turn.asked)
  <2>1. ASSUME NEW t \in TurnRow, NEW u, u = [t EXCEPT !.state = "running", !.owner = e, !.live = TRUE]
        PROVE  u = RowWith("running", e, TRUE, t.cancel, t.rev, t.disp, t.started, t.count,
                           t.code, t.asked)
    BY <2>1 DEF RowWith, TurnRow
  <2> QED  BY <2>1, <1>0, <1>1, Zenon
<1>5. /\ turn' \in TurnRow /\ turn'.state = "running" /\ turn'.owner = e
      /\ turn'.cancel = turn.cancel /\ turn'.rev = turn.rev /\ turn'.disp = turn.disp
      /\ turn'.started = turn.started /\ turn'.count = turn.count /\ turn'.asked = turn.asked
  <2>1. "running" \in TurnStates
    BY DEF TurnStates
  <2> QED  BY <1>0, <1>4, <2>1, RowFields DEF RowWith, TurnRow
<1>6. /\ runner' \in [Supervisors -> RunnerRow] /\ runner'[e].pc = "claimed"
      /\ \A f \in Supervisors : runner'[f].pc = "run" => runner'[f] = runner[f]
  <2>1. "claimed" \in TurnPcs \ {"run"}
    BY DEF TurnPcs
  <2> QED  BY <1>0, <1>1, <2>1, GoesTyped
<1>7. run' \in RunRow
  <2>1. turn.rev \in Nat /\ conv \in Nat /\ turn.disp \in TurnDisps
    BY <1>0, RowFields DEF OthersTyped
  <2>2. NoRun \in RunRow
    BY DEF NoRun, RunRow, TurnDisps
  <2> QED  BY <1>1, <2>1, <2>2 DEF RunRow
<1>8. TurnTyped'
  BY <1>0, <1>1, <1>5, <1>6, <1>7 DEF TurnTyped, LedgerTyped, OthersTyped
<1>9. LedgerFits'
  <2>1. DispatchLedger'
    BY <1>1, <1>2, <1>5 DEF TurnInd, LedgerFits, DispatchLedger, TurnOver
  <2> QED  BY <2>1, <1>1, BudgetKept DEF TurnInd, LedgerFits
<1>10. ResultFits' /\ AskedInTime'
  BY <1>1, <1>2, <1>5 DEF TurnInd, ResultFits, AskedInTime
<1>11. EffectsFit'
  BY <1>1, <1>2, <1>5, <1>6, EffectsKept DEF TurnInd, EffectsFit
<1>12. HolderAt("claimed")'
  BY DEF HolderAt
<1>13. log.ends = 0 /\ ~log.late
  BY <1>2, LogOpen DEF TurnInd
<1>14. ~turn'.cancel /\ repeated' = {}
  BY <1>1, <1>5 DEF TurnInd, TurnEffectsOnce
<1> QED  BY <1>1, <1>2, <1>3, <1>5, <1>6, <1>8, <1>9, <1>10, <1>11, <1>12, <1>13, <1>14,
            HolderWorks

LEMMA RunFailsKeeps ==
    ASSUME TurnInd, NEW e \in Supervisors, RunFails(e)
    PROVE  TurnInd'
<1>1. "run_failed" \in TurnCodes \ {"answer"}
  BY DEF TurnCodes
<1> QED  BY <1>1, FailTurnKeeps DEF RunFails

LEMMA RecoverFinalDispatchKeeps ==
    ASSUME TurnInd, NEW e \in Supervisors, RecoverFinalDispatch(e)
    PROVE  TurnInd'
<1>1. CASE turn.disp = "dispatched" /\ turn.started
  BY <1>1, FailureIntentKeeps DEF RecoverFinalDispatch
<1>2. CASE ~(turn.disp = "dispatched" /\ turn.started)
  <2>1. "fallback" \in TurnPcs \ {"run"}
    BY DEF TurnPcs
  <2>2. HolderAt("fallback")'
    BY DEF HolderAt
  <2> QED  BY <1>2, <2>1, <2>2, OnlyGoes DEF RecoverFinalDispatch
<1> QED  BY <1>1, <1>2

LEMMA FinalizeFromHistoryKeeps ==
    ASSUME TurnInd, NEW e \in Supervisors, FinalizeFromHistory(e)
    PROVE  TurnInd'
BY NoFailureIntentKeeps DEF FinalizeFromHistory

LEMMA ReplayResultKeeps ==
    ASSUME TurnInd, NEW e \in Supervisors, ReplayResult(e)
    PROVE  TurnInd'
<1>0. TurnTyped /\ OthersTyped
  BY DEF TurnInd, TurnTyped
<1>1. /\ turn.disp = "completed" /\ runner' = [runner EXCEPT ![e].pc = "recorded"]
      /\ run' = IF Holds(e) THEN [run EXCEPT !.final = Finalizing] ELSE run
      /\ UNCHANGED <<turn, attempts, finals, result, calls, gate, conv, said, log, steers,
                     effects, repeated, budget>>
  BY DEF ReplayResult
<1> DEFINE r == [runner[e] EXCEPT !.pc = "recorded"]
<1>2. r \in RunnerRow /\ r.pc = "recorded"
  BY <1>0 DEF OthersTyped, RunnerRow, TurnPcs
<1>3. runner' = [runner EXCEPT ![e] = r]
  BY <1>1
<1>4. run' \in RunRow
  <2>1. Finalizing \in BOOLEAN /\ run \in RunRow
    BY <1>0 DEF OthersTyped, Finalizing
  <2> QED  BY <1>1, <2>1 DEF RunRow
<1>5. HolderAt("recorded")'
  BY <1>1 DEF HolderAt
<1>6. budget' \in BudgetRow /\ budget'.max = budget.max
  BY <1>0, <1>1 DEF OthersTyped
<1> HIDE DEF r
<1> QED  BY <1>1, <1>2, <1>3, <1>4, <1>5, <1>6, OnlyMoves

LEMMA AppendedAttempt ==
    ASSUME NEW s \in Seq(AttemptRow), NEW a \in AttemptRow, NEW q, q = Append(s, a)
    PROVE  /\ q \in Seq(AttemptRow) /\ Len(q) = Len(s) + 1
           /\ DOMAIN q = DOMAIN s \cup {Len(s) + 1} /\ Len(s) + 1 \notin DOMAIN s
           /\ \A i \in DOMAIN s : q[i] = s[i]
           /\ q[Len(s) + 1] = a
OBVIOUS

LEMMA OneMoreAttempt ==
    ASSUME NEW S, IsFiniteSet(S), NEW n, NEW m \in Nat, Cardinality(S) <= m
    PROVE  Cardinality(S \cup {n}) <= m + 1
<1>1. Cardinality(S) \in Nat
  BY FS_CardinalityType
<1> QED  BY <1>1, FS_AddElement

LEMMA UpTo ==
    ASSUME NEW n \in Nat PROVE IsFiniteSet(1..n) /\ Cardinality(1..n) = n
BY FS_Interval

LEMMA RowDispatched ==
    ASSUME NEW t \in TurnRow, NEW n, NEW a
    PROVE  [t EXCEPT !.disp = "dispatched", !.started = TRUE, !.count = n, !.asked = a]
             = RowWith(t.state, t.owner, t.live, t.cancel, t.rev, "dispatched", TRUE, n, t.code, a)
<1>1. ASSUME NEW u, u = [t EXCEPT !.disp = "dispatched", !.started = TRUE, !.count = n, !.asked = a]
      PROVE  u = RowWith(t.state, t.owner, t.live, t.cancel, t.rev, "dispatched", TRUE, n, t.code, a)
  BY <1>1 DEF RowWith, TurnRow
<1> QED  BY <1>1, Zenon

(* A dispatch made by the holder, of which at most the model is asked.     *)
LEMMA DispatchKeeps ==
    ASSUME TurnInd, NEW e \in Supervisors, Holds(e), NEW final \in BOOLEAN, Dispatches(final),
           \A i \in DOMAIN attempts : attempts[i].state # "dispatched",
           ~final => turn.count < budget.max,
           final => Cardinality(FinalAttempts) <= 1,
           final /\ ~run'.retried => FinalAttempts = {},
           NEW pc \in {"prepared", "asking"}, runner' = [runner EXCEPT ![e].pc = pc],
           run' \in RunRow, run'.final = final,
           \/ UNCHANGED <<effects, repeated>>
           \/ pc = "asking" /\ Calls(<<turn.count + 1, 0>>),
           UNCHANGED <<finals, result, calls, gate, conv, said, log, steers, budget>>
    PROVE  TurnInd'
<1>0. TurnTyped /\ turn \in TurnRow /\ OthersTyped /\ attempts \in Seq(AttemptRow)
      /\ turn.count = Len(attempts) /\ turn.count \in Nat /\ turn.rev \in Nat \ {0}
  BY RowFields DEF TurnInd, TurnTyped, LedgerTyped
<1> DEFINE n == turn.count + 1
           a == [state |-> "dispatched", final |-> final]
<1>1. /\ ~TurnOver /\ ~turn.cancel /\ gate.state = "none" /\ turn.owner = e
      /\ turn.state = "running" /\ log.ends = 0 /\ ~log.late
  BY HolderFacts
<1>2. turn' = RowWith(turn.state, turn.owner, turn.live, turn.cancel, turn.rev, "dispatched",
                      TRUE, n, turn.code, turn.rev)
  <2>1. turn' = [turn EXCEPT !.disp = "dispatched", !.started = TRUE, !.count = n, !.asked = turn.rev]
    BY DEF Dispatches
  <2>2. turn.rev \in Nat \ {0} /\ n \in Nat
    BY <1>0
  <2> HIDE DEF n
  <2> QED  BY <2>1, <2>2, <1>0, RowDispatched, Zenon
<1>3. /\ turn' \in TurnRow /\ turn'.state = "running" /\ turn'.owner = e
      /\ turn'.cancel = turn.cancel /\ turn'.rev = turn.rev /\ turn'.disp = "dispatched"
      /\ turn'.started = TRUE /\ turn'.count = n /\ turn'.asked = turn.rev
  <2>1. "dispatched" \in TurnDisps
    BY DEF TurnDisps
  <2> QED  BY <1>0, <1>1, <1>2, <2>1, RowFields DEF RowWith, TurnRow
<1>4. /\ attempts' \in Seq(AttemptRow) /\ Len(attempts') = n
      /\ DOMAIN attempts' = DOMAIN attempts \cup {n} /\ n \notin DOMAIN attempts
      /\ \A i \in DOMAIN attempts : attempts'[i] = attempts[i]
      /\ attempts'[n] = a
  <2>1. attempts' = Append(attempts, a) /\ a \in AttemptRow
    BY DEF Dispatches, AttemptRow
  <2> HIDE DEF a
  <2> QED  BY <1>0, <2>1, AppendedAttempt
<1>5. /\ runner' \in [Supervisors -> RunnerRow] /\ runner'[e].pc = pc
      /\ \A f \in Supervisors : runner'[f].pc = "run" => runner'[f] = runner[f]
  <2>1. pc \in TurnPcs \ {"run"}
    BY DEF TurnPcs
  <2> QED  BY <1>0, <2>1, GoesTyped
<1>6. effects' = effects \/ effects' = effects \cup {<<n, 0>>}
  BY DEF Calls
<1>7. TurnTyped'
  <2>1. <<n, 0>> \in Nat \X Nat
    BY <1>0
  <2>2. effects' \subseteq Nat \X Nat
    BY <2>1, <1>0, <1>6 DEF OthersTyped
  <2> QED  BY <1>0, <1>3, <1>4, <1>5, <2>2 DEF TurnTyped, LedgerTyped, OthersTyped
<1>8. LedgerFits'
  <2>1. DispatchLedger'
    BY <1>3, <1>4 DEF DispatchLedger
  <2>2. IsFiniteSet(FinalAttempts) /\ IsFiniteSet(OrdinaryAttempts) /\ IsFiniteSet(DOMAIN attempts)
    <3>1. DOMAIN attempts = 1..turn.count
      BY <1>0
    <3>2. IsFiniteSet(DOMAIN attempts)
      BY <3>1, <1>0, UpTo
    <3> QED  BY <3>2, FS_Subset DEF FinalAttempts, OrdinaryAttempts
  <2>3. /\ FinalAttempts' = FinalAttempts \cup (IF final THEN {n} ELSE {})
        /\ OrdinaryAttempts' = OrdinaryAttempts \cup (IF final THEN {} ELSE {n})
    BY <1>4 DEF FinalAttempts, OrdinaryAttempts
  <2>4. /\ Cardinality(OrdinaryAttempts) <= budget.max /\ Cardinality(FinalAttempts) <= 2
        /\ budget.max \in Nat
    BY <1>0 DEF TurnInd, LedgerFits, DispatchBudget, OrdinaryAttempts, FinalAttempts,
                OthersTyped, BudgetRow
  <2>5. CASE final
    <3>1. Cardinality(FinalAttempts \cup {n}) <= 2
      <4>1. Cardinality(FinalAttempts \cup {n}) <= 1 + 1
        BY <2>2, <2>5, OneMoreAttempt
      <4> QED  BY <4>1
    <3>2. FinalAttempts' = FinalAttempts \cup {n} /\ OrdinaryAttempts' = OrdinaryAttempts
      BY <2>3, <2>5
    <3> HIDE DEF n
    <3>3. DispatchBudget'
      BY <3>1, <3>2, <2>4 DEF DispatchBudget, OrdinaryAttempts, FinalAttempts
    <3> QED  BY <2>1, <3>3 DEF LedgerFits
  <2>6. CASE ~final
    <3>1. Cardinality(OrdinaryAttempts) <= turn.count
      <4>1. Cardinality(1..turn.count) = turn.count
        BY <1>0, UpTo
      <4>2. DOMAIN attempts = 1..turn.count
        BY <1>0
      <4>3. OrdinaryAttempts \subseteq DOMAIN attempts
        BY DEF OrdinaryAttempts
      <4>4. Cardinality(OrdinaryAttempts) <= Cardinality(DOMAIN attempts)
        BY <4>3, <2>2, FS_Subset
      <4> QED  BY <4>1, <4>2, <4>4
    <3>2. Cardinality(OrdinaryAttempts \cup {n}) <= turn.count + 1
      BY <1>0, <2>2, <3>1, OneMoreAttempt
    <3>3. turn.count + 1 <= budget.max
      BY <1>0, <2>4, <2>6
    <3>4. FinalAttempts' = FinalAttempts /\ OrdinaryAttempts' = OrdinaryAttempts \cup {n}
      BY <2>3, <2>6
    <3>5. Cardinality(OrdinaryAttempts \cup {n}) \in Nat
      BY <2>2, FS_AddElement, FS_CardinalityType
    <3>6. Cardinality(OrdinaryAttempts') <= budget.max
      BY <3>2, <3>3, <3>4, <3>5, <2>4, <1>0
    <3> HIDE DEF n
    <3>7. DispatchBudget'
      BY <3>4, <3>6, <2>4 DEF DispatchBudget, OrdinaryAttempts, FinalAttempts
    <3> QED  BY <2>1, <3>7 DEF LedgerFits
  <2> QED  BY <2>5, <2>6
<1>9. ResultFits'
  BY DEF TurnInd, ResultFits
<1>10. AskedInTime'
  BY <1>3, <1>0 DEF TurnInd, AskedInTime
<1>11. PastEffects'
  <2>1. \A x \in effects : x[1] \in Nat /\ x[1] <= turn.count
    BY <1>0 DEF TurnInd, EffectsFit, PastEffects, OthersTyped
  <2>2. \A x \in effects' : x \in effects \/ x = <<n, 0>>
    BY <1>6
  <2> QED  BY <1>0, <1>3, <2>1, <2>2 DEF PastEffects
<1>12. \A f \in Supervisors : runner'[f].pc = "run" =>
          /\ runner'[f] = runner[f] /\ runner[f].call[1] \in Nat /\ runner[f].call[1] < n
          /\ runner[f].call # <<>> /\ runner[f].call # <<n, 0>>
  <2>1. ASSUME NEW f \in Supervisors, runner'[f].pc = "run"
        PROVE  /\ runner'[f] = runner[f] /\ runner[f].call # <<>>
               /\ runner[f].call \in Nat \X (Nat \ {0}) /\ runner[f].call[1] <= turn.count
    <3>1. runner'[f] = runner[f]
      BY <1>5, <2>1
    <3>2. runner[f].call # <<>> /\ runner[f].call[1] <= turn.count
      BY <2>1, <3>1 DEF TurnInd, EffectsFit, RunnersApart
    <3>3. runner[f].call \in {<<>>} \cup (Nat \X (Nat \ {0}))
      BY <1>0 DEF OthersTyped, RunnerRow
    <3> QED  BY <3>1, <3>2, <3>3
  <2>2. ASSUME NEW c \in Nat \X (Nat \ {0}), c[1] <= turn.count
        PROVE  c[1] \in Nat /\ c[1] < n /\ c # <<n, 0>>
    BY <2>2, <1>0
  <2> QED  BY <2>1, <2>2
<1>13. RunnersApart'
  <2>1. ASSUME NEW f \in Supervisors, runner'[f].pc = "run"
        PROVE  /\ runner'[f].call # <<>> /\ runner'[f].call \notin effects'
               /\ runner'[f].call[1] <= turn'.count
               /\ \A g \in Supervisors : g # f /\ runner'[g].pc = "run" =>
                      runner'[g].call # runner'[f].call
    <3>1. /\ runner'[f] = runner[f] /\ runner[f].call[1] \in Nat /\ runner[f].call[1] < n
          /\ runner[f].call # <<>> /\ runner[f].call # <<n, 0>>
      BY <2>1, <1>12
    <3>2. runner[f].call \notin effects
      BY <2>1, <3>1 DEF TurnInd, EffectsFit, RunnersApart
    <3>3. runner'[f].call \notin effects'
      BY <3>1, <3>2, <1>6
    <3>4. \A g \in Supervisors : g # f /\ runner'[g].pc = "run" => runner'[g].call # runner'[f].call
      BY <2>1, <1>5 DEF TurnInd, EffectsFit, RunnersApart
    <3>5. runner'[f].call[1] <= turn'.count
      BY <3>1, <1>3, <1>0
    <3> QED  BY <3>1, <3>3, <3>4, <3>5
  <2> QED  BY <2>1 DEF RunnersApart
<1>14. NoEarlyCall'
  <2>1. \A x \in effects' : x[1] = n => x[2] = 0
    <3>1. \A x \in effects : x[1] \in Nat /\ x[1] <= turn.count
      BY <1>0 DEF TurnInd, EffectsFit, PastEffects, OthersTyped
    <3>2. \A x \in effects' : x \in effects \/ x = <<n, 0>>
      BY <1>6
    <3> QED  BY <3>1, <3>2, <1>0
  <2>2. \A f \in Supervisors : runner'[f].pc = "run" => runner'[f].call[1] # n
    BY <1>12
  <2> QED  BY <2>1, <2>2, <1>3 DEF NoEarlyCall
<1>15. EffectsFit'
  BY <1>3, <1>11, <1>13, <1>14 DEF EffectsFit, PendingUntouched
<1>16. repeated' = {}
  <2>1. <<n, 0>> \notin effects
    BY <1>0 DEF TurnInd, EffectsFit, PastEffects
  <2>2. Calls(<<n, 0>>) => repeated' = repeated
    BY <2>1 DEF Calls
  <2> QED  BY <2>2 DEF TurnInd, TurnEffectsOnce
<1>17. HolderAt(pc)'
  <2>1. pc = "prepared" => <<n, 0>> \notin effects'
    BY <1>0 DEF TurnInd, EffectsFit, PastEffects
  <2>2. run'.final /\ ~run'.retried => FinalAttempts' = {n}
    <3>1. ASSUME final, ~run'.retried PROVE FinalAttempts' = {n}
      BY <3>1, <1>4 DEF FinalAttempts
    <3> QED  BY <3>1
  <2> QED  BY <2>1, <2>2, <1>3 DEF HolderAt
<1> HIDE DEF n, a
<1> QED  BY <1>1, <1>3, <1>5, <1>7, <1>8, <1>9, <1>10, <1>15, <1>16, <1>17, HolderWorks

LEMMA PrepareTurnModelKeeps ==
    ASSUME TurnInd, NEW e \in Supervisors, PrepareTurnModel(e)
    PROVE  TurnInd'
<1>0. TurnTyped /\ OthersTyped /\ UNCHANGED <<gate, steers, effects, repeated, budget>>
  BY DEF TurnInd, TurnTyped, PrepareTurnModel
<1>1. CASE /\ Admits(e)
           /\ Dispatches(Finalizing)
           /\ runner' = [runner EXCEPT ![e].pc = "prepared"]
           /\ run' = [run EXCEPT !.final = Finalizing, !.mine = TRUE]
           /\ UNCHANGED <<finals, result, calls, conv, said, log>>
  <2>1. Finalizing \in BOOLEAN /\ run \in RunRow
    BY <1>0 DEF OthersTyped, Finalizing
  <2>2. run' \in RunRow /\ run'.final = Finalizing
    BY <1>1, <2>1 DEF RunRow
  <2>3. Holds(e) /\ turn.disp = "" /\ turn.count < budget.max + (IF Finalizing THEN 1 ELSE 0)
        /\ (Finalizing => \A i \in DOMAIN attempts : ~attempts[i].final)
    BY <1>1 DEF Admits
  <2>4. \A i \in DOMAIN attempts : attempts[i].state # "dispatched"
    BY <2>3, HolderFacts, NoneDispatched
  <2>5. ~Finalizing => turn.count < budget.max
    <3>1. budget.max \in Nat
      BY <1>0 DEF OthersTyped, BudgetRow
    <3>2. turn.count \in Nat
      BY <1>0, RowFields DEF TurnTyped
    <3>3. ~Finalizing => turn.count < budget.max + 0
      BY <2>3
    <3> QED  BY <3>1, <3>2, <3>3
  <2>6. Finalizing => FinalAttempts = {}
    BY <2>3 DEF FinalAttempts
  <2>7. Finalizing => Cardinality(FinalAttempts) <= 1
    BY <2>6, FS_EmptySet
  <2>8. "prepared" \in {"prepared", "asking"}
    OBVIOUS
  <2> QED  BY <1>0, <1>1, <2>1, <2>2, <2>3, <2>4, <2>5, <2>6, <2>7, <2>8, DispatchKeeps
<1>2. CASE /\ ~Admits(e) /\ Spent /\ Finalizing
           /\ Goes(e, "fallback")
           /\ UNCHANGED <<turn, attempts, finals, result, calls, conv, said, log>>
  <2>1. "fallback" \in TurnPcs \ {"run"}
    BY DEF TurnPcs
  <2>2. HolderAt("fallback")'
    BY DEF HolderAt
  <2> QED  BY <1>0, <1>2, <2>1, <2>2, OnlyGoes
<1>3. CASE /\ ~Admits(e) /\ Spent /\ ~Finalizing
           /\ NoFailureIntent(e)
           /\ UNCHANGED <<conv, said, log>>
  BY <1>0, <1>3, NoFailureIntentKeeps
<1>4. CASE /\ ~Admits(e) /\ ~Spent /\ turn.disp = "dispatched"
           /\ FailTurn(e, "model_dispatch_uncertain")
           /\ UNCHANGED <<attempts, finals, result, calls>>
  <2>1. "model_dispatch_uncertain" \in TurnCodes \ {"answer"}
    BY DEF TurnCodes
  <2> QED  BY <1>0, <1>4, <2>1, FailTurnKeeps
<1>5. CASE /\ ~Admits(e) /\ ~Spent /\ turn.disp # "dispatched"
           /\ Returns(e)
           /\ UNCHANGED <<turn, attempts, finals, result, calls, conv, said, log>>
  BY <1>0, <1>5, OnlyReturns DEF OthersTyped
<1> QED  BY <1>1, <1>2, <1>3, <1>4, <1>5 DEF PrepareTurnModel

LEMMA AskModelKeeps ==
    ASSUME TurnInd, NEW e \in Supervisors, AskModel(e)
    PROVE  TurnInd'
<1>0. /\ TurnTyped /\ OthersTyped /\ LedgerTyped /\ turn \in TurnRow /\ turn.count \in Nat
      /\ runner[e].pc = "prepared"
      /\ UNCHANGED <<turn, attempts, finals, result, calls, gate, conv, said, log, steers, budget>>
  BY RowFields DEF TurnInd, TurnTyped, AskModel
<1>1. CASE ~Holds(e)
  BY <1>0, <1>1, OnlyReturns DEF AskModel, OthersTyped
<1>2. CASE Holds(e)
  <2>1. Goes(e, "asking") /\ Calls(<<turn.count, 0>>)
    BY <1>2 DEF AskModel
  <2>2. /\ ~TurnOver /\ ~turn.cancel /\ gate.state = "none" /\ turn.owner = e
        /\ turn.state = "running" /\ log.ends = 0 /\ ~log.late /\ HolderAt("prepared")
    BY <1>0, <1>2, HolderFacts
  <2>3. turn.disp = "dispatched" /\ <<turn.count, 0>> \notin effects
    BY <2>2 DEF HolderAt
  <2>4. /\ runner' \in [Supervisors -> RunnerRow] /\ runner'[e].pc = "asking" /\ run' = run
        /\ \A f \in Supervisors : runner'[f].pc = "run" => runner'[f] = runner[f]
    <3>1. "asking" \in TurnPcs \ {"run"}
      BY DEF TurnPcs
    <3> QED  BY <1>0, <2>1, <3>1, GoesTyped DEF Goes
  <2>5. effects' = effects \cup {<<turn.count, 0>>} /\ repeated' = {}
    BY <2>1, <2>3 DEF Calls, TurnInd, TurnEffectsOnce
  <2>6. TurnTyped'
    <3>1. effects' \subseteq Nat \X Nat
      BY <1>0, <2>5 DEF OthersTyped
    <3> QED  BY <1>0, <2>4, <3>1 DEF TurnTyped, LedgerTyped, OthersTyped
  <2>7. LedgerFits' /\ ResultFits' /\ AskedInTime'
    <3>1. DispatchBudget'
      BY <1>0, BudgetKept DEF TurnInd
    <3> QED  BY <1>0, <3>1 DEF TurnInd, LedgerFits, DispatchLedger, ResultFits, AskedInTime, TurnOver
  <2>8. PastEffects'
    <3>1. \A x \in effects' : x \in effects \/ x = <<turn.count, 0>>
      BY <2>5
    <3> QED  BY <1>0, <3>1 DEF TurnInd, EffectsFit, PastEffects
  <2>9. RunnersApart' /\ NoEarlyCall'
    <3>1. ASSUME NEW f \in Supervisors, runner'[f].pc = "run"
          PROVE  runner'[f] = runner[f] /\ runner[f].call # <<turn.count, 0>>
      <4>1. runner'[f] = runner[f]
        BY <2>4, <3>1
      <4>2. runner[f].call # <<>>
        BY <3>1, <4>1 DEF TurnInd, EffectsFit, RunnersApart
      <4>3. runner[f].call \in {<<>>} \cup (Nat \X (Nat \ {0}))
        BY <1>0 DEF OthersTyped, RunnerRow
      <4> QED  BY <4>1, <4>2, <4>3
    <3>2. \A x \in effects' : x \in effects \/ x = <<turn.count, 0>>
      BY <2>5
    <3>3. RunnersApart'
      BY <1>0, <3>1, <3>2 DEF TurnInd, EffectsFit, RunnersApart
    <3>4. \A x \in effects' : x[1] = turn.count => x[2] = 0
      BY <2>2, <2>3, <3>2 DEF TurnInd, EffectsFit, NoEarlyCall
    <3>5. NoEarlyCall'
      BY <1>0, <2>2, <2>3, <3>1, <3>4 DEF TurnInd, EffectsFit, NoEarlyCall
    <3> QED  BY <3>3, <3>5
  <2>10. PendingUntouched'
    BY <1>0, <2>3 DEF PendingUntouched
  <2>11. HolderAt("asking")'
    <3>1. FinalAttempts' = FinalAttempts
      BY <1>0 DEF FinalAttempts
    <3> QED  BY <1>0, <2>2, <2>3, <2>4, <3>1 DEF HolderAt
  <2>12. EffectsFit'
    BY <2>8, <2>9, <2>10 DEF EffectsFit
  <2> QED  BY <1>0, <2>2, <2>4, <2>5, <2>6, <2>7, <2>11, <2>12, HolderWorks
<1> QED  BY <1>1, <1>2

LEMMA MarkTurnModelRetryableKeeps ==
    ASSUME TurnInd, NEW e \in Supervisors, MarkTurnModelRetryable(e)
    PROVE  TurnInd'
<1>0. /\ TurnTyped /\ OthersTyped /\ LedgerTyped /\ turn \in TurnRow /\ turn.count \in Nat
      /\ runner[e].pc = "asking" /\ ~run.retried /\ Holds(e) /\ turn.disp = "dispatched"
      /\ turn.started
      /\ attempts' = Marked(attempts, turn.count, "retryable")
      /\ turn' = [turn EXCEPT !.started = FALSE]
      /\ runner' = [runner EXCEPT ![e].pc = "backoff"]
      /\ run' = [run EXCEPT !.retried = TRUE]
      /\ UNCHANGED <<finals, result, calls, gate, conv, said, log, steers, effects, repeated, budget>>
  BY RowFields DEF TurnInd, TurnTyped, MarkTurnModelRetryable, OwnAttempt, Marked
<1>1. /\ ~TurnOver /\ ~turn.cancel /\ gate.state = "none" /\ turn.owner = e
      /\ turn.state = "running" /\ log.ends = 0 /\ ~log.late /\ HolderAt("asking")
  BY <1>0, HolderFacts
<1>2. /\ attempts' \in Seq(AttemptRow) /\ Len(attempts') = Len(attempts)
      /\ DOMAIN attempts' = DOMAIN attempts
      /\ \A i \in DOMAIN attempts : /\ attempts'[i].final = attempts[i].final
                                    /\ i # turn.count => attempts'[i] = attempts[i]
                                    /\ i = turn.count => attempts'[i].state = "retryable"
  <2>1. /\ attempts \in Seq(AttemptRow) /\ turn.count \in Nat
        /\ attempts' = Marked(attempts, turn.count, "retryable")
    BY <1>0 DEF LedgerTyped
  <2> QED  BY <2>1, MarkedAttempts
<1>3. turn' = RowWith(turn.state, turn.owner, turn.live, turn.cancel, turn.rev, turn.disp, FALSE,
                      turn.count, turn.code, turn.asked)
  BY <1>0, RowWorks, Zenon
<1>4. /\ turn' \in TurnRow /\ turn'.state = "running" /\ turn'.owner = e
      /\ turn'.cancel = turn.cancel /\ turn'.rev = turn.rev /\ turn'.disp = "dispatched"
      /\ turn'.started = FALSE /\ turn'.count = turn.count /\ turn'.asked = turn.asked
  BY <1>0, <1>1, <1>3, RowFields DEF RowWith, TurnRow
<1>5. /\ runner' \in [Supervisors -> RunnerRow] /\ runner'[e].pc = "backoff"
      /\ \A f \in Supervisors : runner'[f].pc = "run" => runner'[f] = runner[f]
  <2>1. "backoff" \in TurnPcs \ {"run"}
    BY DEF TurnPcs
  <2> QED  BY <1>0, <2>1, GoesTyped
<1>6. run' \in RunRow /\ run'.final = run.final /\ run'.retried
  BY <1>0 DEF OthersTyped, RunRow
<1>7. TurnTyped'
  BY <1>0, <1>2, <1>4, <1>5, <1>6 DEF TurnTyped, LedgerTyped, OthersTyped
<1>8. LedgerFits' /\ FinalAttempts' = FinalAttempts
  <2>1. \A i \in DOMAIN attempts : attempts'[i].state # "dispatched"
    BY <1>1, <1>2 DEF TurnInd, LedgerFits, DispatchLedger, TurnOver
  <2>2. DispatchLedger'
    BY <2>1, <1>2, <1>4 DEF DispatchLedger
  <2> QED  BY <2>2, <1>0, <1>2, BudgetKept DEF TurnInd, LedgerFits
<1>9. ResultFits' /\ AskedInTime'
  BY <1>0, <1>1, <1>4 DEF TurnInd, ResultFits, AskedInTime
<1>10. EffectsFit'
  BY <1>0, <1>1, <1>4, <1>5, EffectsKept DEF TurnInd, EffectsFit
<1>11. HolderAt("backoff")'
  BY <1>0, <1>1, <1>4, <1>6, <1>8 DEF HolderAt
<1>12. repeated' = {}
  BY <1>0 DEF TurnInd, TurnEffectsOnce
<1> QED  BY <1>0, <1>1, <1>4, <1>5, <1>7, <1>8, <1>9, <1>10, <1>11, <1>12, HolderWorks

LEMMA PrepareTurnModelRetryKeeps ==
    ASSUME TurnInd, NEW e \in Supervisors, PrepareTurnModelRetry(e)
    PROVE  TurnInd'
<1>0. /\ TurnTyped /\ OthersTyped /\ LedgerTyped /\ turn \in TurnRow /\ turn.count \in Nat
      /\ runner[e].pc = "backoff" /\ UNCHANGED <<gate, steers, budget>>
  BY RowFields DEF TurnInd, TurnTyped, PrepareTurnModelRetry
<1>1. CASE /\ turn.cancel
           /\ MarkTurnCanceledRequested
           /\ Returns(e)
           /\ UNCHANGED <<attempts, finals, result, calls, conv, said, effects, repeated>>
  BY <1>0, <1>1, CancelKeeps
<1>2. CASE /\ ~turn.cancel /\ Holds(e) /\ ~RetrySpent
           /\ turn.rev = run.rev /\ attempts[turn.count].state = "retryable"
           /\ Dispatches(run.final)
           /\ Goes(e, "asking")
           /\ Calls(<<turn.count + 1, 0>>)
           /\ UNCHANGED <<finals, result, calls, conv, said, log>>
  <2>1. run.final \in BOOLEAN /\ run \in RunRow /\ budget.max \in Nat
    BY <1>0 DEF OthersTyped, RunRow, BudgetRow
  <2>2. ~TurnOver /\ HolderAt("backoff")
    BY <1>0, <1>2, HolderFacts
  <2>3. \A i \in DOMAIN attempts : attempts[i].state # "dispatched"
    BY <1>2, <2>2 DEF TurnInd, LedgerFits, DispatchLedger, TurnOver
  <2>4. ~run.final => turn.count < budget.max
    BY <1>0, <1>2, <2>1 DEF RetrySpent
  <2>5. run.final => FinalAttempts = {turn.count}
    BY <2>2 DEF HolderAt
  <2>6. run.final => Cardinality(FinalAttempts) <= 1
    <3>1. Cardinality({turn.count}) = 1
      BY FS_Singleton
    <3> QED  BY <2>5, <3>1
  <2>7. /\ run' = run /\ run.retried /\ runner' = [runner EXCEPT ![e].pc = "asking"]
    BY <1>2, <2>2 DEF Goes, HolderAt
  <2>8. "asking" \in {"prepared", "asking"}
    OBVIOUS
  <2> QED  BY <1>0, <1>2, <2>1, <2>2, <2>3, <2>4, <2>5, <2>6, <2>7, <2>8, DispatchKeeps
<1>3. CASE /\ ~turn.cancel /\ Holds(e) /\ RetrySpent
           /\ IF run.final
              THEN Goes(e, "fallback") /\ UNCHANGED <<turn, attempts, finals, result, calls>>
              ELSE NoFailureIntent(e)
           /\ UNCHANGED <<conv, said, log, effects, repeated>>
  <2>1. CASE run.final
    <3>1. "fallback" \in TurnPcs \ {"run"}
      BY DEF TurnPcs
    <3>2. HolderAt("fallback")'
      BY DEF HolderAt
    <3> QED  BY <1>0, <1>3, <2>1, <3>1, <3>2, OnlyGoes
  <2>2. CASE ~run.final
    BY <1>0, <1>3, <2>2, NoFailureIntentKeeps
  <2> QED  BY <2>1, <2>2
<1>4. CASE /\ ~turn.cancel /\ ~Holds(e)
           /\ FailTurn(e, "model_dispatch_uncertain")
           /\ UNCHANGED <<attempts, finals, result, calls, effects, repeated>>
  <2>1. "model_dispatch_uncertain" \in TurnCodes \ {"answer"}
    BY DEF TurnCodes
  <2> QED  BY <1>0, <1>4, <2>1, FailTurnKeeps
<1> QED  BY <1>1, <1>2, <1>3, <1>4 DEF PrepareTurnModelRetry

LEMMA ModelFailsKeeps ==
    ASSUME TurnInd, NEW e \in Supervisors, ModelFails(e)
    PROVE  TurnInd'
<1>1. CASE turn.cancel
  BY <1>1, CancelKeeps DEF ModelFails
<1>2. CASE ~turn.cancel
  BY <1>2, FailureIntentKeeps DEF ModelFails
<1> QED  BY <1>1, <1>2

LEMMA BatchCalls ==
    ASSUME NEW b \in Seq({"read", "local", "gated"}), NEW q, q = [i \in DOMAIN b |-> Entry(b[i])]
    PROVE  /\ q \in Seq(CallRow) /\ DOMAIN q = DOMAIN b /\ DOMAIN q \subseteq Nat \ {0}
           /\ \A i \in DOMAIN q : q[i].state = "pending"
           /\ b = <<>> => q = <<>>
<1>1. \A i \in DOMAIN b : Entry(b[i]) \in CallRow /\ Entry(b[i]).state = "pending"
  BY DEF Entry, CallRow
<1>2. DOMAIN b = 1..Len(b) /\ Len(b) \in Nat
  OBVIOUS
<1>3. q \in [1..Len(b) -> CallRow]
  BY <1>1, <1>2
<1>4. q \in Seq(CallRow) /\ DOMAIN q = 1..Len(b)
  BY <1>2, <1>3
<1>5. b = <<>> => q = <<>>
  BY <1>4
<1> QED  BY <1>1, <1>2, <1>4, <1>5

(* The result becomes durable with its calls, of which none was made.      *)
LEMMA RecordTurnModelResultKeeps ==
    ASSUME TurnInd, NEW e \in Supervisors, NEW batch \in Seq({"read", "local", "gated"}),
           NEW kind \in {"answer", "continue", "unusable", "tools"}, kind # "tools" => batch = <<>>,
           RecordTurnModelResult(e, kind, batch)
    PROVE  TurnInd'
<1>0. /\ TurnTyped /\ OthersTyped /\ LedgerTyped /\ turn \in TurnRow /\ turn.count \in Nat
      /\ UNCHANGED <<finals, gate, conv, said, steers, effects, repeated, budget>>
  BY RowFields DEF TurnInd, TurnTyped, RecordTurnModelResult
<1>1. CASE turn.cancel
  BY <1>1, CancelKeeps DEF RecordTurnModelResult
<1>2. CASE ~turn.cancel /\ ~OwnAttempt(e)
  BY <1>0, <1>2, OnlyReturns DEF RecordTurnModelResult, OthersTyped
<1>3. CASE ~turn.cancel /\ OwnAttempt(e)
  <2>1. /\ attempts' = Marked(attempts, turn.count, "ended")
        /\ turn' = [turn EXCEPT !.disp = "completed", !.started = FALSE]
        /\ result' = kind /\ calls' = [i \in DOMAIN batch |-> Entry(batch[i])]
        /\ Goes(e, "recorded") /\ log' = log
        /\ Holds(e) /\ turn.disp = "dispatched"
    BY <1>3 DEF RecordTurnModelResult, Marked, OwnAttempt
  <2>2. /\ ~TurnOver /\ ~turn.cancel /\ gate.state = "none" /\ turn.owner = e
        /\ turn.state = "running" /\ log.ends = 0 /\ ~log.late
    BY <2>1, HolderFacts
  <2>3. /\ attempts' \in Seq(AttemptRow) /\ Len(attempts') = Len(attempts)
        /\ DOMAIN attempts' = DOMAIN attempts
        /\ \A i \in DOMAIN attempts : /\ attempts'[i].final = attempts[i].final
                                      /\ i # turn.count => attempts'[i] = attempts[i]
                                      /\ i = turn.count => attempts'[i].state = "ended"
    <3>1. /\ attempts \in Seq(AttemptRow) /\ turn.count \in Nat
          /\ attempts' = Marked(attempts, turn.count, "ended")
      BY <1>0, <2>1 DEF LedgerTyped
    <3> QED  BY <3>1, MarkedAttempts
  <2>4. turn' = RowWith(turn.state, turn.owner, turn.live, turn.cancel, turn.rev, "completed",
                        FALSE, turn.count, turn.code, turn.asked)
    BY <2>1, <1>0, RowWorks, Zenon
  <2>5. /\ turn' \in TurnRow /\ turn'.state = "running" /\ turn'.owner = e
        /\ turn'.cancel = turn.cancel /\ turn'.rev = turn.rev /\ turn'.disp = "completed"
        /\ turn'.started = FALSE /\ turn'.count = turn.count /\ turn'.asked = turn.asked
    <3>1. "completed" \in TurnDisps
      BY DEF TurnDisps
    <3> QED  BY <1>0, <2>2, <2>4, <3>1, RowFields DEF RowWith, TurnRow
  <2>6. /\ runner' \in [Supervisors -> RunnerRow] /\ runner'[e].pc = "recorded" /\ run' = run
        /\ \A f \in Supervisors : runner'[f].pc = "run" => runner'[f] = runner[f]
    <3>1. "recorded" \in TurnPcs \ {"run"}
      BY DEF TurnPcs
    <3> QED  BY <1>0, <2>1, <3>1, GoesTyped DEF Goes
  <2>7. /\ calls' \in Seq(CallRow) /\ DOMAIN calls' \subseteq Nat \ {0}
        /\ \A i \in DOMAIN calls' : calls'[i].state = "pending"
        /\ batch = <<>> => calls' = <<>>
    BY <2>1, BatchCalls
  <2>8. TurnTyped'
    BY <1>0, <2>1, <2>3, <2>5, <2>6, <2>7 DEF TurnTyped, LedgerTyped, OthersTyped
  <2>9. LedgerFits'
    <3>1. \A i \in DOMAIN attempts : attempts'[i].state # "dispatched"
      BY <2>2, <2>3 DEF TurnInd, LedgerFits, DispatchLedger, TurnOver
    <3>2. DispatchLedger'
      BY <3>1, <2>3, <2>5 DEF DispatchLedger
    <3> QED  BY <3>2, <1>0, <2>3, BudgetKept DEF TurnInd, LedgerFits
  <2>10. ResultFits' /\ AskedInTime'
    <3>1. ResultFits'
      BY <2>1, <2>7 DEF ResultFits
    <3>2. AskedInTime'
      BY <1>0, <2>1, <2>2, <2>5 DEF TurnInd, AskedInTime
    <3> QED  BY <3>1, <3>2
  <2>11. EffectsFit'
    <3>1. PastEffects' /\ RunnersApart' /\ NoEarlyCall'
      BY <1>0, <2>5, <2>6, EffectsKept DEF TurnInd
    <3>2. /\ \A x \in effects : x[1] = turn.count => x[2] = 0
          /\ \A f \in Supervisors : runner[f].pc = "run" => runner[f].call[1] # turn.count
      BY <2>1, <2>2 DEF TurnInd, EffectsFit, NoEarlyCall
    <3>3. ASSUME NEW i \in DOMAIN calls'
          PROVE  /\ <<turn.count, i>> \notin effects
                 /\ \A f \in Supervisors : runner'[f].pc = "run" => runner'[f].call # <<turn.count, i>>
      <4>1. i # 0
        BY <2>7
      <4>2. <<turn.count, i>> \notin effects
        BY <3>2, <4>1
      <4> QED  BY <4>2, <3>2, <2>6
    <3>4. PendingUntouched'
      BY <1>0, <2>5, <3>3 DEF PendingUntouched
    <3> QED  BY <3>1, <3>4 DEF EffectsFit
  <2>12. HolderAt("recorded")'
    BY <2>5 DEF HolderAt
  <2>13. repeated' = {}
    BY <1>0 DEF TurnInd, TurnEffectsOnce
  <2> QED  BY <1>0, <2>1, <2>2, <2>5, <2>6, <2>8, <2>9, <2>10, <2>11, <2>12, <2>13, HolderWorks
<1> QED  BY <1>1, <1>2, <1>3

LEMMA ModelReturnsKeeps ==
    ASSUME TurnInd, NEW e \in Supervisors, ModelReturns(e)
    PROVE  TurnInd'
<1>1. ASSUME NEW kind \in {"answer", "continue", "unusable"}, RecordTurnModelResult(e, kind, <<>>)
      PROVE  TurnInd'
  <2>1. <<>> \in Seq({"read", "local", "gated"})
    OBVIOUS
  <2> QED  BY <1>1, <2>1, RecordTurnModelResultKeeps
<1>2. ASSUME NEW batch \in budget.batches, RecordTurnModelResult(e, "tools", batch)
      PROVE  TurnInd'
  <2>1. batch \in Seq({"read", "local", "gated"})
    BY DEF TurnInd, TurnTyped, OthersTyped, BudgetRow
  <2> QED  BY <1>2, <2>1, RecordTurnModelResultKeeps
<1> QED  BY <1>1, <1>2 DEF ModelReturns

LEMMA CompleteConversationToolRoundKeeps ==
    ASSUME TurnInd, NEW e \in Supervisors, CompleteConversationToolRound(e),
           UNCHANGED <<attempts, finals, gate, conv, said, log, steers, effects, repeated, budget>>
    PROVE  TurnInd'
<1>0. TurnTyped /\ OthersTyped /\ LedgerTyped /\ turn \in TurnRow /\ Returns(e)
  BY DEF TurnInd, TurnTyped, CompleteConversationToolRound
<1> DEFINE Done == Holds(e) /\ turn.disp = "completed" /\ \A i \in DOMAIN calls : calls[i].state = "terminal"
<1>1. CASE ~Done
  BY <1>0, <1>1, OnlyReturns DEF CompleteConversationToolRound, OthersTyped
<1>2. CASE Done
  <2>1. /\ turn' = Released([turn EXCEPT !.state = "accepted", !.disp = "", !.rev = @ + 1])
        /\ ResultCleared
    BY <1>2 DEF CompleteConversationToolRound
  <2>2. turn' = RowWith("accepted", Nobody, FALSE, turn.cancel, turn.rev + 1, "", turn.started,
                        turn.count, turn.code, turn.asked)
    BY <2>1, <1>0, RowBack, Zenon
  <2>3. finals \subseteq 1..(turn.rev + 1)
    BY <1>0, RowFields DEF LedgerTyped
  <2>4. Holds(e) /\ turn.started \in BOOLEAN
    BY <1>0, <1>2, RowFields
  <2>5. \A i \in DOMAIN attempts : attempts[i].state # "dispatched"
    BY <1>2, HolderFacts, NoneDispatched
  <2>6. turn.rev + 1 \in {turn.rev, turn.rev + 1}
    OBVIOUS
  <2> QED  BY <1>0, <2>1, <2>2, <2>3, <2>4, <2>5, <2>6, ReturnsTyped, HolderGivesBack
           DEF LedgerTyped
<1> QED  BY <1>1, <1>2

LEMMA UseResultKeeps ==
    ASSUME TurnInd, NEW e \in Supervisors, UseResult(e)
    PROVE  TurnInd'
<1>0. /\ TurnTyped /\ OthersTyped /\ runner[e].pc = "recorded"
      /\ UNCHANGED <<gate, steers, effects, repeated, budget>>
  BY DEF TurnInd, TurnTyped, UseResult
<1>1. CASE /\ Holds(e) /\ result = "answer"
           /\ CommitTurn(e, "answer")
           /\ UNCHANGED <<attempts, finals, result, calls>>
  <2>1. ~TurnOver /\ turn.disp = "completed"
    <3>1. HolderAt("recorded") /\ ~TurnOver
      BY <1>0, <1>1, HolderFacts
    <3> QED  BY <3>1 DEF HolderAt
  <2>2. calls = <<>>
    BY <1>1 DEF TurnInd, ResultFits
  <2>3. turn.asked >= steers.rev
    BY <2>1, <2>2 DEF TurnInd, AskedInTime
  <2> QED  BY <1>0, <1>1, <2>3, CommitTurnKeeps
<1>2. CASE /\ Holds(e) /\ result = "continue"
           /\ CompleteConversationToolRound(e)
           /\ UNCHANGED <<attempts, finals, conv, said, log>>
  BY <1>0, <1>2, CompleteConversationToolRoundKeeps
<1>3. CASE /\ Holds(e) /\ result \in {"unusable", "tools"} /\ run.final
           /\ Goes(e, "fallback")
           /\ UNCHANGED <<turn, attempts, finals, result, calls, conv, said, log>>
  <2>1. "fallback" \in TurnPcs \ {"run"}
    BY DEF TurnPcs
  <2>2. HolderAt("fallback")'
    BY DEF HolderAt
  <2> QED  BY <1>0, <1>3, <2>1, <2>2, OnlyGoes
<1>4. CASE /\ Holds(e) /\ result \in {"unusable", "tools"} /\ ~run.final
           /\ NoFailureIntent(e)
           /\ UNCHANGED <<conv, said, log>>
  BY <1>0, <1>4, NoFailureIntentKeeps
<1>5. CASE /\ Holds(e) /\ result = "tools" /\ ~run.final
           /\ Goes(e, "tools")
           /\ UNCHANGED <<turn, attempts, finals, result, calls, conv, said, log>>
  <2>1. "tools" \in TurnPcs \ {"run"}
    BY DEF TurnPcs
  <2>2. HolderAt("recorded")
    BY <1>0, <1>5, HolderFacts
  <2>3. HolderAt("tools")'
    BY <1>5, <2>2 DEF HolderAt
  <2> QED  BY <1>0, <1>5, <2>1, <2>3, OnlyGoes
<1>6. CASE /\ ~Holds(e)
           /\ Returns(e)
           /\ UNCHANGED <<turn, attempts, finals, result, calls, conv, said, log>>
  BY <1>0, <1>6, OnlyReturns DEF OthersTyped
<1> QED  BY <1>1, <1>2, <1>3, <1>4, <1>5, <1>6 DEF UseResult

LEMMA FallbackKeeps ==
    ASSUME TurnInd, NEW e \in Supervisors, Fallback(e)
    PROVE  TurnInd'
BY CommitTurnKeeps DEF Fallback

(* The calls of the result with one of them changed.                       *)
CallPublic(s, c, p) == [s EXCEPT ![c].public = p]
LEMMA PublicCall ==
    ASSUME NEW s \in Seq(CallRow), NEW c, NEW p \in {"absent", "pending", "terminal"},
           NEW q, q = CallPublic(s, c, p)
    PROVE  /\ q \in Seq(CallRow) /\ DOMAIN q = DOMAIN s
           /\ \A i \in DOMAIN s : /\ q[i].tool = s[i].tool /\ q[i].state = s[i].state
                                  /\ i = c => q[i].public = p
<1>1. CASE c \notin DOMAIN s
  <2>1. q = s
    BY <1>1 DEF CallPublic
  <2> QED  BY <2>1, <1>1
<1>2. CASE c \in DOMAIN s
  <2> DEFINE a == [s[c] EXCEPT !.public = p]
  <2>1. s[c] \in CallRow
    BY <1>2
  <2>2. a \in CallRow /\ a.tool = s[c].tool /\ a.state = s[c].state /\ a.public = p
    BY <2>1 DEF CallRow
  <2>3. q = [s EXCEPT ![c] = a]
    BY <1>2 DEF CallPublic
  <2> HIDE DEF a
  <2> QED  BY <1>2, <2>2, <2>3
<1> QED  BY <1>1, <1>2

CallState(s, c, x) == [s EXCEPT ![c].state = x]
LEMMA MarkedCall ==
    ASSUME NEW s \in Seq(CallRow), NEW c, NEW x \in {"pending", "dispatched", "terminal"},
           NEW q, q = CallState(s, c, x)
    PROVE  /\ q \in Seq(CallRow) /\ DOMAIN q = DOMAIN s
           /\ \A i \in DOMAIN s : /\ q[i].tool = s[i].tool
                                  /\ i # c => q[i] = s[i]
                                  /\ i = c => q[i].state = x
<1>1. CASE c \notin DOMAIN s
  <2>1. q = s
    BY <1>1 DEF CallState
  <2> QED  BY <2>1, <1>1
<1>2. CASE c \in DOMAIN s
  <2> DEFINE a == [s[c] EXCEPT !.state = x]
  <2>1. s[c] \in CallRow
    BY <1>2
  <2>2. a \in CallRow /\ a.tool = s[c].tool /\ a.state = x
    BY <2>1 DEF CallRow
  <2>3. q = [s EXCEPT ![c] = a]
    BY <1>2 DEF CallState
  <2> HIDE DEF a
  <2> QED  BY <1>2, <2>2, <2>3
<1> QED  BY <1>1, <1>2

CallIs(s, c, x, p) == [s EXCEPT ![c].state = x, ![c].public = p]
LEMMA EndedCall ==
    ASSUME NEW s \in Seq(CallRow), NEW c, NEW x \in {"pending", "dispatched", "terminal"},
           NEW p \in {"absent", "pending", "terminal"},
           NEW q, q = CallIs(s, c, x, p)
    PROVE  /\ q \in Seq(CallRow) /\ DOMAIN q = DOMAIN s
           /\ \A i \in DOMAIN s : /\ q[i].tool = s[i].tool
                                  /\ i # c => q[i] = s[i]
                                  /\ i = c => q[i].state = x /\ q[i].public = p
<1>1. CASE c \notin DOMAIN s
  <2>1. q = s
    BY <1>1 DEF CallIs
  <2> QED  BY <2>1, <1>1
<1>2. CASE c \in DOMAIN s
  <2> DEFINE a == [s[c] EXCEPT !.state = x, !.public = p]
  <2>1. s[c] \in CallRow
    BY <1>2
  <2>2. a \in CallRow /\ a.tool = s[c].tool /\ a.state = x  /\ a.public = p
    BY <2>1 DEF CallRow
  <2>3. q = [s EXCEPT ![c] = a]
    BY <1>2 DEF CallIs
  <2> HIDE DEF a
  <2> QED  BY <1>2, <2>2, <2>3
<1> QED  BY <1>1, <1>2

LEMMA NoDomainEmpty ==
    ASSUME NEW S, NEW s \in Seq(S), DOMAIN s = {} PROVE s = <<>>
<1>1. Len(s) \in Nat /\ DOMAIN s = 1..Len(s)
  OBVIOUS
<1>2. Len(s) = 0
  BY <1>1
<1> QED  BY <1>2

LEMMA EmptyDomain ==
    ASSUME NEW S, NEW s \in Seq(S), s = <<>> PROVE DOMAIN s = {}
<1>1. Len(s) = 0
  OBVIOUS
<1> QED  BY <1>1, EmptyHasNone

(* The calls change under the lease and none becomes pending.              *)
LEMMA CallsMove ==
    ASSUME OthersTyped, ResultFits, calls' \in Seq(CallRow), DOMAIN calls' = DOMAIN calls,
           result' = result,
           \A i \in DOMAIN calls : calls'[i].tool # "read" => calls'[i].state # "dispatched"
    PROVE  ResultFits' /\ (calls' = <<>> => calls = <<>>)
<1>1. calls \in Seq(CallRow)
  BY DEF OthersTyped
<1>2. calls' = <<>> => calls = <<>>
  BY <1>1, EmptyDomain, NoDomainEmpty
<1>3. calls = <<>> => calls' = <<>>
  BY <1>1, EmptyDomain, NoDomainEmpty
<1> QED  BY <1>2, <1>3 DEF ResultFits

(* The holder goes on with a call that is made public, marked or over.     *)
LEMMA HolderMoves ==
    ASSUME TurnInd, NEW e \in Supervisors, Holds(e), turn.disp = "completed",
           calls' \in Seq(CallRow), DOMAIN calls' = DOMAIN calls,
           \A i \in DOMAIN calls : calls'[i].tool # "read" => calls'[i].state # "dispatched",
           \A i \in DOMAIN calls : calls'[i].state = "pending" => calls[i].state = "pending",
           NEW pc \in TurnPcs \ {"run"}, Goes(e, pc), HolderAt(pc)',
           log'.ends = 0, ~log'.late,
           UNCHANGED <<turn, attempts, finals, result, gate, conv, said, steers, effects,
                       repeated, budget>>
    PROVE  TurnInd'
<1>0. TurnTyped /\ OthersTyped /\ LedgerTyped
  BY DEF TurnInd, TurnTyped
<1>1. /\ ~TurnOver /\ ~turn.cancel /\ gate.state = "none" /\ turn.owner = e
      /\ turn.state = "running"
  BY HolderFacts
<1>2. /\ runner' \in [Supervisors -> RunnerRow] /\ runner'[e].pc = pc /\ run' = run
      /\ \A f \in Supervisors : runner'[f].pc = "run" => runner'[f] = runner[f]
  BY <1>0, GoesTyped DEF Goes
<1>3. ResultFits' /\ (calls' = <<>> => calls = <<>>)
  BY <1>0, CallsMove DEF TurnInd
<1>4. TurnTyped'
  BY <1>0, <1>2 DEF TurnTyped, LedgerTyped, OthersTyped
<1>5. LedgerFits'
  <2>1. DispatchBudget'
    BY BudgetKept DEF TurnInd
  <2> QED  BY <2>1 DEF TurnInd, LedgerFits, DispatchLedger
<1>6. AskedInTime'
  BY <1>1, <1>3 DEF TurnInd, AskedInTime, TurnOver
<1>7. EffectsFit'
  <2>1. PastEffects' /\ RunnersApart' /\ NoEarlyCall'
    BY <1>2, EffectsKept DEF TurnInd
  <2>2. ~GateRan
    BY <1>1 DEF GateRan
  <2>3. PendingUntouched'
    BY <1>1, <1>2, <2>2 DEF TurnInd, EffectsFit, PendingUntouched
  <2> QED  BY <2>1, <2>3 DEF EffectsFit
<1>8. repeated' = {}
  BY DEF TurnInd, TurnEffectsOnce
<1> QED  BY <1>1, <1>2, <1>3, <1>4, <1>5, <1>6, <1>7, <1>8, HolderWorks

LEMMA RecordConversationToolCallKeeps ==
    ASSUME TurnInd, NEW e \in Supervisors, RecordConversationToolCall(e)
    PROVE  TurnInd'
<1>0. /\ TurnTyped /\ OthersTyped /\ calls \in Seq(CallRow)
      /\ UNCHANGED <<attempts, finals, gate, conv, said, steers, effects, repeated, budget>>
  BY DEF TurnInd, TurnTyped, OthersTyped, RecordConversationToolCall
<1>1. CASE /\ Holds(e) /\ turn.disp = "completed" /\ Open # {}
           /\ calls' = [calls EXCEPT ![Current].public = "pending"]
           /\ IF calls[Current].public = "absent" THEN Logs("tool_call") ELSE UNCHANGED log
           /\ Goes(e, "call")
           /\ UNCHANGED <<turn, result>>
  <2>1. /\ calls' \in Seq(CallRow) /\ DOMAIN calls' = DOMAIN calls
        /\ \A i \in DOMAIN calls : /\ calls'[i].tool = calls[i].tool
                                   /\ calls'[i].state = calls[i].state
                                   /\ i = Current => calls'[i].public = "pending"
    <3>1. calls' = CallPublic(calls, Current, "pending")
      BY <1>1 DEF CallPublic
    <3> QED  BY <1>0, <3>1, PublicCall
  <2>2. log'.ends = 0 /\ ~log'.late
    <3>1. log.ends = 0 /\ ~log.late
      BY <1>1, HolderFacts
    <3> QED  BY <1>1, <3>1, LogsKept
  <2>3. \A i \in DOMAIN calls : calls'[i].tool # "read" => calls'[i].state # "dispatched"
    BY <2>1 DEF TurnInd, ResultFits
  <2>4. "call" \in TurnPcs \ {"run"}
    BY DEF TurnPcs
  <2>5. Open' = Open /\ Current' = Current
    <3>1. Open' = Open
      BY <2>1 DEF Open
    <3> QED  BY <3>1, CurrentKept
  <2>6. Current \in DOMAIN calls
    BY <1>0, <1>1, CurrentIsOpen DEF Open
  <2>7. HolderAt("call")'
    BY <1>1, <2>1, <2>5, <2>6 DEF HolderAt
  <2> QED  BY <1>0, <1>1, <2>1, <2>2, <2>3, <2>4, <2>7, HolderMoves
<1>2. CASE /\ Holds(e) /\ Open = {}
           /\ CompleteConversationToolRound(e)
           /\ UNCHANGED log
  BY <1>0, <1>2, CompleteConversationToolRoundKeeps
<1>3. CASE /\ ~Holds(e)
           /\ Returns(e)
           /\ UNCHANGED <<turn, result, calls, log>>
  BY <1>0, <1>3, OnlyReturns DEF OthersTyped
<1> QED  BY <1>1, <1>2, <1>3 DEF RecordConversationToolCall

(* FailConversationToolDispatch: the call is over with its turn.           *)
LEMMA FailConversationToolDispatchKeeps ==
    ASSUME TurnInd, NEW e \in Supervisors, Holds(e), NEW c \in TurnCodes \ {"answer"},
           FailConversationToolDispatch(e, c),
           UNCHANGED <<attempts, finals, result, gate, steers, effects, repeated, budget>>
    PROVE  TurnInd'
<1>0. TurnTyped /\ OthersTyped /\ calls \in Seq(CallRow)
  BY DEF TurnInd, TurnTyped, OthersTyped
<1>1. /\ turn' = Released([turn EXCEPT !.state = "failed", !.rev = @ + 1, !.code = c])
      /\ calls' = [calls EXCEPT ![Current].state = "terminal", ![Current].public = "terminal"]
      /\ Logs("end") /\ failedTurnTranscriptTx /\ Returns(e)
  BY DEF FailConversationToolDispatch
<1>2. /\ turn' \in TurnRow /\ turn'.state = "failed" /\ turn'.owner = Nobody
      /\ turn'.rev = turn.rev + 1 /\ turn'.count = turn.count
  <2>1. "failed" \in Terminal /\ turn \in TurnRow /\ c \in TurnCodes
    BY <1>0 DEF Terminal, TurnTyped
  <2>2. turn' = EndedRow(turn, "failed", c)
    BY <1>1 DEF EndedRow
  <2> QED  BY <2>1, <2>2, RowEnds
<1>3. /\ calls' \in Seq(CallRow) /\ DOMAIN calls' = DOMAIN calls
      /\ \A i \in DOMAIN calls : /\ calls'[i].tool = calls[i].tool
                                 /\ i # Current => calls'[i] = calls[i]
                                 /\ i = Current => calls'[i].state = "terminal"
  <2>1. calls' = CallIs(calls, Current, "terminal", "terminal")
    BY <1>1 DEF CallIs
  <2> QED  BY <1>0, <2>1, EndedCall
<1>4. OthersTyped'
  BY <1>0, <1>1, <1>3, ReturnsTyped DEF OthersTyped, failedTurnTranscriptTx
<1>5. ResultFits'
  <2>1. \A i \in DOMAIN calls : calls'[i].tool # "read" => calls'[i].state # "dispatched"
    BY <1>3 DEF TurnInd, ResultFits
  <2> QED  BY <1>0, <1>3, <2>1, CallsMove DEF TurnInd
<1>6. GateColumns'
  BY DEF TurnInd, GateColumns
<1>7. log'.ends = 1 /\ ~log'.late
  BY <1>1, HolderFacts, LogsEnd
<1>8. TranscriptExact'
  <2>1. /\ said \in [user : Nat, steer : Nat, assistant : Nat, failed : Nat]
        /\ said.steer = 0 /\ said.assistant = 0 /\ said.failed = 0
    BY DEF TurnInd, EndsFit, TranscriptExact, Holds
  <2>2. steers.count \in Nat
    BY <1>0 DEF OthersTyped
  <2>3. said' = [user |-> 1, steer |-> 0, assistant |-> 0, failed |-> 1]
    BY <2>1, <2>2, <1>1, SaidAdds DEF failedTurnTranscriptTx
  <2> QED  BY <2>3, <1>2 DEF TranscriptExact
<1>9. gate'.state \notin {"waiting", "dispatched"} /\ ~TurnOver
  BY HolderFacts
<1>10. turn'.state \in Terminal
  BY <1>2 DEF Terminal
<1> QED  BY <1>0, <1>1, <1>2, <1>4, <1>5, <1>6, <1>7, <1>8, <1>9, <1>10, ReturnsTyped, TurnEnds

LEMMA BeginConversationToolDispatchKeeps ==
    ASSUME TurnInd, NEW e \in Supervisors, BeginConversationToolDispatch(e)
    PROVE  TurnInd'
<1>0. /\ TurnTyped /\ OthersTyped /\ LedgerTyped /\ calls \in Seq(CallRow)
      /\ runner[e].pc = "call" /\ (Holds(e) => calls[Current].tool = "read")
      /\ UNCHANGED <<attempts, finals, result, gate, steers, effects, repeated, budget>>
  BY DEF TurnInd, TurnTyped, OthersTyped, BeginConversationToolDispatch
<1>1. CASE /\ Holds(e) /\ calls[Current].state = "pending"
           /\ calls' = [calls EXCEPT ![Current].state = "dispatched"]
           /\ runner' = [runner EXCEPT ![e] = [pc |-> "run", call |-> <<turn.count, Current>>]]
           /\ UNCHANGED run
           /\ UNCHANGED <<turn, conv, said, log>>
  <2> DEFINE x == <<turn.count, Current>>
             r == [pc |-> "run", call |-> x]
  <2>1. /\ calls' \in Seq(CallRow) /\ DOMAIN calls' = DOMAIN calls
        /\ \A i \in DOMAIN calls : /\ calls'[i].tool = calls[i].tool
                                   /\ i # Current => calls'[i] = calls[i]
                                   /\ i = Current => calls'[i].state = "dispatched"
    <3>1. calls' = CallState(calls, Current, "dispatched")
      BY <1>1 DEF CallState
    <3> QED  BY <1>0, <3>1, MarkedCall
  <2>2. /\ ~TurnOver /\ ~turn.cancel /\ gate.state = "none" /\ turn.owner = e
        /\ turn.state = "running" /\ log.ends = 0 /\ ~log.late /\ HolderAt("call")
    BY <1>0, <1>1, HolderFacts
  <2>3. turn.disp = "completed" /\ Open # {}
    BY <2>2 DEF HolderAt
  <2>4. Current \in DOMAIN calls /\ Current \in Nat \ {0} /\ turn.count \in Nat
    <3>1. Current \in DOMAIN calls
      BY <1>0, <2>3, CurrentIsOpen DEF Open
    <3>2. turn.count \in Nat
      BY <1>0, RowFields DEF TurnTyped
    <3> QED  BY <3>1, <3>2, <1>0
  <2>5. x \in Nat \X (Nat \ {0}) /\ x # <<>> /\ x[1] = turn.count
    BY <2>4
  <2>6. r \in RunnerRow /\ r.pc = "run" /\ r.call = x
    <3> HIDE DEF x
    <3> QED  BY <2>5 DEF RunnerRow, TurnPcs
  <2>7. runner' = [runner EXCEPT ![e] = r]
    BY <1>1
  <2> HIDE DEF r, x
  <2>8. /\ runner' \in [Supervisors -> RunnerRow] /\ runner'[e].pc = "run" /\ runner'[e].call = x
        /\ \A f \in Supervisors : f # e => runner'[f] = runner[f]
    BY <1>0, <2>6, <2>7 DEF OthersTyped
  <2>9. x \notin effects /\ \A f \in Supervisors : runner[f].pc = "run" => runner[f].call # x
    <3>1. ~GateRan
      BY <2>2 DEF GateRan
    <3> QED  BY <1>1, <2>2, <2>3, <2>4, <3>1 DEF TurnInd, EffectsFit, PendingUntouched, x
  <2>10. TurnTyped'
    BY <1>0, <1>1, <2>1, <2>8 DEF TurnTyped, LedgerTyped, OthersTyped
  <2>11. LedgerFits'
    <3>1. DispatchBudget'
      BY <1>0, BudgetKept DEF TurnInd
    <3> QED  BY <1>0, <1>1, <3>1 DEF TurnInd, LedgerFits, DispatchLedger
  <2>12. ResultFits' /\ AskedInTime'
    <3>1. \A i \in DOMAIN calls : calls'[i].tool # "read" => calls'[i].state # "dispatched"
      BY <1>0, <1>1, <2>1 DEF TurnInd, ResultFits
    <3>2. ResultFits' /\ (calls' = <<>> => calls = <<>>)
      BY <1>0, <2>1, <3>1, CallsMove DEF TurnInd
    <3>3. AskedInTime'
      BY <1>0, <1>1, <2>2, <3>2 DEF TurnInd, AskedInTime, TurnOver
    <3> QED  BY <3>2, <3>3
  <2>13. EffectsFit'
    <3>1. PastEffects' /\ NoEarlyCall'
      BY <1>0, <1>1, <2>3 DEF TurnInd, EffectsFit, PastEffects, NoEarlyCall
    <3>2. RunnersApart'
      <4>1. turn.count <= turn.count
        BY <2>4
      <4>2. ASSUME NEW f \in Supervisors, runner'[f].pc = "run"
            PROVE  /\ runner'[f].call # <<>> /\ runner'[f].call \notin effects'
                   /\ runner'[f].call[1] <= turn'.count
                   /\ \A g \in Supervisors : g # f /\ runner'[g].pc = "run" =>
                          runner'[g].call # runner'[f].call
        <5>1. CASE f = e
          BY <1>0, <1>1, <2>5, <2>8, <2>9, <4>1, <5>1
        <5>2. CASE f # e
          BY <1>0, <1>1, <2>8, <2>9, <4>2, <5>2 DEF TurnInd, EffectsFit, RunnersApart
        <5> QED  BY <5>1, <5>2
      <4> QED  BY <4>2 DEF RunnersApart
    <3>3. PendingUntouched'
      <4>1. ASSUME NEW i \in DOMAIN calls', calls'[i].state = "pending"
            PROVE  /\ <<turn.count, i>> \notin effects
                   /\ \A f \in Supervisors : runner'[f].pc = "run" => runner'[f].call # <<turn.count, i>>
        <5>1. i # Current /\ i \in DOMAIN calls /\ calls[i].state = "pending"
          BY <2>1, <4>1
        <5>2. x # <<turn.count, i>>
          BY <5>1 DEF x
        <5>3. ~GateRan
          BY <2>2 DEF GateRan
        <5>4. /\ <<turn.count, i>> \notin effects
              /\ \A f \in Supervisors : runner[f].pc = "run" => runner[f].call # <<turn.count, i>>
          BY <2>2, <2>3, <5>1, <5>3 DEF TurnInd, EffectsFit, PendingUntouched
        <5> QED  BY <2>8, <5>2, <5>4
      <4> QED  BY <1>0, <1>1, <4>1 DEF PendingUntouched
    <3> QED  BY <3>1, <3>2, <3>3 DEF EffectsFit
  <2>14. HolderAt("run")'
    BY <1>1, <2>3 DEF HolderAt
  <2>15. repeated' = {}
    BY <1>0 DEF TurnInd, TurnEffectsOnce
  <2> QED  BY <1>0, <1>1, <2>2, <2>8, <2>10, <2>11, <2>12, <2>13, <2>14, <2>15, HolderWorks
<1>2. CASE /\ Holds(e) /\ calls[Current].state = "dispatched"
           /\ FailConversationToolDispatch(e, "tool_dispatch_uncertain")
  <2>1. "tool_dispatch_uncertain" \in TurnCodes \ {"answer"}
    BY DEF TurnCodes
  <2> QED  BY <1>0, <1>2, <2>1, FailConversationToolDispatchKeeps
<1>3. CASE /\ ~Holds(e)
           /\ Returns(e)
           /\ UNCHANGED <<turn, calls, conv, said, log>>
  BY <1>0, <1>3, OnlyReturns DEF OthersTyped
<1> QED  BY <1>1, <1>2, <1>3 DEF BeginConversationToolDispatch

(* The tool is run by its one supervisor, lease or not.                    *)
LEMMA RunToolKeeps ==
    ASSUME TurnInd, NEW e \in Supervisors, RunTool(e)
    PROVE  TurnInd'
<1> DEFINE x == runner[e].call
<1>0. /\ TurnTyped /\ OthersTyped /\ LedgerTyped /\ runner[e].pc = "run"
      /\ runner' = [runner EXCEPT ![e] = [pc |-> "ran", call |-> <<>>]]
      /\ Calls(x)
      /\ UNCHANGED <<run, turn, attempts, finals, result, calls, gate, conv, said, log, steers,
                     budget>>
  BY DEF TurnInd, TurnTyped, RunTool
<1>1. /\ x # <<>> /\ x \notin effects /\ x[1] <= turn.count
      /\ \A f \in Supervisors : f # e /\ runner[f].pc = "run" => runner[f].call # x
  BY <1>0 DEF TurnInd, EffectsFit, RunnersApart
<1>2. x \in Nat \X (Nat \ {0})
  <2>1. x \in {<<>>} \cup (Nat \X (Nat \ {0}))
    BY <1>0 DEF OthersTyped, RunnerRow
  <2> QED  BY <1>1, <2>1
<1>3. effects' = effects \cup {x} /\ repeated' = repeated
  BY <1>0, <1>1 DEF Calls
<1> HIDE DEF x
<1>4. /\ runner' \in [Supervisors -> RunnerRow] /\ runner'[e].pc = "ran"
      /\ \A f \in Supervisors : f # e => runner'[f] = runner[f]
  <2>1. [pc |-> "ran", call |-> <<>>] \in RunnerRow
    BY DEF RunnerRow, TurnPcs
  <2> QED  BY <1>0, <2>1 DEF OthersTyped
<1>5. TurnTyped'
  <2>1. effects' \subseteq Nat \X Nat
    <3>1. effects \subseteq Nat \X Nat
      BY <1>0 DEF OthersTyped
    <3> QED  BY <1>2, <1>3, <3>1
  <2> QED  BY <1>0, <1>4, <2>1 DEF TurnTyped, LedgerTyped, OthersTyped
<1>6. Open' = Open /\ Current' = Current
  BY <1>0, OpenKept
<1>7. /\ LeaseFits' /\ LedgerFits' /\ EndsFit' /\ ResultFits' /\ GateColumns' /\ AskedInTime'
      /\ GuidanceHeard' /\ TurnEffectsOnce'
  BY <1>0, <1>3 DEF TurnInd, LeaseFits, LedgerFits, EndsFit, ResultFits, GateColumns, AskedInTime,
         GuidanceHeard, TurnEffectsOnce, TurnOver, DispatchLedger, DispatchBudget,
         TranscriptExact, LogClosesOnce
<1>8. GateFits'
  BY <1>0, <1>6 DEF TurnInd, GateFits, TurnOver
<1>9. \A f \in Supervisors : runner'[f].pc = "run" => f # e /\ runner'[f] = runner[f] /\ runner[f].call # x
  BY <1>1, <1>4
<1>10. \A y \in effects' : y \in effects \/ y = x
  BY <1>3
<1>11. PastEffects' /\ RunnersApart'
  <2>1. PastEffects'
    BY <1>0, <1>1, <1>10 DEF TurnInd, EffectsFit, PastEffects
  <2>2. RunnersApart'
    BY <1>0, <1>9, <1>10 DEF TurnInd, EffectsFit, RunnersApart
  <2> QED  BY <2>1, <2>2
<1>12. NoEarlyCall'
  <2>1. ~TurnOver /\ turn.disp = "dispatched" => x[1] # turn.count
    BY <1>0 DEF TurnInd, EffectsFit, NoEarlyCall, x
  <2>2. TurnOver' = TurnOver
    BY <1>0 DEF TurnOver
  <2>3. ASSUME ~TurnOver, turn.disp = "dispatched"
        PROVE  \A y \in effects' : y[1] = turn.count => y[2] = 0
    BY <1>10, <2>1, <2>3 DEF TurnInd, EffectsFit, NoEarlyCall
  <2>4. ASSUME ~TurnOver, turn.disp = "dispatched"
        PROVE  \A f \in Supervisors : runner'[f].pc = "run" => runner'[f].call[1] # turn.count
    BY <1>9, <2>4 DEF TurnInd, EffectsFit, NoEarlyCall
  <2> QED  BY <1>0, <2>2, <2>3, <2>4 DEF NoEarlyCall
<1>13. PendingUntouched'
  <2>1. TurnOver' = TurnOver /\ GateRan' = GateRan
    BY <1>0 DEF TurnOver, GateRan
  <2>2. ASSUME ~TurnOver, turn.disp = "completed", NEW i \in DOMAIN calls, calls[i].state = "pending"
        PROVE  /\ <<turn.count, i>> \in effects' => GateRan /\ i = Current
               /\ \A f \in Supervisors : runner'[f].pc = "run" => runner'[f].call # <<turn.count, i>>
    <3>1. /\ <<turn.count, i>> \in effects => GateRan /\ i = Current
          /\ \A f \in Supervisors : runner[f].pc = "run" => runner[f].call # <<turn.count, i>>
      BY <2>2 DEF TurnInd, EffectsFit, PendingUntouched
    <3>2. x # <<turn.count, i>>
      BY <1>0, <3>1 DEF x
    <3> QED  BY <1>9, <1>10, <3>1, <3>2
  <2> QED  BY <1>0, <1>6, <2>1, <2>2 DEF PendingUntouched
<1>14. ASSUME NEW f \in Supervisors, Holds(f)', NEW pc, pc = runner'[f].pc PROVE HolderAt(pc)'
  <2>1. Holds(f)
    BY <1>0, <1>14 DEF Holds
  <2>2. CASE f = e
    <3>1. HolderAt("run")
      BY <1>0, <2>1, <2>2 DEF TurnInd, HolderFits
    <3>2. pc = "ran"
      BY <1>4, <1>14, <2>2
    <3> QED  BY <1>0, <3>1, <3>2 DEF HolderAt
  <2>3. CASE f # e
    <3>1. HolderAt(pc)
      BY <1>4, <1>14, <2>1, <2>3 DEF TurnInd, HolderFits
    <3>2. FinalAttempts' = FinalAttempts
      BY <1>0 DEF FinalAttempts
    <3>3. x # <<turn.count, 0>>
      BY <1>2
    <3>4. <<turn.count, 0>> \notin effects => <<turn.count, 0>> \notin effects'
      BY <1>10, <3>3
    <3> QED  BY <1>0, <1>6, <3>1, <3>2, <3>4 DEF HolderAt
  <2> QED  BY <2>2, <2>3
<1>15. HolderFits'
  BY <1>14 DEF HolderFits
<1> QED  BY <1>5, <1>7, <1>8, <1>11, <1>12, <1>13, <1>15 DEF TurnInd, EffectsFit

LEMMA RecordConversationToolResultKeeps ==
    ASSUME TurnInd, NEW e \in Supervisors, RecordConversationToolResult(e)
    PROVE  TurnInd'
<1>0. /\ TurnTyped /\ OthersTyped /\ LedgerTyped /\ calls \in Seq(CallRow) /\ turn \in TurnRow
      /\ runner[e].pc = "ran"
      /\ UNCHANGED <<attempts, gate, steers, effects, repeated, budget>>
  BY DEF TurnInd, TurnTyped, OthersTyped, RecordConversationToolResult
<1>1. Holds(e) => turn.disp = "completed" /\ log.ends = 0 /\ ~log.late
  <2>1. Holds(e) => HolderAt("ran") /\ log.ends = 0 /\ ~log.late
    BY <1>0, HolderFacts
  <2> QED  BY <2>1 DEF HolderAt
<1>2. "tools" \in TurnPcs \ {"run"} /\ "tool_result" # "end"
  BY DEF TurnPcs
<1>3. CASE /\ Holds(e)
           /\ calls' = [calls EXCEPT ![Current].state = "terminal", ![Current].public = "terminal"]
           /\ Logs("tool_result")
           /\ Goes(e, "tools")
           /\ UNCHANGED <<turn, finals, result, conv, said>>
  <2>1. /\ calls' \in Seq(CallRow) /\ DOMAIN calls' = DOMAIN calls
        /\ \A i \in DOMAIN calls : /\ calls'[i].tool = calls[i].tool
                                   /\ i # Current => calls'[i] = calls[i]
                                   /\ i = Current => calls'[i].state = "terminal"
    <3>1. calls' = CallIs(calls, Current, "terminal", "terminal")
      BY <1>3 DEF CallIs
    <3> QED  BY <1>0, <3>1, EndedCall
  <2>2. \A i \in DOMAIN calls : calls'[i].tool # "read" => calls'[i].state # "dispatched"
    BY <1>3, <2>1 DEF TurnInd, ResultFits
  <2>3. \A i \in DOMAIN calls : calls'[i].state = "pending" => calls[i].state = "pending"
    BY <2>1
  <2>4. log'.ends = 0 /\ ~log'.late
    BY <1>1, <1>2, <1>3, LogsKept
  <2>5. HolderAt("tools")'
    BY <1>1, <1>3 DEF HolderAt
  <2> QED  BY <1>0, <1>1, <1>2, <1>3, <2>1, <2>2, <2>3, <2>4, <2>5, HolderMoves
<1>4. CASE /\ Holds(e) /\ ~Finalizing
           /\ StalledFinalization
           /\ Logs("tool_result")
           /\ Goes(e, "tools")
           /\ UNCHANGED <<conv, said>>
  <2>1. /\ turn' = Released([turn EXCEPT !.state = "accepted", !.disp = ""])
        /\ finals' = finals \cup {turn.rev} /\ ResultCleared
    BY <1>4 DEF StalledFinalization
  <2>2. turn' = RowWith("accepted", Nobody, FALSE, turn.cancel, turn.rev, "", turn.started,
                        turn.count, turn.code, turn.asked)
    BY <2>1, <1>0, RowBack, Zenon
  <2>3. finals' \subseteq 1..turn.rev
    BY <2>1, <1>0, RowFields, IntentTyped DEF LedgerTyped
  <2>4. turn.started \in BOOLEAN /\ turn.rev \in {turn.rev, turn.rev + 1}
    BY <1>0, RowFields
  <2>5. \A i \in DOMAIN attempts : attempts[i].state # "dispatched"
    BY <1>1, <1>4, HolderFacts, NoneDispatched
  <2>6. /\ runner' \in [Supervisors -> RunnerRow] /\ run' \in RunRow
        /\ \A f \in Supervisors : runner'[f].pc = "run" => runner'[f] = runner[f]
    BY <1>0, <1>2, <1>4, GoesTyped DEF Goes, OthersTyped
  <2>7. attempts' = attempts /\ attempts' \in Seq(AttemptRow)
    BY <1>0 DEF LedgerTyped
  <2> QED  BY <1>0, <1>4, <2>1, <2>2, <2>3, <2>4, <2>5, <2>6, <2>7, HolderGivesBack
<1>5. CASE /\ Holds(e)
           /\ FailConversationToolDispatch(e, "invalid_tool_result")
           /\ UNCHANGED <<finals, result>>
  <2>1. "invalid_tool_result" \in TurnCodes \ {"answer"}
    BY DEF TurnCodes
  <2> QED  BY <1>0, <1>5, <2>1, FailConversationToolDispatchKeeps
<1>6. CASE /\ ~Holds(e)
           /\ Returns(e)
           /\ UNCHANGED <<turn, calls, finals, result, conv, said, log>>
  BY <1>0, <1>6, OnlyReturns DEF OthersTyped
<1> QED  BY <1>3, <1>4, <1>5, <1>6 DEF RecordConversationToolResult

(* A turn without a lease keeps its dispatch and its result.               *)
LEMMA WaitsUnleased ==
    ASSUME TurnInd, ~TurnOver,
           NEW s \in {"accepted", "running", "waiting_confirmation"}, NEW x \in BOOLEAN,
           NEW r \in {turn.rev, turn.rev + 1}, x => s \in {"accepted", "running"},
           turn' = RowWith(s, Nobody, FALSE, x, r, turn.disp, turn.started, turn.count,
                           turn.code, turn.asked),
           gate' \in GateRow, GateColumns', GateFits',
           calls' \in Seq(CallRow), ResultFits', calls' = <<>> => calls = <<>>, PendingUntouched',
           runner' \in [Supervisors -> RunnerRow], run' \in RunRow,
           \A f \in Supervisors : runner'[f].pc = "run" => runner'[f] = runner[f],
           log'.ends = 0, ~log'.late,
           UNCHANGED <<attempts, finals, result, conv, said, steers, effects, repeated, budget>>
    PROVE  TurnInd'
<1>0. TurnTyped /\ OthersTyped /\ LedgerTyped /\ turn \in TurnRow /\ Nobody \notin Supervisors
  BY TurnAssumption DEF TurnInd, TurnTyped
<1>1. /\ turn' \in TurnRow /\ turn'.state = s /\ turn'.owner = Nobody /\ turn'.cancel = x
      /\ turn'.rev = r /\ turn'.disp = turn.disp /\ turn'.started = turn.started
      /\ turn'.count = turn.count /\ turn'.asked = turn.asked
  <2>1. s \in TurnStates
    BY DEF TurnStates
  <2>2. r \in Nat \ {0}
    BY <1>0, RowFields
  <2> QED  BY <1>0, <2>1, <2>2, RowFields DEF RowWith, TurnRow
<1>2. ~TurnOver'
  BY <1>1 DEF TurnOver, Terminal
<1>3. steers.rev <= r /\ finals \subseteq 1..r
  <2>1. steers.rev <= turn.rev /\ steers.rev \in Nat /\ turn.rev \in Nat
    BY <1>0, RowFields DEF TurnInd, AskedInTime, OthersTyped
  <2>2. finals \subseteq 1..turn.rev
    BY <1>0 DEF LedgerTyped
  <2> QED  BY <2>1, <2>2
<1>4. TurnTyped'
  BY <1>0, <1>1, <1>3 DEF TurnTyped, LedgerTyped, OthersTyped
<1>5. LeaseFits'
  BY <1>0, <1>1 DEF LeaseFits
<1>6. LedgerFits'
  <2>1. DispatchBudget'
    BY BudgetKept DEF TurnInd
  <2> QED  BY <1>1, <2>1 DEF TurnInd, LedgerFits, DispatchLedger, TurnOver
<1>7. EndsFit'
  <2>1. TranscriptExact'
    BY <1>1 DEF TurnInd, EndsFit, TranscriptExact, TurnOver, Terminal
  <2> QED  BY <2>1, <1>2 DEF EndsFit, LogClosesOnce, TurnOver
<1>8. AskedInTime' /\ GuidanceHeard' /\ TurnEffectsOnce'
  <2>1. AskedInTime'
    BY <1>1, <1>3 DEF TurnInd, AskedInTime
  <2>2. GuidanceHeard' /\ TurnEffectsOnce'
    BY <1>1 DEF TurnInd, GuidanceHeard, TurnEffectsOnce
  <2> QED  BY <2>1, <2>2
<1>9. EffectsFit'
  <2>1. PastEffects' /\ RunnersApart'
    BY <1>1, EffectsKept DEF TurnInd
  <2>2. NoEarlyCall'
    BY <1>1, EffectsKept DEF TurnInd
  <2> QED  BY <2>1, <2>2 DEF EffectsFit
<1>10. HolderFits'
  BY <1>0, <1>1 DEF HolderFits, Holds
<1> QED  BY <1>4, <1>5, <1>6, <1>7, <1>8, <1>9, <1>10 DEF TurnInd

LEMMA PrepareConversationToolKeeps ==
    ASSUME TurnInd, NEW e \in Supervisors, PrepareConversationTool(e)
    PROVE  TurnInd'
<1>0. /\ TurnTyped /\ OthersTyped /\ calls \in Seq(CallRow) /\ turn \in TurnRow
      /\ runner[e].pc = "call" /\ Holds(e) /\ calls[Current].tool # "read"
      /\ UNCHANGED <<attempts, finals, result, calls, steers, effects, repeated, budget>>
  BY DEF TurnInd, TurnTyped, OthersTyped, PrepareConversationTool
<1>1. CASE /\ turn.rev = run.rev
           /\ turn' = Released([turn EXCEPT !.state = "waiting_confirmation", !.rev = @ + 1])
           /\ gate' = [state |-> "waiting", slot |-> FALSE,
                       task |-> IF calls[Current].tool = "gated" THEN "waiting_user" ELSE "queued"]
           /\ IF calls[Current].tool = "gated" THEN Logs("waiting") ELSE UNCHANGED log
           /\ Returns(e)
           /\ UNCHANGED <<conv, said>>
  <2>1. /\ ~TurnOver /\ ~turn.cancel /\ gate.state = "none" /\ log.ends = 0 /\ ~log.late
        /\ HolderAt("call")
    BY <1>0, HolderFacts
  <2>2. turn.disp = "completed" /\ Open # {} /\ calls[Current].public = "pending"
    BY <2>1 DEF HolderAt
  <2>3. turn' = RowWith("waiting_confirmation", Nobody, FALSE, FALSE, turn.rev + 1, turn.disp,
                        turn.started, turn.count, turn.code, turn.asked)
    <3>1. ASSUME NEW t \in TurnRow, NEW u, ~t.cancel,
                 u = Released([t EXCEPT !.state = "waiting_confirmation", !.rev = @ + 1])
          PROVE  u = RowWith("waiting_confirmation", Nobody, FALSE, FALSE, t.rev + 1, t.disp,
                             t.started, t.count, t.code, t.asked)
      BY <3>1 DEF Released, RowWith, TurnRow
    <3> QED  BY <3>1, <1>0, <1>1, <2>1, Zenon
  <2>4. turn'.state = "waiting_confirmation" /\ turn'.disp = "completed"
    BY <2>2, <2>3 DEF RowWith
  <2>5. gate' \in GateRow /\ GateColumns'
    BY <1>1 DEF GateRow, GateColumns
  <2>6. GateFits'
    <3>1. Open' = Open /\ Current' = Current
      BY <1>0, OpenKept
    <3> QED  BY <1>0, <1>1, <2>2, <2>4, <3>1 DEF GateFits
  <2>7. log'.ends = 0 /\ ~log'.late
    <3>1. "waiting" # "end"
      OBVIOUS
    <3> QED  BY <1>1, <2>1, <3>1, LogsKept
  <2>8. /\ runner' \in [Supervisors -> RunnerRow] /\ run' \in RunRow
        /\ \A f \in Supervisors : runner'[f].pc = "run" => runner'[f] = runner[f]
    BY <1>0, <1>1, ReturnsTyped
  <2>9. PendingUntouched'
    <3>1. ~GateRan /\ turn'.count = turn.count
      BY <2>1, <2>3 DEF GateRan, RowWith
    <3> QED  BY <1>0, <2>1, <2>2, <2>8, <3>1 DEF TurnInd, EffectsFit, PendingUntouched
  <2>10. ResultFits'
    BY <1>0 DEF TurnInd, ResultFits
  <2>11. turn.rev + 1 \in {turn.rev, turn.rev + 1} /\ FALSE \in BOOLEAN
         /\ "waiting_confirmation" \in {"accepted", "running", "waiting_confirmation"}
    OBVIOUS
  <2> QED  BY <1>0, <1>1, <2>1, <2>3, <2>5, <2>6, <2>7, <2>8, <2>9, <2>10, <2>11, WaitsUnleased
<1>2. CASE /\ turn.rev # run.rev
           /\ FailTurn(e, "tool_prepare_failed")
           /\ UNCHANGED gate
  <2>1. "tool_prepare_failed" \in TurnCodes \ {"answer"}
    BY DEF TurnCodes
  <2> QED  BY <1>0, <1>2, <2>1, FailTurnKeeps
<1> QED  BY <1>1, <1>2 DEF PrepareConversationTool

LEMMA EndCanceledKeeps ==
    ASSUME TurnInd, NEW e \in Supervisors, EndCanceled(e)
    PROVE  TurnInd'
BY CancelKeeps DEF EndCanceled

LEMMA BudgetSpent ==
    ASSUME NEW b \in BudgetRow, NEW q,
           \/ b.stops > 0 /\ q = [b EXCEPT !.stops = @ - 1]
           \/ b.others > 0 /\ q = [b EXCEPT !.others = @ - 1]
           \/ b.steers > 0 /\ q = [b EXCEPT !.steers = @ - 1]
    PROVE  q \in BudgetRow /\ q.max = b.max
<1>1. b.stops \in Nat /\ b.others \in Nat /\ b.steers \in Nat
  BY DEF BudgetRow
<1>2. CASE b.stops > 0 /\ q = [b EXCEPT !.stops = @ - 1]
  <2>1. b.stops - 1 \in Nat
    BY <1>1, <1>2
  <2> QED  BY <1>2, <2>1 DEF BudgetRow
<1>3. CASE b.others > 0 /\ q = [b EXCEPT !.others = @ - 1]
  <2>1. b.others - 1 \in Nat
    BY <1>1, <1>3
  <2> QED  BY <1>3, <2>1 DEF BudgetRow
<1>4. CASE b.steers > 0 /\ q = [b EXCEPT !.steers = @ - 1]
  <2>1. b.steers - 1 \in Nat
    BY <1>1, <1>4
  <2> QED  BY <1>4, <2>1 DEF BudgetRow
<1> QED  BY <1>2, <1>3, <1>4

LEMMA InterruptedKeeps ==
    ASSUME TurnInd, NEW e \in Supervisors, Interrupted(e)
    PROVE  TurnInd'
<1>1. budget \in BudgetRow
  BY DEF TurnInd, TurnTyped, OthersTyped
<1> QED  BY <1>1, OnlyReturns DEF Interrupted

LEMMA StopKeeps ==
    ASSUME TurnInd, NEW e \in Supervisors, Stop(e)
    PROVE  TurnInd'
<1>1. budget \in BudgetRow
  BY DEF TurnInd, TurnTyped, OthersTyped
<1>2. budget' \in BudgetRow /\ budget'.max = budget.max
  BY <1>1, BudgetSpent DEF Stop
<1> QED  BY <1>2, OnlyReturns DEF Stop

LEMMA LeaseClockKeeps ==
    ASSUME TurnInd, LeaseRunsOut \/ \E e \in Supervisors : RenewTurn(e)
    PROVE  TurnInd'
<1>1. turn \in TurnRow /\ budget \in BudgetRow /\ conv \in Nat
  BY DEF TurnInd, TurnTyped, OthersTyped
<1>2. PICK b \in BOOLEAN : turn' = [turn EXCEPT !.live = b]
  BY DEF LeaseRunsOut, RenewTurn
<1>3. turn' = RowWith(turn.state, turn.owner, b, turn.cancel, turn.rev, turn.disp, turn.started,
                      turn.count, turn.code, turn.asked)
  BY <1>1, <1>2, RowWorks, Zenon
<1>4. /\ turn' \in TurnRow /\ turn'.state = turn.state /\ turn'.owner = turn.owner
      /\ turn'.cancel = turn.cancel /\ turn'.rev = turn.rev /\ turn'.disp = turn.disp
      /\ turn'.started = turn.started /\ turn'.count = turn.count /\ turn'.code = turn.code
      /\ turn'.asked = turn.asked
  BY <1>1, <1>3, RowFields DEF RowWith, TurnRow
<1> QED  BY <1>1, <1>4, AccountStays DEF LeaseRunsOut, RenewTurn

LEMMA OtherTurnCommitsKeeps ==
    ASSUME TurnInd, OtherTurnCommits
    PROVE  TurnInd'
<1>1. turn \in TurnRow /\ budget \in BudgetRow /\ conv \in Nat
  BY DEF TurnInd, TurnTyped, OthersTyped
<1>2. budget' \in BudgetRow /\ budget'.max = budget.max
  BY <1>1, BudgetSpent DEF OtherTurnCommits
<1>3. conv' \in Nat
  BY <1>1 DEF OtherTurnCommits
<1> QED  BY <1>1, <1>2, <1>3, AccountStays DEF OtherTurnCommits

(* The task of the gated call moves on and the turn waits.                 *)
LEMMA GateMoves ==
    ASSUME TurnInd, gate.state # "none", gate' \in GateRow, GateColumns', gate'.state # "none",
           gate'.state \in {"waiting", "dispatched"} => gate.state \in {"waiting", "dispatched"},
           GateRan => gate'.state \in {"dispatched", "ended"},
           UNCHANGED <<turn, attempts, finals, result, calls, runner, run, conv, said, log, steers,
                       effects, repeated, budget>>
    PROVE  TurnInd'
<1>1. Open' = Open /\ Current' = Current
  BY OpenKept
<1>2. TurnTyped'
  BY DEF TurnInd, TurnTyped, LedgerTyped, OthersTyped
<1>3. /\ LeaseFits' /\ LedgerFits' /\ EndsFit' /\ ResultFits' /\ AskedInTime'
      /\ GuidanceHeard' /\ TurnEffectsOnce'
  BY DEF TurnInd, LeaseFits, LedgerFits, EndsFit, ResultFits, AskedInTime,
         GuidanceHeard, TurnEffectsOnce, TurnOver, DispatchLedger, DispatchBudget,
         TranscriptExact, LogClosesOnce
<1>4. GateFits'
  BY <1>1 DEF TurnInd, GateFits, TurnOver
<1>5. PastEffects' /\ RunnersApart' /\ NoEarlyCall'
  BY DEF TurnInd, EffectsFit, PastEffects, RunnersApart, NoEarlyCall, TurnOver
<1>6. PendingUntouched'
  BY <1>1 DEF TurnInd, EffectsFit, PendingUntouched, TurnOver, GateRan
<1>7. ASSUME NEW f \in Supervisors, Holds(f)', NEW pc, pc = runner'[f].pc PROVE HolderAt(pc)'
  <2>1. HolderAt(pc)
    BY <1>7 DEF TurnInd, HolderFits, Holds
  <2>2. FinalAttempts' = FinalAttempts
    BY DEF FinalAttempts
  <2> QED  BY <2>1, <2>2, <1>1 DEF HolderAt
<1>8. HolderFits'
  BY <1>7 DEF HolderFits
<1> QED  BY <1>2, <1>3, <1>4, <1>5, <1>6, <1>8 DEF TurnInd, EffectsFit

LEMMA ConfirmToolKeeps ==
    ASSUME TurnInd, ConfirmTool PROVE TurnInd'
<1>1. gate \in GateRow /\ GateColumns
  BY DEF TurnInd, TurnTyped, OthersTyped
<1>2. gate' \in GateRow /\ GateColumns' /\ gate'.state = "waiting" /\ gate.state = "waiting"
  BY <1>1 DEF ConfirmTool, GateRow, GateColumns
<1> QED  BY <1>2, GateMoves DEF ConfirmTool, GateRan

LEMMA ClaimToolTaskKeeps ==
    ASSUME TurnInd, ClaimToolTask PROVE TurnInd'
<1>1. gate \in GateRow /\ GateColumns
  BY DEF TurnInd, TurnTyped, OthersTyped
<1>2. gate.state = "waiting"
  BY <1>1 DEF ClaimToolTask, GateRow, GateColumns
<1>3. gate' \in GateRow /\ GateColumns' /\ gate'.state = "waiting"
  BY <1>1, <1>2 DEF ClaimToolTask, GateRow, GateColumns
<1> QED  BY <1>2, <1>3, GateMoves DEF ClaimToolTask, GateRan

LEMMA FinishConversationToolKeeps ==
    ASSUME TurnInd, FinishConversationTool PROVE TurnInd'
<1>1. /\ gate' \in GateRow /\ GateColumns' /\ gate'.state = "ended"
      /\ gate.state = "dispatched"
  BY DEF FinishConversationTool, GateRow, GateColumns
<1> QED  BY <1>1, GateMoves DEF FinishConversationTool

(* The gated tool is run once: its call is pending and was not made, and   *)
(* no supervisor can make it.                                              *)
LEMMA BeginConversationToolKeeps ==
    ASSUME TurnInd, BeginConversationTool PROVE TurnInd'
<1> DEFINE x == <<turn.count, Current>>
<1>0. /\ TurnTyped /\ OthersTyped /\ LedgerTyped /\ turn \in TurnRow /\ calls \in Seq(CallRow)
      /\ gate.task = "running" /\ gate.state = "waiting"
      /\ gate' = [gate EXCEPT !.state = "dispatched"]
      /\ Calls(x)
      /\ UNCHANGED <<turn, attempts, finals, result, calls, runner, run, conv, said, log, steers,
                     budget>>
  BY DEF TurnInd, TurnTyped, OthersTyped, BeginConversationTool
<1>1. /\ turn.state = "waiting_confirmation" /\ ~TurnOver /\ turn.disp = "completed"
      /\ Open # {} /\ calls[Current].tool # "read" /\ calls[Current].public = "pending"
  <2>1. turn.state = "waiting_confirmation"
    BY <1>0 DEF TurnInd, GateFits
  <2>2. ~TurnOver
    BY <2>1 DEF TurnOver, Terminal
  <2> QED  BY <1>0, <2>1, <2>2 DEF TurnInd, GateFits
<1>2. Current \in DOMAIN calls /\ calls[Current].state = "pending"
  <2>1. Current \in DOMAIN calls /\ calls[Current].state # "terminal"
    BY <1>0, <1>1, CurrentIsOpen DEF Open
  <2>2. calls[Current].state # "dispatched"
    BY <1>1, <2>1 DEF TurnInd, ResultFits
  <2>3. calls[Current].state \in {"pending", "dispatched", "terminal"}
    <3>1. calls[Current] \in CallRow
      BY <1>0, <2>1
    <3> QED  BY <3>1 DEF CallRow
  <2> QED  BY <2>1, <2>2, <2>3
<1>3. /\ x \notin effects
      /\ \A f \in Supervisors : runner[f].pc = "run" => runner[f].call # x
  <2>1. ~GateRan
    BY <1>0 DEF GateRan
  <2> QED  BY <1>1, <1>2, <2>1 DEF TurnInd, EffectsFit, PendingUntouched
<1>4. x \in Nat \X Nat /\ x[1] = turn.count /\ turn.count \in Nat
  <2>1. turn.count \in Nat
    BY <1>0, RowFields
  <2>2. Current \in Nat
    BY <1>0, <1>2
  <2> QED  BY <2>1, <2>2
<1>5. effects' = effects \cup {x} /\ repeated' = repeated
  BY <1>0, <1>3 DEF Calls
<1>6. \A y \in effects' : y \in effects \/ y = x
  BY <1>5
<1>7. Open' = Open /\ Current' = Current
  BY <1>0, OpenKept
<1>8. gate' \in GateRow /\ GateColumns' /\ gate'.state = "dispatched"
  BY <1>0 DEF TurnInd, OthersTyped, GateRow, GateColumns
<1>9. TurnTyped'
  <2> HIDE DEF x
  <2>1. effects' \subseteq Nat \X Nat
    BY <1>0, <1>4, <1>5 DEF OthersTyped
  <2> QED  BY <1>0, <1>8, <2>1 DEF TurnTyped, LedgerTyped, OthersTyped
<1>10. /\ LeaseFits' /\ LedgerFits' /\ EndsFit' /\ ResultFits' /\ AskedInTime'
       /\ GuidanceHeard' /\ TurnEffectsOnce'
  BY <1>0, <1>5 DEF TurnInd, LeaseFits, LedgerFits, EndsFit, ResultFits, AskedInTime,
         GuidanceHeard, TurnEffectsOnce, TurnOver, DispatchLedger, DispatchBudget,
         TranscriptExact, LogClosesOnce
<1>11. GateFits'
  BY <1>0, <1>1, <1>7, <1>8 DEF GateFits
<1>12. PastEffects' /\ RunnersApart' /\ NoEarlyCall'
  <2> HIDE DEF x
  <2>1. PastEffects'
    BY <1>0, <1>4, <1>6 DEF TurnInd, EffectsFit, PastEffects
  <2>2. RunnersApart'
    BY <1>0, <1>3, <1>6 DEF TurnInd, EffectsFit, RunnersApart
  <2>3. NoEarlyCall'
    BY <1>0, <1>1 DEF NoEarlyCall
  <2> QED  BY <2>1, <2>2, <2>3
<1>13. PendingUntouched'
  <2>1. ASSUME NEW i \in DOMAIN calls, calls[i].state = "pending"
        PROVE  /\ <<turn.count, i>> \in effects' => i = Current
               /\ \A f \in Supervisors : runner[f].pc = "run" => runner[f].call # <<turn.count, i>>
    <3>1. /\ <<turn.count, i>> \in effects => i = Current
          /\ \A f \in Supervisors : runner[f].pc = "run" => runner[f].call # <<turn.count, i>>
      BY <1>1, <2>1 DEF TurnInd, EffectsFit, PendingUntouched
    <3>2. x = <<turn.count, i>> => i = Current
      OBVIOUS
    <3> HIDE DEF x
    <3> QED  BY <1>6, <3>1, <3>2
  <2>2. GateRan'
    BY <1>8 DEF GateRan
  <2> QED  BY <1>0, <1>7, <2>1, <2>2 DEF PendingUntouched
<1>14. HolderFits'
  BY <1>0, <1>1 DEF HolderFits, Holds
<1> QED  BY <1>8, <1>9, <1>10, <1>11, <1>12, <1>13, <1>14 DEF TurnInd, EffectsFit

LEMMA RowWaits ==
    ASSUME NEW t \in TurnRow
    PROVE  /\ [Released(t) EXCEPT !.state = "accepted", !.rev = @ + 1]
                = RowWith("accepted", Nobody, FALSE, t.cancel, t.rev + 1, t.disp, t.started,
                          t.count, t.code, t.asked)
           /\ [Released(t) EXCEPT !.state = "accepted", !.rev = @]
                = RowWith("accepted", Nobody, FALSE, t.cancel, t.rev, t.disp, t.started,
                          t.count, t.code, t.asked)
           /\ [Released(t) EXCEPT !.cancel = TRUE, !.rev = @ + 1, !.state = @]
                = RowWith(t.state, Nobody, FALSE, TRUE, t.rev + 1, t.disp, t.started,
                          t.count, t.code, t.asked)
           /\ [Released(t) EXCEPT !.cancel = TRUE, !.rev = @ + 1, !.state = "canceled"]
                = RowWith("canceled", Nobody, FALSE, TRUE, t.rev + 1, t.disp, t.started,
                          t.count, t.code, t.asked)
<1>1. ASSUME NEW u, u = [Released(t) EXCEPT !.state = "accepted", !.rev = @ + 1]
      PROVE  u = RowWith("accepted", Nobody, FALSE, t.cancel, t.rev + 1, t.disp, t.started,
                         t.count, t.code, t.asked)
  BY <1>1 DEF Released, RowWith, TurnRow
<1>2. ASSUME NEW u, u = [Released(t) EXCEPT !.state = "accepted", !.rev = @]
      PROVE  u = RowWith("accepted", Nobody, FALSE, t.cancel, t.rev, t.disp, t.started,
                         t.count, t.code, t.asked)
  BY <1>2 DEF Released, RowWith, TurnRow
<1>3. ASSUME NEW u, u = [Released(t) EXCEPT !.cancel = TRUE, !.rev = @ + 1, !.state = @]
      PROVE  u = RowWith(t.state, Nobody, FALSE, TRUE, t.rev + 1, t.disp, t.started,
                         t.count, t.code, t.asked)
  BY <1>3 DEF Released, RowWith, TurnRow
<1>4. ASSUME NEW u, u = [Released(t) EXCEPT !.cancel = TRUE, !.rev = @ + 1, !.state = "canceled"]
      PROVE  u = RowWith("canceled", Nobody, FALSE, TRUE, t.rev + 1, t.disp, t.started,
                         t.count, t.code, t.asked)
  BY <1>4 DEF Released, RowWith, TurnRow
<1> QED  BY <1>1, <1>2, <1>3, <1>4, Zenon

(* Consent refused or expired wakes the turn that waits for it.            *)
LEMMA DenyToolKeeps ==
    ASSUME TurnInd, DenyTool PROVE TurnInd'
<1>0. /\ TurnTyped /\ OthersTyped /\ turn \in TurnRow
      /\ gate.state = "waiting" /\ gate.task \in {"waiting_user", "queued"}
      /\ gate' = [gate EXCEPT !.state = "ended", !.task = "ended"]
      /\ UNCHANGED <<attempts, finals, result, calls, runner, run, conv, said, log, steers,
                     effects, repeated, budget>>
  BY DEF TurnInd, TurnTyped, DenyTool
<1>1. turn.state = "waiting_confirmation" /\ ~TurnOver
  <2>1. turn.state = "waiting_confirmation"
    BY <1>0 DEF TurnInd, GateFits
  <2> QED  BY <2>1 DEF TurnOver, Terminal
<1>2. ~turn.cancel /\ turn.cancel \in BOOLEAN
  BY <1>0, <1>1, RowFields DEF TurnInd, LeaseFits
<1>3. turn' = RowWith("accepted", Nobody, FALSE, turn.cancel, turn.rev + 1, turn.disp,
                      turn.started, turn.count, turn.code, turn.asked)
  <2>1. turn' = [Released(turn) EXCEPT !.state = "accepted", !.rev = @ + 1]
    BY <1>1, <1>2 DEF DenyTool
  <2> QED  BY <1>0, <2>1, RowWaits, Zenon
<1>4. /\ turn.disp = "completed" /\ Open # {} /\ calls[Current].tool # "read"
      /\ calls[Current].public = "pending"
  BY <1>0, <1>1 DEF TurnInd, GateFits
<1>5. turn'.state = "accepted" /\ turn'.disp = turn.disp /\ turn'.count = turn.count
  BY <1>3 DEF RowWith
<1>6. gate' \in GateRow /\ GateColumns' /\ gate'.state = "ended"
  BY <1>0 DEF TurnInd, OthersTyped, GateRow, GateColumns
<1>7. Open' = Open /\ Current' = Current
  BY <1>0, OpenKept
<1>8. GateFits'
  BY <1>0, <1>4, <1>5, <1>6, <1>7 DEF GateFits
<1>9. PendingUntouched'
  <2>1. ~GateRan
    BY <1>0 DEF GateRan
  <2> QED  BY <1>0, <1>1, <1>4, <1>5, <2>1 DEF TurnInd, EffectsFit, PendingUntouched
<1>10. ResultFits' /\ calls' \in Seq(CallRow) /\ log'.ends = 0 /\ ~log'.late
  <2>1. ResultFits'
    BY <1>0 DEF TurnInd, ResultFits
  <2>2. log.ends = 0 /\ ~log.late
    BY <1>1, LogOpen DEF TurnInd
  <2> QED  BY <1>0, <2>1, <2>2 DEF OthersTyped
<1>11. turn.rev + 1 \in {turn.rev, turn.rev + 1} /\ "accepted" \in {"accepted", "running"}
       /\ "accepted" \in {"accepted", "running", "waiting_confirmation"}
  OBVIOUS
<1>12. runner' \in [Supervisors -> RunnerRow] /\ run' \in RunRow
  BY <1>0 DEF OthersTyped
<1> QED  BY <1>0, <1>1, <1>2, <1>3, <1>6, <1>8, <1>9, <1>10, <1>11, <1>12, WaitsUnleased

(* The ended attempt becomes the call's result.                            *)
LEMMA ResumeConversationTurnKeeps ==
    ASSUME TurnInd, ResumeConversationTurn PROVE TurnInd'
<1>0. /\ TurnTyped /\ OthersTyped /\ LedgerTyped /\ turn \in TurnRow /\ calls \in Seq(CallRow)
      /\ turn.state \in {"accepted", "waiting_confirmation"} /\ ~turn.cancel
      /\ turn.disp = "completed" /\ gate.state = "ended"
      /\ gate' = NoGate
      /\ Logs("tool_result")
      /\ UNCHANGED <<attempts, runner, run, conv, said, steers, effects, repeated, budget>>
  BY DEF TurnInd, TurnTyped, OthersTyped, ResumeConversationTurn
<1>1. ~TurnOver
  BY <1>0 DEF TurnOver, Terminal
<1>2. log'.ends = 0 /\ ~log'.late
  <2>1. log.ends = 0 /\ ~log.late /\ "tool_result" # "end"
    BY <1>1, LogOpen DEF TurnInd
  <2> QED  BY <1>0, <2>1, LogsKept
<1>3. gate' \in GateRow /\ gate'.state = "none" /\ GateColumns'
  BY <1>0 DEF NoGate, GateRow, GateColumns
<1>4. CASE /\ calls' = [calls EXCEPT ![Current].state = "terminal", ![Current].public = "terminal"]
           /\ turn' = [Released(turn) EXCEPT !.state = "accepted",
                        !.rev = IF turn.state = "waiting_confirmation" THEN @ + 1 ELSE @]
           /\ UNCHANGED <<finals, result>>
  <2>1. \E r \in {turn.rev, turn.rev + 1} :
          turn' = RowWith("accepted", Nobody, FALSE, turn.cancel, r, turn.disp, turn.started,
                          turn.count, turn.code, turn.asked)
    <3>1. CASE turn.state = "waiting_confirmation"
      <4>1. turn' = [Released(turn) EXCEPT !.state = "accepted", !.rev = @ + 1]
        BY <1>4, <3>1
      <4> QED  BY <1>0, <4>1, RowWaits, Zenon
    <3>2. CASE turn.state # "waiting_confirmation"
      <4>1. turn' = [Released(turn) EXCEPT !.state = "accepted", !.rev = @]
        BY <1>4, <3>2
      <4> QED  BY <1>0, <4>1, RowWaits, Zenon
    <3> QED  BY <3>1, <3>2
  <2>2. PICK r \in {turn.rev, turn.rev + 1} :
          turn' = RowWith("accepted", Nobody, FALSE, turn.cancel, r, turn.disp, turn.started,
                          turn.count, turn.code, turn.asked)
    BY <2>1
  <2>3. /\ calls' \in Seq(CallRow) /\ DOMAIN calls' = DOMAIN calls
        /\ \A i \in DOMAIN calls : /\ calls'[i].tool = calls[i].tool
                                   /\ i # Current => calls'[i] = calls[i]
                                   /\ i = Current => calls'[i].state = "terminal"
    <3>1. calls' = CallIs(calls, Current, "terminal", "terminal")
      BY <1>4 DEF CallIs
    <3> QED  BY <1>0, <3>1, EndedCall
  <2>4. ResultFits' /\ (calls' = <<>> => calls = <<>>)
    <3>1. \A i \in DOMAIN calls : calls'[i].tool # "read" => calls'[i].state # "dispatched"
      BY <2>3 DEF TurnInd, ResultFits
    <3> QED  BY <1>0, <1>4, <2>3, <3>1, CallsMove DEF TurnInd
  <2>5. PendingUntouched'
    <3>1. turn'.count = turn.count
      BY <2>2 DEF RowWith
    <3>2. ASSUME NEW i \in DOMAIN calls, calls'[i].state = "pending"
          PROVE  /\ <<turn.count, i>> \notin effects
                 /\ \A f \in Supervisors : runner[f].pc = "run" => runner[f].call # <<turn.count, i>>
      <4>1. i # Current /\ calls[i].state = "pending"
        BY <2>3, <3>2
      <4> QED  BY <1>0, <1>1, <4>1 DEF TurnInd, EffectsFit, PendingUntouched
    <3> QED  BY <1>0, <2>3, <3>1, <3>2 DEF PendingUntouched
  <2>6. GateFits'
    BY <1>3 DEF GateFits
  <2>7. turn.cancel \in BOOLEAN /\ "accepted" \in {"accepted", "running"}
        /\ "accepted" \in {"accepted", "running", "waiting_confirmation"}
    BY <1>0, RowFields
  <2>8. runner' \in [Supervisors -> RunnerRow] /\ run' \in RunRow
    BY <1>0 DEF OthersTyped
  <2> QED  BY <1>0, <1>1, <1>2, <1>3, <1>4, <2>2, <2>3, <2>4, <2>5, <2>6, <2>7, <2>8,
              WaitsUnleased
<1>5. CASE ~Finalizing /\ StalledFinalization
  <2>1. /\ turn' = Released([turn EXCEPT !.state = "accepted", !.disp = ""])
        /\ finals' = finals \cup {turn.rev} /\ ResultCleared
    BY <1>5 DEF StalledFinalization
  <2>2. turn' = RowWith("accepted", Nobody, FALSE, turn.cancel, turn.rev, "", turn.started,
                        turn.count, turn.code, turn.asked)
    BY <2>1, <1>0, RowBack, Zenon
  <2>3. /\ turn' \in TurnRow /\ turn'.state = "accepted" /\ turn'.owner = Nobody
        /\ turn'.rev = turn.rev /\ turn'.count = turn.count /\ turn'.disp = ""
        /\ turn'.cancel = turn.cancel
    <3>1. "accepted" \in TurnStates /\ "" \in TurnDisps
      BY DEF TurnStates, TurnDisps
    <3> QED  BY <1>0, <2>2, <3>1, RowFields DEF RowWith, TurnRow
  <2>4. finals' \subseteq 1..turn.rev
    BY <2>1, <1>0, RowFields, IntentTyped DEF LedgerTyped
  <2>5. \A i \in DOMAIN attempts : attempts[i].state # "dispatched"
    BY <1>0, <1>1, NoneDispatched
  <2>6. LedgerTyped'
    BY <1>0, <2>3, <2>4 DEF LedgerTyped
  <2>7. OthersTyped' /\ ResultFits'
    BY <1>0, <1>3, <2>1, ClearedFits DEF OthersTyped
  <2>8. steers'.rev <= turn'.rev
    BY <1>0, <2>3 DEF TurnInd, AskedInTime
  <2> QED  BY <1>0, <1>1, <1>2, <2>3, <2>5, <2>6, <2>7, <2>8, TurnGivenBack
<1> QED  BY <1>4, <1>5 DEF ResumeConversationTurn

(* A cancel ends a turn that waits for consent and revokes any lease.      *)
LEMMA RequestTurnCancelKeeps ==
    ASSUME TurnInd, RequestTurnCancel PROVE TurnInd'
<1>0. /\ TurnTyped /\ OthersTyped /\ LedgerTyped /\ turn \in TurnRow
      /\ turn.state \notin Terminal /\ ~turn.cancel
      /\ run' = NoRun
      /\ turn' = [Released(turn) EXCEPT !.cancel = TRUE, !.rev = @ + 1,
                    !.state = IF @ = "waiting_confirmation" THEN "canceled" ELSE @]
      /\ UNCHANGED <<attempts, finals, result, calls, runner, conv, said, steers,
                     effects, repeated, budget>>
  BY DEF TurnInd, TurnTyped, RequestTurnCancel
<1>1. ~TurnOver
  BY <1>0 DEF TurnOver
<1>2. log.ends = 0 /\ ~log.late
  BY <1>1, LogOpen DEF TurnInd
<1>3. run' \in RunRow
  BY <1>0 DEF NoRun, RunRow, TurnDisps
<1>4. ResultFits' /\ calls' \in Seq(CallRow)
  BY <1>0 DEF TurnInd, ResultFits, OthersTyped
<1>5. CASE turn.state = "waiting_confirmation"
  <2>1. /\ gate.state = "waiting" /\ gate.task = "waiting_user"
        /\ gate' = [gate EXCEPT !.state = "ended", !.task = "ended"] /\ Logs("end")
    BY <1>5 DEF RequestTurnCancel
  <2>2. gate' \in GateRow /\ GateColumns' /\ gate'.state = "ended"
    BY <1>0, <2>1 DEF TurnInd, OthersTyped, GateRow, GateColumns
  <2>3. turn' = RowWith("canceled", Nobody, FALSE, TRUE, turn.rev + 1, turn.disp, turn.started,
                        turn.count, turn.code, turn.asked)
    <3>1. turn' = [Released(turn) EXCEPT !.cancel = TRUE, !.rev = @ + 1, !.state = "canceled"]
      <4>1. ASSUME NEW t \in TurnRow, t.state = "waiting_confirmation", NEW u,
                   u = [Released(t) EXCEPT !.cancel = TRUE, !.rev = @ + 1,
                          !.state = IF @ = "waiting_confirmation" THEN "canceled" ELSE @]
            PROVE  u = [Released(t) EXCEPT !.cancel = TRUE, !.rev = @ + 1, !.state = "canceled"]
        BY <4>1 DEF Released, TurnRow
      <4> QED  BY <1>0, <1>5, <4>1, Zenon
    <3> QED  BY <1>0, <3>1, RowWaits, Zenon
  <2>4. /\ turn' \in TurnRow /\ turn'.state = "canceled" /\ turn'.owner = Nobody
        /\ turn'.rev = turn.rev + 1 /\ turn'.count = turn.count
    <3>1. "canceled" \in TurnStates
      BY DEF TurnStates, Terminal
    <3>2. turn \in TurnRow
      BY <1>0
    <3> QED  BY <2>3, <3>1, <3>2, RowFields DEF RowWith, TurnRow
  <2>5. OthersTyped'
    BY <1>0, <1>3, <2>2 DEF OthersTyped
  <2>6. log'.ends = 1 /\ ~log'.late
    BY <1>2, <2>1, LogsEnd
  <2>7. TranscriptExact'
    BY <1>0, <1>5, <2>4 DEF TurnInd, EndsFit, TranscriptExact
  <2>8. turn'.state \in Terminal
    BY <2>4 DEF Terminal
  <2> QED  BY <1>0, <1>1, <1>4, <2>2, <2>4, <2>5, <2>6, <2>7, <2>8, TurnEnds
<1>6. CASE turn.state # "waiting_confirmation"
  <2>1. gate' = gate /\ log' = log
    <3>1. gate.state # "dispatched"
      BY <1>6 DEF TurnInd, GateFits
    <3> QED  BY <1>6, <3>1 DEF RequestTurnCancel
  <2>2. turn.state \in {"accepted", "running"}
    BY <1>0, <1>6, RowFields DEF TurnStates
  <2>3. turn' = RowWith(turn.state, Nobody, FALSE, TRUE, turn.rev + 1, turn.disp, turn.started,
                        turn.count, turn.code, turn.asked)
    <3>1. turn' = [Released(turn) EXCEPT !.cancel = TRUE, !.rev = @ + 1, !.state = @]
      <4>1. ASSUME NEW t \in TurnRow, t.state # "waiting_confirmation", NEW u,
                   u = [Released(t) EXCEPT !.cancel = TRUE, !.rev = @ + 1,
                          !.state = IF @ = "waiting_confirmation" THEN "canceled" ELSE @]
            PROVE  u = [Released(t) EXCEPT !.cancel = TRUE, !.rev = @ + 1, !.state = @]
        BY <4>1 DEF Released, TurnRow
      <4> QED  BY <1>0, <1>6, <4>1, Zenon
    <3> QED  BY <1>0, <3>1, RowWaits, Zenon
  <2>4. turn'.state = turn.state /\ turn'.disp = turn.disp /\ turn'.count = turn.count
    BY <2>3 DEF RowWith
  <2>5. TurnOver' = TurnOver /\ Open' = Open /\ Current' = Current /\ GateRan' = GateRan
    BY <1>0, <2>1, <2>4, OpenKept DEF TurnOver, GateRan
  <2>6. GateFits' /\ GateColumns'
    BY <1>0, <2>1, <2>4, <2>5 DEF TurnInd, GateFits, GateColumns
  <2>7. PendingUntouched'
    BY <1>0, <2>4, <2>5 DEF TurnInd, EffectsFit, PendingUntouched
  <2>8. gate' \in GateRow /\ runner' \in [Supervisors -> RunnerRow]
    BY <1>0, <2>1 DEF OthersTyped
  <2>9. turn.rev + 1 \in {turn.rev, turn.rev + 1} /\ TRUE \in BOOLEAN
        /\ turn.state \in {"accepted", "running", "waiting_confirmation"}
    BY <2>2
  <2> QED  BY <1>0, <1>1, <1>2, <1>3, <1>4, <2>1, <2>2, <2>3, <2>6, <2>7, <2>8, <2>9,
              WaitsUnleased
<1> QED  BY <1>5, <1>6

LEMMA SupersededAttempts ==
    ASSUME NEW s \in Seq(AttemptRow), NEW q,
           q = [i \in DOMAIN s |-> IF s[i].state = "dispatched"
                                   THEN [s[i] EXCEPT !.state = "ended"] ELSE s[i]]
    PROVE  /\ q \in Seq(AttemptRow) /\ Len(q) = Len(s) /\ DOMAIN q = DOMAIN s
           /\ \A i \in DOMAIN s : q[i].state # "dispatched" /\ q[i].final = s[i].final
<1>1. ASSUME NEW a \in AttemptRow, NEW b,
             b = IF a.state = "dispatched" THEN [a EXCEPT !.state = "ended"] ELSE a
      PROVE  b \in AttemptRow /\ b.state # "dispatched" /\ b.final = a.final
  BY <1>1 DEF AttemptRow
<1>2. \A i \in DOMAIN s : s[i] \in AttemptRow
  OBVIOUS
<1>3. \A i \in DOMAIN s : q[i] \in AttemptRow /\ q[i].state # "dispatched" /\ q[i].final = s[i].final
  BY <1>1, <1>2
<1>4. DOMAIN s = 1..Len(s) /\ Len(s) \in Nat /\ DOMAIN q = DOMAIN s
  OBVIOUS
<1>5. q \in [1..Len(s) -> AttemptRow]
  BY <1>3, <1>4
<1>6. q \in Seq(AttemptRow) /\ Len(q) = Len(s)
  BY <1>4, <1>5
<1> QED  BY <1>3, <1>4, <1>6

(* Guidance: deferred, it only advances the revision; otherwise the turn   *)
(* is given back without the result it supersedes.                         *)
LEMMA RequestTurnSteerKeeps ==
    ASSUME TurnInd, RequestTurnSteer PROVE TurnInd'
<1>0. /\ TurnTyped /\ OthersTyped /\ LedgerTyped /\ turn \in TurnRow /\ calls \in Seq(CallRow)
      /\ budget.steers > 0 /\ turn.state \in {"accepted", "running"} /\ ~turn.cancel
      /\ steers' = [count |-> steers.count + 1, rev |-> turn.rev + 1]
      /\ budget' = [budget EXCEPT !.steers = @ - 1]
      /\ Logs("steered")
      /\ UNCHANGED <<finals, gate, runner, conv, said, effects, repeated>>
  BY DEF TurnInd, TurnTyped, OthersTyped, RequestTurnSteer
<1>1. ~TurnOver
  BY <1>0 DEF TurnOver, Terminal
<1>2. log'.ends = 0 /\ ~log'.late
  <2>1. log.ends = 0 /\ ~log.late /\ "steered" # "end"
    BY <1>1, LogOpen DEF TurnInd
  <2> QED  BY <1>0, <2>1, LogsKept
<1>3. budget' \in BudgetRow /\ budget'.max = budget.max
  BY <1>0, BudgetSpent DEF OthersTyped
<1>4. steers' \in [count : Nat, rev : Nat] /\ steers'.rev = turn.rev + 1
      /\ turn.rev \in Nat /\ turn.rev + 1 \in Nat \ {0}
  BY <1>0, RowFields DEF OthersTyped
<1>5. finals \subseteq 1..(turn.rev + 1)
  BY <1>0, <1>4 DEF LedgerTyped
<1>6. CASE Deferred
  <2>1. turn' = [turn EXCEPT !.rev = @ + 1] /\ UNCHANGED <<attempts, result, calls, run>>
    BY <1>6 DEF RequestTurnSteer
  <2>2. turn' = RowWith(turn.state, turn.owner, turn.live, turn.cancel, turn.rev + 1, turn.disp,
                        turn.started, turn.count, turn.code, turn.asked)
    <3>1. turn' = [turn EXCEPT !.rev = turn.rev + 1]
      BY <2>1
    <3> QED  BY <1>0, <3>1, RowWorks, Zenon
  <2>3. /\ turn' \in TurnRow /\ turn'.state = turn.state /\ turn'.owner = turn.owner
        /\ turn'.cancel = turn.cancel /\ turn'.rev = turn.rev + 1 /\ turn'.disp = turn.disp
        /\ turn'.started = turn.started /\ turn'.count = turn.count /\ turn'.code = turn.code
        /\ turn'.asked = turn.asked
    BY <1>0, <2>2, RowFields DEF RowWith, TurnRow
  <2>4. Open' = Open /\ Current' = Current
    BY <2>1, OpenKept
  <2>5. TurnTyped'
    BY <1>0, <1>3, <1>4, <1>5, <2>1, <2>3 DEF TurnTyped, LedgerTyped, OthersTyped
  <2>6. ~TurnOver' /\ turn.disp = "completed" /\ calls # <<>>
    <3>1. turn.disp = "completed" /\ DOMAIN calls # {}
      BY <1>6 DEF Deferred
    <3>2. calls # <<>>
      BY <1>0, <3>1, EmptyDomain
    <3> QED  BY <1>1, <2>3, <3>1, <3>2 DEF TurnOver
  <2>7. LeaseFits' /\ LedgerFits' /\ ResultFits' /\ GateColumns' /\ TurnEffectsOnce'
    <3>1. LeaseFits' /\ ResultFits' /\ GateColumns' /\ TurnEffectsOnce'
      BY <1>0, <2>1, <2>3 DEF TurnInd, LeaseFits, ResultFits, GateColumns, TurnEffectsOnce, TurnOver
    <3>2. DispatchLedger'
      BY <2>1, <2>3 DEF TurnInd, LedgerFits, DispatchLedger
    <3>3. DispatchBudget'
      BY <1>3, <2>1, BudgetKept DEF TurnInd
    <3> QED  BY <3>1, <3>2, <3>3 DEF LedgerFits
  <2>8. EndsFit'
    <3>1. TranscriptExact'
      BY <1>0, <2>3 DEF TurnInd, EndsFit, TranscriptExact
    <3> QED  BY <1>2, <2>6, <3>1 DEF EndsFit, LogClosesOnce, TurnOver
  <2>9. GateFits'
    BY <1>0, <1>1, <2>1, <2>3, <2>4 DEF TurnInd, GateFits
  <2>10. AskedInTime' /\ GuidanceHeard'
    <3>1. AskedInTime'
      BY <1>4, <2>1, <2>3, <2>6 DEF AskedInTime
    <3>2. GuidanceHeard'
      BY <1>0, <2>3 DEF GuidanceHeard
    <3> QED  BY <3>1, <3>2
  <2>11. EffectsFit'
    <3>1. GateRan' = GateRan
      BY <1>0 DEF GateRan
    <3>2. PastEffects' /\ RunnersApart' /\ NoEarlyCall'
      BY <1>0, <2>3, <2>6 DEF TurnInd, EffectsFit, PastEffects, RunnersApart, NoEarlyCall
    <3>3. PendingUntouched'
      BY <1>0, <1>1, <2>1, <2>3, <2>4, <3>1 DEF TurnInd, EffectsFit, PendingUntouched
    <3> QED  BY <3>2, <3>3 DEF EffectsFit
  <2>12. ASSUME NEW f \in Supervisors, Holds(f)', NEW pc, pc = runner'[f].pc PROVE HolderAt(pc)'
    <3>1. HolderAt(pc)
      BY <1>0, <2>3, <2>12 DEF TurnInd, HolderFits, Holds
    <3>2. FinalAttempts' = FinalAttempts
      BY <2>1 DEF FinalAttempts
    <3> QED  BY <1>0, <2>1, <2>3, <2>4, <3>1, <3>2 DEF HolderAt
  <2>13. HolderFits'
    BY <2>12 DEF HolderFits
  <2> QED  BY <2>5, <2>7, <2>8, <2>9, <2>10, <2>11, <2>13 DEF TurnInd
<1>7. CASE ~Deferred
  <2>1. /\ turn' = Released([turn EXCEPT !.state = "accepted", !.disp = "",
                                         !.started = FALSE, !.rev = @ + 1])
        /\ attempts' = [i \in DOMAIN attempts |->
               IF attempts[i].state = "dispatched"
               THEN [attempts[i] EXCEPT !.state = "ended"] ELSE attempts[i]]
        /\ ResultCleared /\ run' = NoRun
    BY <1>7 DEF RequestTurnSteer
  <2>2. turn' = RowWith("accepted", Nobody, FALSE, turn.cancel, turn.rev + 1, "", FALSE,
                        turn.count, turn.code, turn.asked)
    BY <2>1, <1>0, RowBack, Zenon
  <2>3. /\ turn' \in TurnRow /\ turn'.state = "accepted" /\ turn'.owner = Nobody
        /\ turn'.rev = turn.rev + 1 /\ turn'.count = turn.count /\ turn'.disp = ""
        /\ turn'.cancel = turn.cancel
    <3>1. "accepted" \in TurnStates /\ "" \in TurnDisps
      BY DEF TurnStates, TurnDisps
    <3> QED  BY <1>0, <2>2, <3>1, RowFields DEF RowWith, TurnRow
  <2>4. /\ attempts' \in Seq(AttemptRow) /\ Len(attempts') = Len(attempts)
        /\ DOMAIN attempts' = DOMAIN attempts
        /\ \A i \in DOMAIN attempts : /\ attempts'[i].state # "dispatched"
                                      /\ attempts'[i].final = attempts[i].final
    <3>1. attempts \in Seq(AttemptRow)
      BY <1>0 DEF LedgerTyped
    <3> QED  BY <2>1, <3>1, SupersededAttempts
  <2>5. gate.state = "none"
    <3>1. ASSUME gate.state # "none" PROVE FALSE
      <4>1. /\ turn.disp = "completed" /\ Open # {} /\ calls[Current].tool # "read"
            /\ calls[Current].public = "pending"
        BY <1>1, <3>1 DEF TurnInd, GateFits
      <4>2. Current \in DOMAIN calls /\ calls[Current].state # "terminal"
        BY <1>0, <4>1, CurrentIsOpen DEF Open
      <4>3. calls[Current].state \in {"pending", "dispatched", "terminal"}
        <5>1. calls[Current] \in CallRow
          BY <1>0, <4>2
        <5> QED  BY <5>1 DEF CallRow
      <4> QED  BY <1>7, <4>1, <4>2, <4>3 DEF Deferred
    <3> QED  BY <3>1
  <2>6. gate' = NoGate
    <3>1. gate \in GateRow /\ gate.task = "none" /\ gate.slot = FALSE
      BY <1>0, <2>5 DEF TurnInd, OthersTyped, GateRow, GateColumns
    <3> QED  BY <1>0, <2>5, <3>1 DEF GateRow, NoGate
  <2>7. OthersTyped' /\ ResultFits'
    <3>1. run' \in RunRow
      BY <2>1 DEF NoRun, RunRow, TurnDisps
    <3> QED  BY <1>0, <1>3, <1>4, <2>1, <3>1, ClearedFits DEF OthersTyped
  <2>8. LedgerTyped'
    BY <1>0, <1>5, <2>3, <2>4 DEF LedgerTyped
  <2>9. steers'.rev <= turn'.rev
    <3>1. turn.rev + 1 <= turn.rev + 1
      BY <1>4
    <3> QED  BY <1>4, <2>3, <3>1
  <2> QED  BY <1>0, <1>1, <1>2, <1>3, <2>3, <2>4, <2>6, <2>7, <2>8, <2>9, TurnGivenBack
<1> QED  BY <1>6, <1>7

LEMMA FirstNumbers == 1 \in Nat \ {0} /\ 0 \in Nat
OBVIOUS

LEMMA FirstRow ==
    ASSUME NEW u, u = [state |-> "accepted", owner |-> Nobody, live |-> FALSE, cancel |-> FALSE,
                       rev |-> 1, disp |-> "", started |-> FALSE, count |-> 0, code |-> "",
                       asked |-> 0]
    PROVE  /\ u \in TurnRow /\ u.state = "accepted" /\ u.owner = Nobody /\ ~u.cancel
           /\ u.rev = 1 /\ u.disp = "" /\ u.count = 0
<1>1. "accepted" \in TurnStates /\ "" \in TurnDisps /\ "" \in TurnCodes
  BY DEF TurnStates, TurnDisps, TurnCodes
<1>2. Nobody \in Supervisors \cup {Nobody} /\ FALSE \in BOOLEAN
  BY Zenon
<1>3. u \in TurnRow
  BY <1>1, <1>2, FirstNumbers, Zenon DEF TurnRow
<1>4. /\ u.state = "accepted" /\ u.owner = Nobody /\ ~u.cancel
      /\ u.rev = 1 /\ u.disp = "" /\ u.count = 0
  OBVIOUS
<1> QED  BY <1>3, <1>4

(* An accepted turn has none of what the invariant speaks of.              *)
LEMMA TurnStarts ==
    ASSUME TurnInit PROVE TurnInd
<1>0. /\ turn = RowWith("accepted", Nobody, FALSE, FALSE, 1, "", FALSE, 0, "", 0)
      /\ attempts = <<>> /\ finals = {} /\ result = "none" /\ calls = <<>>
      /\ gate = NoGate /\ runner = [e \in Supervisors |-> Idle] /\ run = NoRun /\ conv = 1
      /\ said = [user |-> 0, steer |-> 0, assistant |-> 0, failed |-> 0]
      /\ log = [tooled |-> FALSE, ends |-> 0, late |-> FALSE]
      /\ steers = [count |-> 0, rev |-> 0] /\ effects = {} /\ repeated = {}
      /\ budget \in Settings
  BY DEF TurnInit, RowWith
<1>1. /\ turn \in TurnRow /\ turn.state = "accepted" /\ turn.owner = Nobody /\ ~turn.cancel
      /\ turn.rev = 1 /\ turn.disp = "" /\ turn.count = 0
  BY <1>0, FirstRow DEF RowWith
<1>2. ~TurnOver
  BY <1>1 DEF TurnOver, Terminal
<1>3. attempts \in Seq(AttemptRow) /\ Len(attempts) = 0 /\ DOMAIN attempts = {}
  <2>1. attempts = <<>> /\ Len(attempts) = 0
    BY <1>0
  <2>2. attempts \in Seq(AttemptRow)
    BY <2>1
  <2> QED  BY <2>1, <2>2, EmptyDomain
<1>4. runner \in [Supervisors -> RunnerRow] /\ \A e \in Supervisors : runner[e].pc = "idle"
  BY <1>0 DEF Idle, RunnerRow, TurnPcs
<1>5. TurnTyped
  <2>1. LedgerTyped
    BY <1>0, <1>1, <1>3 DEF LedgerTyped
  <2>2. gate \in GateRow /\ run \in RunRow
    BY <1>0 DEF NoGate, GateRow, NoRun, RunRow, TurnDisps
  <2>3. calls \in Seq(CallRow)
    BY <1>0, NoCallsTyped
  <2>4. budget \in BudgetRow
    BY <1>0, TurnAssumption DEF BudgetRow
  <2>5. steers \in [count : Nat, rev : Nat]
    BY <1>0
  <2>6. OthersTyped
    BY <1>0, <1>4, <2>2, <2>3, <2>4, <2>5 DEF OthersTyped
  <2> QED  BY <1>1, <2>1, <2>6 DEF TurnTyped
<1>6. LeaseFits /\ ResultFits
  <2>1. calls = <<>> /\ calls \in Seq(CallRow)
    BY <1>0, <1>5 DEF TurnTyped, OthersTyped
  <2>2. DOMAIN calls = {}
    BY <2>1, EmptyDomain
  <2>3. LeaseFits
    BY <1>1 DEF LeaseFits
  <2> QED  BY <2>1, <2>2, <2>3 DEF ResultFits
<1>7. LedgerFits
  <2>1. DispatchLedger
    BY <1>3 DEF DispatchLedger
  <2>2. budget.max \in Nat \ {0}
    BY <1>5 DEF TurnTyped, OthersTyped, BudgetRow
  <2>3. Cardinality({}) = 0
    BY FS_EmptySet
  <2>4. OrdinaryAttempts = {} /\ FinalAttempts = {}
    BY <1>3 DEF OrdinaryAttempts, FinalAttempts
  <2>5. DispatchBudget
    <3>1. Cardinality(OrdinaryAttempts) <= budget.max /\ Cardinality(FinalAttempts) <= 2
      BY <2>2, <2>3, <2>4
    <3> QED  BY <3>1 DEF DispatchBudget, OrdinaryAttempts, FinalAttempts
  <2> QED  BY <2>1, <2>5 DEF LedgerFits
<1>8. EndsFit
  <2>1. TranscriptExact
    BY <1>0, <1>1 DEF TranscriptExact
  <2> QED  BY <1>0, <1>2, <2>1 DEF EndsFit, LogClosesOnce, TurnOver
<1>9. GateColumns /\ GateFits
  BY <1>0 DEF GateColumns, GateFits, NoGate
<1>10. AskedInTime /\ GuidanceHeard /\ TurnEffectsOnce
  <2>1. steers.rev = 0 /\ repeated = {}
    BY <1>0
  <2>2. AskedInTime
    <3>1. 0 <= 1
      OBVIOUS
    <3>2. steers.rev <= turn.rev
      BY <1>1, <2>1, <3>1, Zenon
    <3>3. turn.disp # "dispatched" /\ turn.disp # "completed"
      BY <1>1
    <3> QED  BY <3>2, <3>3 DEF AskedInTime
  <2>3. GuidanceHeard
    BY <1>1 DEF GuidanceHeard
  <2> QED  BY <2>1, <2>2, <2>3 DEF TurnEffectsOnce
<1>11. EffectsFit
  BY <1>0, <1>1, <1>4 DEF EffectsFit, PastEffects, RunnersApart, NoEarlyCall, PendingUntouched
<1>12. HolderFits
  BY <1>1 DEF HolderFits, Holds
<1> QED  BY <1>5, <1>6, <1>7, <1>8, <1>9, <1>10, <1>11, <1>12 DEF TurnInd

(* Every step of a supervisor, of the gated call's task, of the user and   *)
(* of the clock keeps the invariant.                                       *)
LEMMA TurnKeeps ==
    ASSUME TurnInd, [TurnNext]_turnVars PROVE TurnInd'
<1>1. ASSUME NEW e \in Supervisors, Runs(e) PROVE TurnInd'
  <2>1. CASE ClaimTurn(e)              BY <2>1, ClaimTurnKeeps
  <2>2. CASE RunFails(e)               BY <2>2, RunFailsKeeps
  <2>3. CASE RecoverFinalDispatch(e)   BY <2>3, RecoverFinalDispatchKeeps
  <2>4. CASE FinalizeFromHistory(e)    BY <2>4, FinalizeFromHistoryKeeps
  <2>5. CASE ReplayResult(e)           BY <2>5, ReplayResultKeeps
  <2>6. CASE PrepareTurnModel(e)       BY <2>6, PrepareTurnModelKeeps
  <2>7. CASE AskModel(e)               BY <2>7, AskModelKeeps
  <2>8. CASE MarkTurnModelRetryable(e) BY <2>8, MarkTurnModelRetryableKeeps
  <2>9. CASE PrepareTurnModelRetry(e)  BY <2>9, PrepareTurnModelRetryKeeps
  <2>10. CASE ModelFails(e)            BY <2>10, ModelFailsKeeps
  <2>11. CASE ModelReturns(e)          BY <2>11, ModelReturnsKeeps
  <2>12. CASE UseResult(e)             BY <2>12, UseResultKeeps
  <2>13. CASE Fallback(e)              BY <2>13, FallbackKeeps
  <2>14. CASE RecordConversationToolCall(e)
    BY <2>14, RecordConversationToolCallKeeps
  <2>15. CASE BeginConversationToolDispatch(e)
    BY <2>15, BeginConversationToolDispatchKeeps
  <2>16. CASE RunTool(e)               BY <2>16, RunToolKeeps
  <2>17. CASE RecordConversationToolResult(e)
    BY <2>17, RecordConversationToolResultKeeps
  <2>18. CASE PrepareConversationTool(e)
    BY <2>18, PrepareConversationToolKeeps
  <2>19. CASE EndCanceled(e)           BY <2>19, EndCanceledKeeps
  <2>20. CASE Interrupted(e)           BY <2>20, InterruptedKeeps
  <2> QED  BY <1>1, <2>1, <2>2, <2>3, <2>4, <2>5, <2>6, <2>7, <2>8, <2>9, <2>10, <2>11, <2>12,
              <2>13, <2>14, <2>15, <2>16, <2>17, <2>18, <2>19, <2>20 DEF Runs
<1>2. CASE \E e \in Supervisors : Stop(e)
  BY <1>2, StopKeeps
<1>3. CASE LeaseRunsOut \/ \E e \in Supervisors : RenewTurn(e)
  BY <1>3, LeaseClockKeeps
<1>4. CASE ToolTask
  BY <1>4, ClaimToolTaskKeeps, BeginConversationToolKeeps, FinishConversationToolKeeps DEF ToolTask
<1>5. CASE ConfirmTool                 BY <1>5, ConfirmToolKeeps
<1>6. CASE DenyTool                    BY <1>6, DenyToolKeeps
<1>7. CASE ResumeConversationTurn      BY <1>7, ResumeConversationTurnKeeps
<1>8. CASE RequestTurnCancel           BY <1>8, RequestTurnCancelKeeps
<1>9. CASE RequestTurnSteer            BY <1>9, RequestTurnSteerKeeps
<1>10. CASE OtherTurnCommits           BY <1>10, OtherTurnCommitsKeeps
<1>11. CASE UNCHANGED turnVars         BY <1>11, TurnStutters
<1> QED  BY <1>1, <1>2, <1>3, <1>4, <1>5, <1>6, <1>7, <1>8, <1>9, <1>10, <1>11 DEF TurnNext

LEMMA TurnIndHolds == TurnSpec => []TurnInd
<1>1. TurnInit => TurnInd
  BY TurnStarts
<1>2. TurnInd /\ [TurnNext]_turnVars => TurnInd'
  BY TurnKeeps
<1> QED  BY <1>1, <1>2, PTL DEF TurnSpec

LEMMA TurnAccount ==
    ASSUME TurnInd PROVE TurnInv
<1>1. turn \in TurnRow /\ LedgerTyped /\ OthersTyped /\ Nobody \notin Supervisors
  BY TurnAssumption DEF TurnInd, TurnTyped
<1>2. TurnTypeOK
  <2>1. /\ turn.state \in TurnStates /\ turn.owner \in Supervisors \cup {Nobody}
        /\ turn.disp \in TurnDisps
    BY <1>1, RowFields
  <2>2. turn.state # "running" => turn.owner = Nobody
    BY DEF TurnInd, LeaseFits
  <2>3. \A i \in DOMAIN attempts : attempts[i].state \in {"dispatched", "retryable", "ended"}
    <3>1. \A i \in DOMAIN attempts : attempts[i] \in AttemptRow
      BY <1>1 DEF LedgerTyped
    <3> QED  BY <3>1 DEF AttemptRow
  <2>4. gate.state \in {"none", "waiting", "dispatched", "ended"}
    BY <1>1 DEF OthersTyped, GateRow
  <2> QED  BY <1>1, <2>1, <2>2, <2>3, <2>4 DEF TurnTypeOK, TurnStates, TurnDisps, LedgerTyped
<1>3. ToolSlotExact
  BY DEF TurnInd, GateColumns, ToolSlotExact
<1>4. TurnEndsOnce
  BY DEF TurnInd, EndsFit, LeaseFits, TurnOver, TurnEndsOnce, CancelNotBlocked
<1>5. DispatchLedger /\ DispatchBudget
  BY DEF TurnInd, LedgerFits
<1> QED  BY <1>2, <1>3, <1>4, <1>5 DEF TurnInv

(* The row of a turn, its lease and its ledger of attempts are one account *)
(* of the model dispatches, within the policy's budget, and of the gated   *)
(* call's slot, and the turn ends once in its log and its conversation,    *)
(* whatever its supervisors, its task and its user do                      *)
(* (core_conversation_turns and its transactions).                         *)
THEOREM TurnsKeepOneAccount == TurnSpec => []TurnInv
<1>1. TurnInd => TurnInv
  BY TurnAccount
<1> QED  BY <1>1, TurnIndHolds, PTL

(* No model dispatch and no tool call is made twice, with any number of    *)
(* supervisors, lost leases, stops, steers and replays (PrepareTurnModel,  *)
(* BeginConversationToolDispatch, BeginConversationTool).                  *)
THEOREM TurnCallsAreMadeOnce == TurnSpec => []TurnEffectsOnce
<1>1. TurnInd => TurnEffectsOnce
  BY DEF TurnInd
<1> QED  BY <1>1, TurnIndHolds, PTL

(* An answer that is committed was asked for after the last accepted steer *)
(* (RequestTurnSteer, commitTurnTx).                                       *)
THEOREM GuidanceIsHeard == TurnSpec => []GuidanceHeard
<1>1. TurnInd => GuidanceHeard
  BY DEF TurnInd
<1> QED  BY <1>1, TurnIndHolds, PTL
=============================================================================
