------------------------------- MODULE Memory -------------------------------
(***************************************************************************)
(* The structured memory of conversations.  A finished turn leaves an      *)
(* observation; ProcessNext claims one under a lease, has a model propose  *)
(* changes of facts, and applies them in one transaction that completes    *)
(* the observation.  The owner may edit and delete facts and switch the    *)
(* memory off and on at any moment.                                        *)
(*                                                                         *)
(* Abstractions.  A lease is named by the attempt it belongs to: every     *)
(* claim raises the attempt and makes a fresh lease.  "late" says that the *)
(* lease has expired or the next attempt is due.  What the model proposes  *)
(* is any change of one value for each predicate; confidence, kind and     *)
(* validity times are left out, and so is the embedding profile that must  *)
(* be bound before the memory is switched on.                              *)
(***************************************************************************)
EXTENDS Integers, SequencesExt

CONSTANTS MObs,       \* observations, numbered by observed_at
          MPreds, MValues,
          MWorkers,   \* processes that run ProcessNext
          MAttempts,  \* the five attempts of an observation
          MSettings   \* bounds: [edits, switches]

ASSUME MemoryAssumption ==
    /\ MObs \subseteq Nat /\ MAttempts \in Nat \ {0}
    /\ MSettings \subseteq [edits : Nat, switches : Nat]

VARIABLES
    menabled,  \* core_memory_configs.enabled
    mobs,      \* core_memory_observations: [state, attempt, lease, late]
    mfacts,    \* core_memory_facts, by fact: [pred, value, state, source, prev]
    mtime,     \* core_memory_timeline: [kind, fact, prev, obs, by]; "by" is history
    mwork,     \* ProcessNext of each process: the observation and lease it holds
    mleft      \* what is left of the bounds

memoryVars == <<menabled, mobs, mfacts, mtime, mwork, mleft>>

NoObservation == [state |-> "none", attempt |-> 0, lease |-> 0, late |-> FALSE]
NotWorking == [obs |-> 0, lease |-> 0]
Facts == DOMAIN mfacts
Active(f) == mfacts[f].state = "active"

MemoryInit ==
    /\ menabled = FALSE
    /\ mobs = [o \in MObs |-> NoObservation]
    /\ mfacts = <<>> /\ mtime = <<>>
    /\ mwork = [w \in MWorkers |-> NotWorking]
    /\ mleft \in MSettings

MSpend(bound) == mleft[bound] > 0 /\ mleft' = [mleft EXCEPT ![bound] = @ - 1]

-----------------------------------------------------------------------------
(* UpdateConfig at the current revision.                                   *)
UpdateConfig ==
    /\ MSpend("switches") /\ menabled' = ~menabled
    /\ UNCHANGED <<mobs, mfacts, mtime, mwork>>

(* The commit of a turn leaves its observation when the memory is on.      *)
enqueueMemoryObservation(o) ==
    /\ mobs[o].state = "none" /\ \A p \in MObs : p < o => mobs[p].state # "none"
    /\ menabled
    /\ mobs' = [mobs EXCEPT ![o] = [NoObservation EXCEPT !.state = "pending", !.late = TRUE]]
    /\ UNCHANGED <<menabled, mfacts, mtime, mwork, mleft>>

(* A lease expires; the delay of a retry passes.                           *)
TimePasses(o) ==
    /\ mobs[o].state \in {"pending", "processing"} /\ ~mobs[o].late
    /\ mobs' = [mobs EXCEPT ![o].late = TRUE]
    /\ UNCHANGED <<menabled, mfacts, mtime, mwork, mleft>>

(* A claim first buries the observations whose last attempt was abandoned. *)
Buried ==
    [o \in MObs |->
        IF mobs[o].state = "processing" /\ mobs[o].attempt >= MAttempts /\ mobs[o].late
        THEN [mobs[o] EXCEPT !.state = "dead", !.lease = 0] ELSE mobs[o]]

Claimable(o) ==
    /\ mobs[o].attempt < MAttempts /\ mobs[o].late
    /\ mobs[o].state \in {"pending", "processing"}

(* The oldest row that no other transaction has locked is claimed, which   *)
(* may be any (SKIP LOCKED; applications share the lock of the settings    *)
(* with claims), or none.                                                  *)
ClaimObservation(w) ==
    /\ mwork[w] = NotWorking /\ menabled
    /\ \/ \E o \in MObs :
            /\ Claimable(o)
            /\ mobs' = [Buried EXCEPT ![o] = [state |-> "processing", attempt |-> @.attempt + 1,
                                              lease |-> @.attempt + 1, late |-> FALSE]]
            /\ mwork' = [mwork EXCEPT ![w] = [obs |-> o, lease |-> mobs[o].attempt + 1]]
       \/ mobs' = Buried /\ UNCHANGED mwork
    /\ UNCHANGED <<menabled, mfacts, mtime, mleft>>

(* A lease check that trusts the claim.                                    *)
LeaseUnchecked(w) == mwork[w].obs # 0

(* The instant that ApplyObservation compares with the expiry is the one   *)
(* of the claim, so the lease id alone decides.                            *)
LeaseHeld(w) ==
    /\ mwork[w].obs # 0
    /\ mobs[mwork[w].obs].state = "processing" /\ mobs[mwork[w].obs].lease = mwork[w].lease

-----------------------------------------------------------------------------
(* Facts and their timeline as one value, which a change maps to the next. *)
Memories == [facts |-> mfacts, time |-> mtime]
CurrentFact(m, pred) ==
    {f \in DOMAIN m.facts : m.facts[f].pred = pred /\ m.facts[f].state = "active"}

Event(kind, f, prev, o, by) == [kind |-> kind, fact |-> f, prev |-> prev, obs |-> o, by |-> by]
insertMemoryTimeline(m, event) == [m EXCEPT !.time = Append(@, event)]

Retract(m, f, o, by) ==
    insertMemoryTimeline([m EXCEPT !.facts[f].state = "retracted"], Event("retracted", f, 0, o, by))

(* A new fact, which supersedes prev when there is one.                    *)
InsertSuperseding(m, prev, fact) ==
    [m EXCEPT !.facts =
        Append([f \in DOMAIN @ |-> IF f = prev THEN [@[f] EXCEPT !.state = "superseded"] ELSE @[f]],
               fact)]

Replace(m, prev, fact, o, by) ==
    insertMemoryTimeline(InsertSuperseding(m, prev, fact),
        Event(IF prev = 0 THEN "added" ELSE "replaced", Len(m.facts) + 1, prev, o, by))

(* applyMemoryCandidate: value 0 stands for a retraction.                  *)
applyMemoryCandidate(m, o, pred, value) ==
    LET current == CurrentFact(m, pred)
        id == IF current = {} THEN 0 ELSE CHOOSE f \in current : TRUE
    IN IF value = 0 THEN (IF id = 0 THEN m ELSE Retract(m, id, o, "agent"))
       ELSE IF id # 0 /\ m.facts[id].value = value
            THEN insertMemoryTimeline(m, Event("confirmed", id, 0, o, "agent"))
       ELSE Replace(m, id, [pred |-> pred, value |-> value, state |-> "active",
                            source |-> o, prev |-> id], o, "agent")

(* What the model proposes: at most one change for a predicate.            *)
Candidates == UNION {[P -> MValues \cup {0}] : P \in SUBSET MPreds}

ApplyAll(o, candidates) ==
    FoldLeft(LAMBDA m, pred : applyMemoryCandidate(m, o, pred, candidates[pred]),
             Memories, SetToSeq(DOMAIN candidates))

-----------------------------------------------------------------------------
LeaseEnds(w, state) ==
    mobs' = [mobs EXCEPT ![mwork[w].obs] = [@ EXCEPT !.state = state, !.lease = 0]]
WorkEnds(w) == mwork' = [mwork EXCEPT ![w] = NotWorking]

(* ApplyObservation: with the memory switched off the observation is given *)
(* back, with its attempt counted and due at once.  A retraction that the  *)
(* owner's edit of the same fact overtakes does nothing, as if it had not  *)
(* been proposed.                                                          *)
ApplyObservation(w, candidates) ==
    /\ mwork[w].obs # 0
    /\ IF LeaseHeld(w) /\ menabled
       THEN LET m == ApplyAll(mwork[w].obs, candidates)
            IN mfacts' = m.facts /\ mtime' = m.time /\ LeaseEnds(w, "completed")
       ELSE /\ UNCHANGED <<mfacts, mtime>>
            /\ IF LeaseHeld(w)
               THEN mobs' = [mobs EXCEPT ![mwork[w].obs] =
                               [@ EXCEPT !.state = "pending", !.lease = 0, !.late = TRUE]]
               ELSE UNCHANGED mobs
    /\ WorkEnds(w)
    /\ UNCHANGED <<menabled, mleft>>

(* RetryObservation after a failed extraction.                             *)
RetryObservation(w) ==
    /\ mwork[w].obs # 0
    /\ IF LeaseHeld(w)
       THEN mobs' = [mobs EXCEPT ![mwork[w].obs] =
                [state |-> IF @.attempt >= MAttempts THEN "dead" ELSE "pending",
                 attempt |-> @.attempt, lease |-> 0, late |-> FALSE]]
       ELSE UNCHANGED mobs
    /\ WorkEnds(w)
    /\ UNCHANGED <<menabled, mfacts, mtime, mleft>>

(* The process stops, or a statement of ProcessNext fails.                 *)
Abandon(w) ==
    /\ mwork[w].obs # 0 /\ WorkEnds(w)
    /\ UNCHANGED <<menabled, mobs, mfacts, mtime, mleft>>

(* The owner's edits.  A replacement keeps the source of its fact.         *)
UpdateFact(f, value) ==
    /\ MSpend("edits") /\ Active(f)
    /\ LET m == Replace(Memories, f, [mfacts[f] EXCEPT !.value = value, !.prev = f],
                        mfacts[f].source, "owner")
       IN mfacts' = m.facts /\ mtime' = m.time
    /\ UNCHANGED <<menabled, mobs, mwork>>

DeleteFact(f) ==
    /\ MSpend("edits") /\ Active(f)
    /\ LET m == Retract(Memories, f, mfacts[f].source, "owner")
       IN mfacts' = m.facts /\ mtime' = m.time
    /\ UNCHANGED <<menabled, mobs, mwork>>

MemoryNext ==
    \/ UpdateConfig
    \/ \E o \in MObs : enqueueMemoryObservation(o) \/ TimePasses(o)
    \/ \E w \in MWorkers :
          \/ ClaimObservation(w) \/ RetryObservation(w) \/ Abandon(w)
          \/ \E c \in Candidates : ApplyObservation(w, c)
    \/ \E f \in Facts : DeleteFact(f) \/ \E v \in MValues : UpdateFact(f, v)

MemorySpec == MemoryInit /\ [][MemoryNext]_memoryVars

-----------------------------------------------------------------------------
(* An observation is worked on under one lease, within its attempts, and   *)
(* one that is given up has used all of them.                              *)
ObservationsExact ==
    \A o \in MObs :
        /\ mobs[o].lease # 0 <=> mobs[o].state = "processing"
        /\ mobs[o].lease \in {0, mobs[o].attempt} /\ mobs[o].attempt <= MAttempts
        /\ mobs[o].state = "dead" => mobs[o].attempt = MAttempts

(* The changes of an observation are in the memory once, and only when it  *)
(* is completed, whatever was retried or abandoned in between.             *)
AppliedOnce ==
    \A i \in DOMAIN mtime : mtime[i].by = "agent" =>
        /\ mobs[mtime[i].obs].state = "completed"
        /\ \A j \in DOMAIN mtime :
              /\ mtime[j].by = "agent" /\ mtime[j].obs = mtime[i].obs
              /\ mfacts[mtime[j].fact].pred = mfacts[mtime[i].fact].pred
              => i = j

(* A predicate has one active fact, and the timeline alone tells which:    *)
(* the one added or put in place last and not retracted since.             *)
TimelineTellsFacts ==
    /\ \A f, g \in Facts : Active(f) /\ Active(g) /\ mfacts[f].pred = mfacts[g].pred => f = g
    /\ \A f \in Facts :
          /\ \E i \in DOMAIN mtime :
                /\ mtime[i].fact = f /\ mtime[i].prev = mfacts[f].prev
                /\ mtime[i].kind = IF mfacts[f].prev = 0 THEN "added" ELSE "replaced"
          /\ mfacts[f].state = "retracted" <=>
                \E i \in DOMAIN mtime : mtime[i].kind = "retracted" /\ mtime[i].fact = f
          /\ mfacts[f].state = "superseded" <=>
                \E i \in DOMAIN mtime : mtime[i].kind = "replaced" /\ mtime[i].prev = f

(* The memory is what its observations and its owner made of it: each      *)
(* observation counted once under its lease, and a history that explains   *)
(* the facts that core_memory_store.go recalls.                            *)
MemoryInv == ObservationsExact /\ AppliedOnce /\ TimelineTellsFacts

(* Switching the memory off keeps the queued observations for later, as    *)
(* the comment above core_memory_configs says: one that waits can still be *)
(* claimed.  False of the code: ApplyObservation gives an observation back *)
(* in its last attempt, and no claim takes it again.                       *)
QueuedStaysClaimable ==
    \A o \in MObs : mobs[o].state = "pending" => mobs[o].attempt < MAttempts
=============================================================================
