------------------------------ MODULE Schedule ------------------------------
(***************************************************************************)
(* Schedules and the model profiles their tasks run with: the rows of      *)
(* core_schedules, their occurrences, the receipts of trigger_now, the     *)
(* profiles with the converged conversation default, and the ScheduleLoop  *)
(* that turns due schedules into tasks.                                    *)
(*                                                                         *)
(* Time counts days from a Sunday, day 0; a trigger is one day or a cron   *)
(* expression restricted by day of week.  A step is one transaction, or    *)
(* one read outside of it: an update reads the schedule before its         *)
(* transaction begins, and TriggerNow reads it without a lock.  The row    *)
(* locks make the rest of a transaction one step, so SKIP LOCKED has       *)
(* nothing to skip.  Profiles are numbered in their order of creation, all *)
(* of kind conversation.  Left out: a template whose owner is not anchored *)
(* or has been deprovisioned, and the deprovisioning gate of the loop.     *)
(***************************************************************************)
EXTENDS Cron, FiniteSets

CONSTANTS Schedules,      \* numbers, in the order of their ids
          SProfiles,      \* numbers, in the order of creation
          STriggers,      \* [at, dow]: a day and no field, or 0 and a field
          SKeys,          \* idempotency keys of trigger_now
          SFirst, SLast,  \* bound on time
          SEdits,         \* bound on the owner's mutations
          SRetries        \* maxDependencyRetries

ASSUME ScheduleAssumption ==
    /\ Schedules \subseteq Nat \ {0} /\ SProfiles \subseteq Nat \ {0}
    /\ SFirst \in Nat \ {0} /\ SLast \in Nat /\ SFirst <= SLast
    /\ 0 \notin SKeys /\ SEdits \in Nat /\ SRetries \in Nat \ {0}
    /\ STriggers \subseteq [at : Nat, dow : SUBSET CronField(0, 7, Nat)]
    /\ \A g \in STriggers : g.at = 0 <=> g.dow # {}
    /\ \A g \in STriggers : validCronField(g.dow, 0, 7)

VARIABLES
    clock,
    sched,     \* rows: state, trigger, paused, next, last (0 is NULL), rev, profile
               \* (0 for a template without one)
    occs,      \* core_schedule_occurrences: [sched, at, key], key 0 for a due one
    receipts,  \* core_schedule_replays of trigger_now, by key: the schedule or 0
    profs,     \* state of each profile: none, live, bare (its key is cleared), deleted
    profRefs,  \* core_model_profile_active_refs of schedules: <<schedule, profile>>
    default,   \* the default conversation profile, 0 when unset
    sloop,     \* the loop: [pc, now, tries]
    edit,      \* an update between its read and its transaction
    trig,      \* by key: what TriggerNow has read
    edits      \* owner's mutations left

scheduleVars == <<clock, sched, occs, receipts, profs, profRefs, default, sloop, edit,
                  trig, edits>>

NoTrigger == [at |-> 0, dow |-> {}]
NoSchedule == [state |-> "none", trigger |-> NoTrigger, paused |-> FALSE,
               next |-> 0, last |-> 0, rev |-> 0, profile |-> 0]
NoEdit == [sched |-> 0, row |-> NoSchedule, trigger |-> NoTrigger, profile |-> 0, at |-> 0]
NoTrig == [sched |-> 0, profile |-> 0]
Live(s) == sched[s].state = "live"
Recurring(g) == g.at = 0
AnyDay == {[base |-> <<>>, step |-> 0]}

\* Where each calculator puts the cursor of a recurring trigger.
NextCron(after, g) ==
    LET Accepts(t) == NextCronAccepts(AnyDay, g.dow, t, t % 7) IN FirstAfter(Accepts, after)
CalculatorNext(after, g) ==
    LET Accepts(t) == CalculatorAccepts(AnyDay, g.dow, t, t % 7) IN FirstAfter(Accepts, after)

-----------------------------------------------------------------------------
(* Model profiles.                                                         *)

Eligible(ps) == {p \in SProfiles : ps[p] = "live"}
Least(S) == CHOOSE x \in S : \A y \in S : x <= y

(* convergedConfiguredDefaultTx: the default stays while it is eligible;   *)
(* else the next eligible profile after it takes its place, wrapping, and  *)
(* the first one when there was none.                                      *)
Converged(current, ps) ==
    LET later == {p \in Eligible(ps) : p > current}
    IN  IF current \in Eligible(ps) THEN current
        ELSE IF later # {} THEN Least(later)
        ELSE IF Eligible(ps) # {} THEN Least(Eligible(ps)) ELSE 0

(* Profiles may exist before the first schedule.                            *)
ScheduleInit ==
    /\ clock = SFirst
    /\ sched = [s \in Schedules |-> NoSchedule]
    /\ occs = {} /\ receipts = [k \in SKeys |-> 0]
    /\ profs \in [SProfiles -> {"none", "live"}] /\ profRefs = {}
    /\ default = Converged(0, profs)
    /\ sloop = [pc |-> "idle", now |-> 0, tries |-> 0]
    /\ edit = NoEdit /\ trig = [k \in SKeys |-> NoTrig]
    /\ edits \in 0..SEdits

ProfilesBecome(ps, chosen) ==
    /\ edits > 0 /\ edits' = edits - 1
    /\ profs' = ps /\ default' = Converged(chosen, ps)
    /\ UNCHANGED <<clock, sched, occs, receipts, profRefs, sloop, edit, trig>>

CreateProfile(p) ==
    /\ profs[p] = "none" /\ \A q \in SProfiles : q > p => profs[q] = "none"
    /\ ProfilesBecome([profs EXCEPT ![p] = "live"], default)

\* An update may clear the key or set it again; schedules do not block it.
UpdateProfile(p) ==
    /\ profs[p] \in {"live", "bare"}
    /\ ProfilesBecome([profs EXCEPT ![p] = IF @ = "live" THEN "bare" ELSE "live"], default)

DeleteProfile(p) ==
    /\ profs[p] \in {"live", "bare"}
    /\ ~ \E s \in Schedules : <<s, p>> \in profRefs /\ Live(s)
    /\ ProfilesBecome([profs EXCEPT ![p] = "deleted"], default)

\* The client's list: each of its profiles is created, restored or updated, with
\* a key that is given, copied or already there, and the default may be chosen.
SyncProfiles(listed, chosen) ==
    LET ps == [p \in SProfiles |-> IF p \in listed THEN "live" ELSE profs[p]] IN
    /\ ProfilesBecome(ps, chosen)
    /\ \A p \in listed, q \in SProfiles : profs[p] = "none" /\ q > p => profs[q] = "none"
    /\ chosen \in Eligible(ps) \cup {default}

(* lockLiveScheduleProfileTx                                               *)
lockLiveScheduleProfileTx(p) == p # 0 => profs[p] \in {"live", "bare"}

(* resolveScheduledDefaultProfileTx, then resolveTaskSnapshotTx, which     *)
(* refuses a profile that is gone or has no key.                           *)
Resolved(p) == IF p = 0 THEN Converged(default, profs) ELSE p
Usable(p) == Resolved(p) # 0 /\ profs[Resolved(p)] = "live"
-----------------------------------------------------------------------------
(* The owner's calls.                                                      *)

OwnerStep == edits > 0 /\ edits' = edits - 1

CreateSchedule(s, g, p) ==
    /\ sched[s].state = "none" /\ lockLiveScheduleProfileTx(p)
    /\ OwnerStep
    /\ sched' = [sched EXCEPT ![s] =
                    [state |-> "live", trigger |-> g, paused |-> FALSE,
                     next |-> IF Recurring(g) THEN NextCron(clock, g) ELSE g.at,
                     last |-> 0, rev |-> 1, profile |-> p]]
    /\ profRefs' = profRefs \cup {<<s, q>> : q \in {p} \ {0}}
    /\ UNCHANGED <<clock, occs, receipts, profs, default, sloop, edit, trig>>

(* update_schedule reads the row it is going to write back whole.          *)
ReadForUpdate(s, g, p) ==
    /\ edit = NoEdit /\ Live(s)
    /\ edit' = [sched |-> s, row |-> sched[s], trigger |-> g, profile |-> p, at |-> clock]
    /\ OwnerStep
    /\ UNCHANGED <<clock, sched, occs, receipts, profs, profRefs, default, sloop, trig>>

\* The cursor of an updated schedule: a changed trigger owns a fresh one.
UpdatedCursor(old, e) ==
    IF e.trigger = old.trigger THEN e.row.next
    ELSE IF Recurring(e.trigger) THEN NextCron(e.at, e.trigger) ELSE e.trigger.at

UpdateApplies(e) ==
    /\ Live(e.sched) /\ sched[e.sched].rev = e.row.rev
    /\ lockLiveScheduleProfileTx(e.profile)

WriteUpdate(e, refs) ==
    /\ sched' = [sched EXCEPT ![e.sched] =
                    [e.row EXCEPT !.trigger = e.trigger, !.profile = e.profile,
                                  !.next = UpdatedCursor(sched[e.sched], e),
                                  !.rev = sched[e.sched].rev + 1]]
    /\ profRefs' = refs

MovedRefs(e) ==
    {r \in profRefs : r[1] # e.sched} \cup {<<e.sched, q>> : q \in {e.profile} \ {0}}

\* Mutant: the row that was read is written back whatever happened since.
UpdateScheduleUnchecked ==
    /\ edit # NoEdit
    /\ IF Live(edit.sched) /\ lockLiveScheduleProfileTx(edit.profile)
       THEN WriteUpdate(edit, MovedRefs(edit)) ELSE UNCHANGED <<sched, profRefs>>
    /\ edit' = NoEdit
    /\ UNCHANGED <<clock, occs, receipts, profs, default, sloop, trig, edits>>

UpdateSchedule ==
    /\ edit # NoEdit
    /\ IF UpdateApplies(edit)
       THEN WriteUpdate(edit, MovedRefs(edit)) ELSE UNCHANGED <<sched, profRefs>>
    /\ edit' = NoEdit
    /\ UNCHANGED <<clock, occs, receipts, profs, default, sloop, trig, edits>>

(* PauseSchedule, ResumeSchedule: at the revision the owner has seen.      *)
SetPaused(s, paused) ==
    /\ Live(s) /\ sched[s].paused # paused
    /\ sched' = [sched EXCEPT ![s].paused = paused, ![s].rev = @ + 1]
    /\ OwnerStep
    /\ UNCHANGED <<clock, occs, receipts, profs, profRefs, default, sloop, edit, trig>>

DeleteSchedule(s) ==
    /\ Live(s)
    /\ sched' = [sched EXCEPT ![s].state = "deleted", ![s].rev = @ + 1]
    /\ profRefs' = {r \in profRefs : r[1] # s}
    /\ OwnerStep
    /\ UNCHANGED <<clock, occs, receipts, profs, default, sloop, edit, trig>>
-----------------------------------------------------------------------------
(* TriggerNow, which holds the advisory lock of its key.                   *)

\* A receipt answers the call, or refuses it when it is another request's.
TriggerRead(k, s) ==
    /\ trig[k] = NoTrig /\ receipts[k] = 0
    /\ Live(s) /\ ~sched[s].paused
    /\ trig' = [trig EXCEPT ![k] = [sched |-> s, profile |-> sched[s].profile]]
    /\ UNCHANGED <<clock, sched, occs, receipts, profs, profRefs, default, sloop, edit, edits>>

TriggerCommit(k) ==
    /\ trig[k] # NoTrig
    /\ IF Usable(trig[k].profile)
       THEN /\ occs' = occs \cup {[sched |-> trig[k].sched, at |-> clock, key |-> k]}
            /\ receipts' = [receipts EXCEPT ![k] = trig[k].sched]
            /\ default' = IF trig[k].profile = 0 THEN Resolved(0) ELSE default
       ELSE UNCHANGED <<occs, receipts, default>>
    /\ trig' = [trig EXCEPT ![k] = NoTrig]
    /\ UNCHANGED <<clock, sched, profs, profRefs, sloop, edit, edits>>
-----------------------------------------------------------------------------
(* The loop.                                                               *)

DayPasses ==
    /\ clock < SLast /\ clock' = clock + 1
    /\ UNCHANGED <<sched, occs, receipts, profs, profRefs, default, sloop, edit, trig, edits>>

\* The first run of the loop, or a tick of its timer.
Tick ==
    /\ sloop.pc = "idle" /\ sloop.now < clock
    /\ sloop' = [pc |-> "draining", now |-> clock, tries |-> 0]
    /\ UNCHANGED <<clock, sched, occs, receipts, profs, profRefs, default, edit, trig, edits>>

DueNow ==
    {s \in Schedules : Live(s) /\ ~sched[s].paused /\ sched[s].next \in 1..sloop.now}

\* ORDER BY next_run_at, schedule_id ... LIMIT 1
FirstDue(s) ==
    /\ s \in DueNow
    /\ \A u \in DueNow : \/ sched[s].next < sched[u].next
                         \/ sched[s].next = sched[u].next /\ s <= u

\* Mutant: each missed time is fired on its own.
DueTimeWithoutCatchUp(s) == sched[s].next

\* Missed times of a recurring schedule are one occurrence, of the last of them.
DueTime(s) ==
    LET row == sched[s]
        missed == IF Recurring(row.trigger)
                  THEN {t \in (row.next + 1)..sloop.now :
                            CalculatorAccepts(AnyDay, row.trigger.dow, t, t % 7)}
                  ELSE {}
    IN  CHOOSE t \in missed \cup {row.next} : \A u \in missed : u <= t

Collides(s) == [sched |-> s, at |-> DueTime(s), key |-> 0] \in occs

Advanced(row, due) ==
    [row EXCEPT !.last = due, !.rev = @ + 1,
                !.next = IF Recurring(row.trigger) THEN CalculatorNext(due, row.trigger) ELSE 0]

MaterializeNextDue(s) ==
    /\ sloop.pc = "draining" /\ FirstDue(s)
    /\ Usable(sched[s].profile) /\ ~Collides(s)
    /\ occs' = occs \cup {[sched |-> s, at |-> DueTime(s), key |-> 0]}
    /\ sched' = [sched EXCEPT ![s] = Advanced(@, DueTime(s))]
    /\ default' = IF sched[s].profile = 0 THEN Resolved(0) ELSE default
    /\ sloop' = [sloop EXCEPT !.tries = 0]
    /\ UNCHANGED <<clock, receipts, profs, profRefs, edit, trig, edits>>

\* No default profile is ErrNotFound, retried; a profile without a key is a
\* conflict and a second occurrence of one time violates its index, both fatal.
MaterializeFails(s) ==
    /\ sloop.pc = "draining" /\ FirstDue(s)
    /\ ~Usable(sched[s].profile) \/ Collides(s)
    /\ LET retried == Resolved(sched[s].profile) = 0 /\ sloop.tries + 1 < SRetries
       IN  sloop' = IF retried THEN [sloop EXCEPT !.tries = @ + 1]
                               ELSE [sloop EXCEPT !.pc = "stopped"]
    /\ UNCHANGED <<clock, sched, occs, receipts, profs, profRefs, default, edit, trig, edits>>

NothingDue ==
    /\ sloop.pc = "draining" /\ DueNow = {}
    /\ sloop' = [sloop EXCEPT !.pc = "idle", !.tries = 0]
    /\ UNCHANGED <<clock, sched, occs, receipts, profs, profRefs, default, edit, trig, edits>>

\* runCoreLifecycle ends the process when the loop returns; it is started again
\* and the loop runs at once.  A crash between two transactions looks the same.
RestartProcess ==
    /\ sloop.pc \in {"draining", "stopped"}
    /\ sloop' = [pc |-> "draining", now |-> clock, tries |-> 0]
    /\ edit' = NoEdit /\ trig' = [k \in SKeys |-> NoTrig]
    /\ UNCHANGED <<clock, sched, occs, receipts, profs, profRefs, default, edits>>

ProfileNext ==
    \/ \E p \in SProfiles : CreateProfile(p) \/ UpdateProfile(p) \/ DeleteProfile(p)
    \/ \E listed \in SUBSET SProfiles, chosen \in SProfiles \cup {0} : SyncProfiles(listed, chosen)
OwnerNext ==
    \/ \E s \in Schedules, g \in STriggers, p \in SProfiles \cup {0} :
            CreateSchedule(s, g, p) \/ ReadForUpdate(s, g, p)
    \/ UpdateSchedule
    \/ \E s \in Schedules :
            SetPaused(s, TRUE) \/ SetPaused(s, FALSE) \/ DeleteSchedule(s)
    \/ \E k \in SKeys : TriggerCommit(k) \/ \E s \in Schedules : TriggerRead(k, s)
LoopNext ==
    \/ Tick \/ NothingDue \/ RestartProcess
    \/ \E s \in Schedules : MaterializeNextDue(s) \/ MaterializeFails(s)

ScheduleNext == DayPasses \/ ProfileNext \/ OwnerNext \/ LoopNext

ScheduleSpec == ScheduleInit /\ [][ScheduleNext]_scheduleVars
-----------------------------------------------------------------------------
(* Every row, receipt and step in flight has its type, a deleted schedule  *)
(* holds no profile, and an unset default means that no profile is         *)
(* eligible.                                                               *)
ScheduleTypeOK ==
    /\ clock \in SFirst..SLast
    /\ \A s \in Schedules :
        /\ sched[s].state \in {"none", "live", "deleted"}
        /\ sched[s].state # "none" => sched[s].trigger \in STriggers
        /\ sched[s].next \in Nat /\ sched[s].last \in 0..clock /\ sched[s].rev \in Nat
        /\ sched[s].profile \in SProfiles \cup {0}
    /\ \A o \in occs : o.sched \in Schedules /\ o.at \in 1..clock /\ o.key \in SKeys \cup {0}
    /\ profRefs \subseteq {r \in Schedules \X SProfiles : Live(r[1])}
    /\ default \in SProfiles \cup {0} /\ (default = 0 <=> Eligible(profs) = {})
    /\ sloop.pc \in {"idle", "draining", "stopped"} /\ sloop.tries \in 0..(SRetries - 1)
    /\ receipts \in [SKeys -> Schedules \cup {0}]

(* The cursor of a recurring schedule is set, is a time its expression     *)
(* accepts, and is later than every time the schedule has already fired    *)
(* for, whatever updates were in flight while it fired: a firing is never  *)
(* repeated and never refused as a duplicate.                              *)
CursorAhead ==
    \A s \in Schedules :
        Live(s) /\ Recurring(sched[s].trigger) =>
            /\ CalculatorAccepts(AnyDay, sched[s].trigger.dow, sched[s].next, sched[s].next % 7)
            /\ \A o \in occs : o.sched = s /\ o.key = 0 => o.at < sched[s].next

(* A nondeleted schedule blocks the deletion of the profile it names, from *)
(* the moment it names it: no live schedule names a deleted profile.       *)
NamedProfileKept ==
    \A s \in Schedules :
        Live(s) /\ sched[s].profile # 0 => profs[sched[s].profile] \in {"live", "bare"}

(* One key of trigger_now makes one task: the occurrence of the receipt,   *)
(* whichever schedules the calls that used the key asked for.              *)
OneTaskPerKey ==
    \A k \in SKeys :
        {o.sched : o \in {x \in occs : x.key = k}} = {receipts[k]} \ {0}

(* What every edit of a schedule or a profile and every firing leave true  *)
(* of the cursors, of the references between the two tables and of the     *)
(* receipts.                                                               *)
ScheduleInv == ScheduleTypeOK /\ CursorAhead /\ NamedProfileKept /\ OneTaskPerKey

(* A schedule that fires at a tick is not due again at the same tick, so   *)
(* draining a tick ends and missed times do not pile up.                   *)
FiringCatchesUp ==
    [][\A s \in Schedules :
            sched'[s].last # sched[s].last => sched'[s].next = 0 \/ sched'[s].next > sloop.now
      ]_scheduleVars

(* The loop goes on, and a process that ended is started again.            *)
ScheduleFairness ==
    /\ WF_scheduleVars(Tick) /\ WF_scheduleVars(NothingDue)
    /\ \A s \in Schedules : /\ WF_scheduleVars(MaterializeNextDue(s))
                            /\ WF_scheduleVars(MaterializeFails(s))
    /\ WF_scheduleVars(DayPasses)
    /\ WF_scheduleVars(sloop.pc = "stopped" /\ RestartProcess)

ScheduleFairSpec == ScheduleSpec /\ ScheduleFairness

(* A schedule that is due and could run is not held up for ever by another *)
(* one: "Cron schedules create FIFO Tasks and recover due work".  No run  *)
(* checks it: it is false of the code (see the README).                    *)
DueWorkRuns ==
    \A s \in Schedules :
        Live(s) /\ ~sched[s].paused /\ sched[s].next \in 1..clock
        /\ Usable(sched[s].profile) /\ ~ [sched |-> s, at |-> sched[s].next, key |-> 0] \in occs
            ~> \/ ~Live(s) \/ sched[s].paused \/ ~Usable(sched[s].profile)
               \/ sched[s].last >= sched[s].next \/ sched[s].next > clock
=============================================================================
