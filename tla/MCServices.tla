----------------------------- MODULE MCServices -----------------------------
(***************************************************************************)
(* The services that do not share state with each other, checked in one    *)
(* run: a behaviour is one of the service its focus names, with the others *)
(* at rest in an initial state.  "schedule" has one schedule and two       *)
(* profiles, "schedules" two schedules and one profile.                    *)
(***************************************************************************)
EXTENDS ConversationTurn, Workload, Schedule, CronFields, CapabilityOperation, TLC

VARIABLE focus

Focuses == {"turn", "workload", "schedule", "schedules", "cron", "capability"}
serviceVars == <<turnVars, workloadVars, scheduleVars, cron, capVars, focus>>

\* One set of processes for both services, so that one permutation moves them all.
Sym == Permutations(Supervisors \cup WExecutors)

\* A call that needs consent, alone or with a call of the process, and a
\* read with a call of the process.
Gated == <<"gated">>
Both == <<"gated", "local">>
Pair == <<"read", "local">>
TurnSetting(max, batches, steer, stops, others) ==
    [max |-> max, batches |-> batches, steers |-> steer, stops |-> stops, others |-> others]
MCSettings ==
    {TurnSetting(2, {Gated, Pair}, 0, 1, 0), TurnSetting(1, {Gated, Pair}, 1, 1, 0),
     TurnSetting(1, {Both}, 0, 1, 1), TurnSetting(2, {Gated}, 1, 0, 0)}

MCKind == 1 :> "apply" @@ 2 :> "destroy"
MCClaims == 1 :> 2 @@ 2 :> 1

\* Day 6, a Saturday, once; and every day of the weekend.
MCTriggers == {[at |-> 6, dow |-> {}], [at |-> 0, dow |-> {[base |-> <<6, 7>>, step |-> 0]}]}

Fields(items) == {{i} : i \in items}
MCWeekdayFields ==
    Fields(CronField(0, 7, {0, 1, 2, 3, 5}))
        \cup {{[base |-> <<d, d>>, step |-> 0], [base |-> <<5, 7>>, step |-> 2]} : d \in 0..7}
MCDayFields ==
    Fields({[base |-> <<>>, step |-> 0], [base |-> <<>>, step |-> 1],
            [base |-> <<>>, step |-> 2], [base |-> <<1, 7>>, step |-> 3],
            [base |-> <<31, 31>>, step |-> 0]})

MCDisturbances == {[restarts |-> 1, calls |-> 1]}

\* The initial states of a service that is not the focus are cut to one.
Rests(service) == focus # service
ServicesInit ==
    /\ focus \in Focuses
    /\ TurnInit /\ (Rests("turn") => budget = TurnSetting(2, {Gated}, 1, 0, 0))
    /\ WorkloadInit /\ (Rests("workload") => wrow = "none")
    /\ ScheduleInit /\ profs[2] = "none"
    /\ CASE focus = "schedule" -> edits = 3
         [] focus = "schedules" -> edits = 2
         [] OTHER -> edits = 0 /\ profs[1] = "none"
    /\ CronInit
    /\ Rests("cron") <=> cron = {}
    /\ CapInit

Focused(service) == focus = service /\ UNCHANGED focus

ServicesNext ==
    \/ /\ Focused("turn") /\ TurnNext
       /\ UNCHANGED <<workloadVars, scheduleVars, cron, capVars>>
    \/ /\ Focused("workload") /\ WorkloadNext
       /\ UNCHANGED <<turnVars, scheduleVars, cron, capVars>>
    \/ /\ Focused("schedule") /\ ScheduleNext /\ sched'[2] = NoSchedule
       /\ UNCHANGED <<turnVars, workloadVars, cron, capVars>>
    \/ /\ Focused("schedules") /\ ScheduleNext /\ profs'[2] = "none"
       /\ UNCHANGED <<turnVars, workloadVars, cron, capVars>>
    \/ /\ Focused("capability") /\ CapNext
       /\ UNCHANGED <<turnVars, workloadVars, scheduleVars, cron>>

ServicesSpec == ServicesInit /\ [][ServicesNext]_serviceVars
=============================================================================
