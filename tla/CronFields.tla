----------------------------- MODULE CronFields -----------------------------
(***************************************************************************)
(* Whether the two calculators read the day fields of a valid cron         *)
(* expression alike.                                                       *)
(***************************************************************************)
EXTENDS Cron

CONSTANTS DayFields, WeekdayFields  \* the fields to compare on

ASSUME CronFieldsAssumption ==
    /\ DayFields \subseteq SUBSET CronField(1, 31, Nat)
    /\ WeekdayFields \subseteq SUBSET CronField(0, 7, Nat)

VARIABLE cron   \* the expression under comparison, if there is one

(* ParseCron accepts the expression.                                       *)
ParseCron(e) == validCronField(e.dom, 1, 31) /\ validCronField(e.dow, 0, 7)

CronInit ==
    cron \in {{}} \cup {{e} : e \in {x \in [dom : DayFields, dow : WeekdayFields] : ParseCron(x)}}

(* The cursor NextCron sets at creation and the times CronCalculator fires *)
(* at are of the same days, with Sunday as 0 or 7, with ranges and steps   *)
(* that end on it, and with either day field restricted.                   *)
CronCalculatorsAgree ==
    \A e \in cron, day \in 1..31, weekday \in 0..6 :
        NextCronAccepts(e.dom, e.dow, day, weekday)
            <=> CalculatorAccepts(e.dom, e.dow, day, weekday)
=============================================================================
