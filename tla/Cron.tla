-------------------------------- MODULE Cron --------------------------------
(***************************************************************************)
(* The two cron calculators of the repository: NextCron, which sets the    *)
(* cursor of a schedule when it is created or changed, and the runtime's   *)
(* CronCalculator, which moves it when the schedule fires.  One asks of    *)
(* each time whether the fields match it, the other builds the set of      *)
(* values of each field first.                                             *)
(*                                                                         *)
(* A field is the set of its comma-separated items; the base of an item is *)
(* <<>> for "*", <<v, v>> for a number and <<lo, hi>> for a range, and its *)
(* step is 0 when none is written.  The fields modelled are the two with   *)
(* rules of their own, day of month and day of week (where 0 and 7 are     *)
(* Sunday); minute, hour and month match by the same rule without them.    *)
(***************************************************************************)
EXTENDS Integers

CronField(min, max, steps) ==
    [base : {<<>>} \cup {<<lo, hi>> : lo \in min..max, hi \in min..max}, step : steps]

\* "*" exactly as written: "*/1" is not a wildcard for the day rule.
Wildcard(field) == field = {[base |-> <<>>, step |-> 0]}

ItemLow(i, min) == IF i.base = <<>> THEN min ELSE i.base[1]
ItemHigh(i, max) == IF i.base = <<>> THEN max ELSE i.base[2]
ItemStep(i) == IF i.step = 0 THEN 1 ELSE i.step

(* validCronField                                                          *)
validCronField(field, min, max) ==
    \A i \in field :
        /\ i.step <= max - min
        /\ i.base # <<>> => /\ i.base[1] \in min..max /\ i.base[2] \in min..max
                            /\ i.base[1] <= i.base[2]

(* cronFieldMatches                                                        *)
cronFieldMatches(field, value, min, max) ==
    LET Hit(v) == \E i \in field : /\ v >= ItemLow(i, min) /\ v <= ItemHigh(i, max)
                                   /\ (v - ItemLow(i, min)) % ItemStep(i) = 0
    IN  \/ value = 0 /\ max = 7 /\ Hit(7)
        \/ Hit(value)

(* NextCron's test of a day.                                               *)
NextCronAccepts(dom, dow, day, weekday) ==
    LET d == cronFieldMatches(dom, day, 1, 31)
        w == cronFieldMatches(dow, weekday, 0, 7)
    IN  \/ Wildcard(dom) /\ Wildcard(dow)
        \/ Wildcard(dom) /\ w
        \/ Wildcard(dow) /\ d
        \/ ~Wildcard(dom) /\ ~Wildcard(dow) /\ (d \/ w)

\* Mutant: Sunday is only the 0 of the field.
parseFieldWithoutSunday(field, min, max) ==
    UNION {{v \in ItemLow(i, min)..ItemHigh(i, max) :
                (v - ItemLow(i, min)) % ItemStep(i) = 0} : i \in field}

(* parseField                                                              *)
parseField(field, min, max) ==
    LET values == UNION {{v \in ItemLow(i, min)..ItemHigh(i, max) :
                              (v - ItemLow(i, min)) % ItemStep(i) = 0} : i \in field}
    IN  values \cup (IF max = 7 /\ 7 \in values THEN {0} ELSE {})

(* CronCalculator.Next's test of a day: it continues when the test fails.  *)
CalculatorAccepts(dom, dow, day, weekday) ==
    LET d == day \in parseField(dom, 1, 31)
        w == weekday \in parseField(dow, 0, 7)
    IN  ~ \/ /\ ~(Wildcard(dom) /\ Wildcard(dow))
             /\ \/ Wildcard(dom) /\ ~w
                \/ Wildcard(dow) /\ ~d
                \/ ~Wildcard(dom) /\ ~Wildcard(dow) /\ ~(d \/ w)

(* The first day after the given one that a test accepts.                  *)
FirstAfter(Accepts(_), after) ==
    CHOOSE t \in (after + 1)..(after + 7) :
        Accepts(t) /\ \A u \in (after + 1)..(t - 1) : ~Accepts(u)
=============================================================================
