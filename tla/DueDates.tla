------------------------------ MODULE DueDates ------------------------------
(***************************************************************************)
(* When a checkout is due: due.go, and checkDueAt of custody.go.           *)
(*                                                                         *)
(* The page offers last days of use by the rules it was loaded with, and   *)
(* sends the closing time after the one picked; the server decides by the  *)
(* rules it reads then.  In between an admin saves others, and time passes. *)
(* Dates are numbers from a Monday, a time is a date and an hour.          *)
(***************************************************************************)
EXTENDS Naturals, FiniteSetsExt

CONSTANTS
    DayHours,      \* hours in a day: few are enough
    Calendars,     \* the lists of closed dates an admin may keep
    Closings,      \* due_time, as the hour
    Caps,          \* max_checkout_days
    DefaultClosing, DefaultCap,
    MaxClosedRun,  \* how far closed dates may push a due date
    OtherTimes,    \* due times another client may send
    MaxHour,       \* bound: the clock
    MaxRuleSaves   \* bound: changes of the rules

VARIABLES
    hour,          \* the clock
    rules,         \* app_settings
    page,          \* the rules the checkout page was loaded with
    picked,        \* the due time it is about to send, if any, and its rules
    answer,        \* what a checkout sent and was answered, until the next step
    ruleSaves

dueVars == <<hour, rules, page, picked, answer, ruleSaves>>

Rules == [closed : Calendars, at : Closings, maxDays : Caps]

\* A day has the closing time in it.
ASSUME DueFits ==
    /\ DayHours \in Nat \ {0} /\ MaxClosedRun \in Nat /\ OtherTimes \subseteq Nat
    /\ Closings \cup {DefaultClosing} \subseteq 0..DayHours - 1
    /\ Caps \cup {DefaultCap} \subseteq Nat

\* What a fresh install uses, and a checkout that cannot read the settings.
DefaultRules == [closed |-> {}, at |-> DefaultClosing, maxDays |-> DefaultCap]

DueInit ==
    /\ hour = 0 /\ ruleSaves = 0
    /\ rules \in Rules /\ page = rules
    /\ picked = {} /\ answer = {}

-----------------------------------------------------------------------------
(* The calendar.                                                            *)

DateOf(t) == t \div DayHours

SchoolDay(r, date) == date % 7 \notin {5, 6} /\ date \notin r.closed

ClosingOn(r, date) == date * DayHours + r.at

\* nextSchoolDayAt, which gives up after MaxClosedRun dates more.
NextSchoolDayAt(r, date) ==
    LET open == {n \in 0..MaxClosedRun : SchoolDay(r, date + 1 + n)}
    IN  ClosingOn(r, date + 1 + Min(open \cup {MaxClosedRun}))

\* Bug: the closing time of the date sent, be it a school day or not.
ClosingAtOrAfter_AnyDay(r, t) ==
    IF ClosingOn(r, DateOf(t)) < t THEN NextSchoolDayAt(r, DateOf(t)) ELSE ClosingOn(r, DateOf(t))

ClosingAtOrAfter(r, t) ==
    IF ClosingOn(r, DateOf(t)) < t \/ ~SchoolDay(r, DateOf(t))
    THEN NextSchoolDayAt(r, DateOf(t)) ELSE ClosingOn(r, DateOf(t))

LatestDueAt(r, now) == NextSchoolDayAt(r, DateOf(now) + r.maxDays)

\* The due time to store, or none.
CheckDueAt(r, sent, now) ==
    LET due == ClosingAtOrAfter(r, sent) IN
    IF sent > now /\ due <= LatestDueAt(r, now) THEN {due} ELSE {}

-----------------------------------------------------------------------------
LoadsPage ==
    /\ page' \in {rules, DefaultRules} /\ picked' = {} /\ answer' = {}
    /\ UNCHANGED <<hour, rules, ruleSaves>>

\* The picker offers today and maxDays more.
PicksLastDay(lastDay) ==
    /\ lastDay \in DateOf(hour)..DateOf(hour) + page.maxDays
    /\ picked' = {[sent |-> NextSchoolDayAt(page, lastDay), by |-> page]}
    /\ answer' = {}
    /\ UNCHANGED <<hour, rules, page, ruleSaves>>

Answers(sent, by) ==
    /\ \E r \in {rules, DefaultRules} :
          answer' = {[sent |-> sent, by |-> by, rules |-> r, now |-> hour,
                      due |-> CheckDueAt(r, sent, hour)]}
    /\ picked' = {}
    /\ UNCHANGED <<hour, rules, page, ruleSaves>>

SendsPick == \E p \in picked : Answers(p.sent, {p.by})

SendsOther == \E t \in OtherTimes : Answers(t, {})

SavesRules(r) ==
    /\ ruleSaves < MaxRuleSaves /\ ruleSaves' = ruleSaves + 1
    /\ rules' = r /\ answer' = {}
    /\ UNCHANGED <<hour, page, picked>>

HourPasses ==
    /\ hour < MaxHour /\ hour' = hour + 1
    /\ answer' = {}
    /\ UNCHANGED <<rules, page, picked, ruleSaves>>

DueNext ==
    \/ LoadsPage \/ SendsPick \/ SendsOther \/ HourPasses
    \/ \E lastDay \in 0..MaxHour + Max(Caps) : PicksLastDay(lastDay)
    \/ \E r \in Rules : SavesRules(r)

DueSpec == DueInit /\ [][DueNext]_dueVars

-----------------------------------------------------------------------------
\* No holiday around a checkout is longer than maxClosedRun, beyond which the
\* code gives up looking for a school day.
ShortHolidays(a) ==
    \A date \in 0..Max({DateOf(a.sent), DateOf(a.now) + a.rules.maxDays}) :
        \E n \in 1..MaxClosedRun + 1 : SchoolDay(a.rules, date + n)

\* due.go: a loan falls due when the closet is staffed, at the first closing
\* time there is from the one asked for, and "a due time the picker computed is
\* already one, so it comes back unchanged": what the page offered is not refused
\* while the rules stay the same, however late in the day it is sent.
DueAtClosing ==
    \A a \in answer : ShortHolidays(a) =>
        /\ \A due \in a.due :
              /\ SchoolDay(a.rules, DateOf(due)) /\ due = ClosingOn(a.rules, DateOf(due))
              /\ due >= a.sent
              /\ \A date \in DateOf(a.sent)..DateOf(due) - 1 :
                    SchoolDay(a.rules, date) => ClosingOn(a.rules, date) < a.sent
        /\ a.by = {a.rules} /\ a.sent > a.now => a.due = {a.sent}
=============================================================================
