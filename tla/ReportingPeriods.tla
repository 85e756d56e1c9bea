-------------------------- MODULE ReportingPeriods --------------------------
(***************************************************************************)
(* From the date preset of the workspace to the period of an answer: the   *)
(* ranges the web application writes into an address, what the sales and   *)
(* the operations API make of a query, the next page and the repeated      *)
(* export, while midnights pass.                                           *)
(*                                                                         *)
(* Days are numbered, day 1 begins year 0.  Months are as short as the     *)
(* instance wants them; February of a leap year has a day more.            *)
(***************************************************************************)
EXTENDS Integers, FiniteSets, FiniteSetsExt

CONSTANTS
  MonthDays,        \* days of a month
  LeapYears,
  ShortDays,        \* the days of "last-7-days"
  LongDays,         \* the days of "last-30-days"
  MaxRange,         \* the longest range (366)
  Days,             \* the days on which the workspace is used
  Typed,            \* the dates somebody types
  NotADate          \* one of them, that is in no calendar

ASSUME PeriodsAssumption ==
  /\ MonthDays \in Nat \ {0} /\ LeapYears \subseteq Nat
  /\ ShortDays \in Nat /\ LongDays \in Nat /\ MaxRange \in Nat
  /\ Typed \subseteq Nat
  /\ Days \subseteq Nat \ {0} /\ \A d \in Days : ShortDays <= d /\ LongDays <= d

VARIABLES
  today,            \* in UTC
  preset,           \* the date preset in memory
  openPage,         \* what is open; a "client" is a program that calls the API
  address,          \* its dates, and who wrote them
  answered,         \* the period of the page's answer
  export            \* an export asked for with a key: the dates sent, those kept

periodVars == <<today, preset, openPage, address, answered, export>>

Missing == 0

-----------------------------------------------------------------------------
(* The calendar; months count from 0.                                      *)

\* The leap days before month m of year y.
LeapDays(y, m) == {l \in LeapYears : l < y \/ (l = y /\ m >= 2)}

FirstDay(y, m) == 1 + (12 * y + m) * MonthDays + Cardinality(LeapDays(y, m))

YearOf(day) == CHOOSE y \in 0..day : FirstDay(y, 0) <= day /\ day < FirstDay(y + 1, 0)
MonthOf(day) == Max({m \in 0..11 : FirstDay(YearOf(day), m) <= day})

-----------------------------------------------------------------------------
(* The web application's ranges.                                           *)

Presets == {"last-7-days", "last-30-days", "quarter-to-date", "year-to-date"}
Fallback == "last-30-days"

Period(from, to) == [from |-> from, to |-> to]

\* dateRangeForPreset: the month is set on a date that begins as tomorrow.
DateRangeForPreset(p, now) ==
  LET tomorrow == now + 1
      from == CASE p = "last-7-days" -> tomorrow - ShortDays
                [] p = "last-30-days" -> tomorrow - LongDays
                [] p = "quarter-to-date" ->
                     FirstDay(YearOf(tomorrow), 3 * (MonthOf(now) \div 3))
                [] p = "year-to-date" -> FirstDay(YearOf(tomorrow), 0)
  IN  Period(from, tomorrow)

Address(range, by) == [range |-> range, by |-> by]
Link == Address(Period(Missing, Missing), "link")

Complete(range) == range.from # Missing /\ range.to # Missing

\* fault: an address without dates is left as it is.
AsLinked(a, now) == a

\* The sales page replaces an address without both dates before it asks.
Filled(a, now) ==
  IF Complete(a.range) THEN a ELSE Address(DateRangeForPreset(preset, now), "preset")

\* The operations page puts in what is missing whenever it asks.
Given(date, default) == IF date = Missing THEN default ELSE date
QueryFrom(range, now) ==
  LET fallback == DateRangeForPreset(preset, now)
  IN  Period(Given(range.from, fallback.from), Given(range.to, fallback.to))

-----------------------------------------------------------------------------
(* The API's range: the same for sales and operations.                     *)

DefaultDateRange(now) == Period(now + 1 - LongDays, now + 1)

ValidDate(date) == date # NotADate

Verdict(state, range) == [state |-> state, range |-> range]
NoVerdict == Verdict("nothing", Period(Missing, Missing))
Refused(why) == Verdict(why, Period(Missing, Missing))

NormalizeFilter(sent, now) ==
  LET from == Given(sent.from, DefaultDateRange(now).from)
      to   == Given(sent.to, DefaultDateRange(now).to)
  IN  IF ~ValidDate(from) \/ ~ValidDate(to) \/ from >= to \/ to - from > MaxRange
      THEN Refused("refused")
      ELSE Verdict("accepted", Period(from, to))

\* A cursor carries a digest of the filters it was made under.
WithCursor(verdict, cursor) ==
  IF verdict.state = "accepted" /\ verdict # cursor THEN Refused("cursor") ELSE verdict

-----------------------------------------------------------------------------
PeriodsInit ==
  /\ today \in Days
  /\ preset \in Presets
  /\ openPage \in {"home", "client"}
  /\ address = Link
  /\ answered = NoVerdict
  /\ export = [sent |-> Link.range, kept |-> NoVerdict, repeated |-> NoVerdict]

Midnight ==
  /\ today + 1 \in Days
  /\ today' = today + 1
  /\ UNCHANGED <<preset, openPage, address, answered, export>>

\* The application starts again and reads what its storage holds of the preset.
Restart ==
  /\ openPage # "client"
  /\ \E raw \in Presets \cup {"unknown"} : preset' = IF raw \in Presets THEN raw ELSE Fallback
  /\ openPage' = "home" /\ address' = Link /\ answered' = NoVerdict
  /\ UNCHANGED <<today, export>>

\* A page is opened by its link or by an address somebody wrote.
OpenPage(name, a) ==
  /\ openPage # "client"
  /\ openPage' = name
  /\ address' = IF name = "sales" THEN Filled(a, today) ELSE a
  /\ answered' = NoVerdict
  /\ UNCHANGED <<today, preset, export>>

\* changeDate and selectDatePreset: an analytical page gets the range, any other none.
SelectDatePreset(p) ==
  /\ openPage # "client"
  /\ preset' = p
  /\ IF openPage \in {"sales", "operations"}
       THEN address' = Address(DateRangeForPreset(p, today), "preset") /\ answered' = NoVerdict
       ELSE UNCHANGED <<address, answered>>
  /\ UNCHANGED <<today, openPage, export>>

PageQuery ==
  IF openPage = "sales" THEN address.range ELSE QueryFrom(address.range, today)

LoadPeriod ==
  /\ openPage \in {"sales", "operations"} /\ answered.state = "nothing"
  /\ answered' = NormalizeFilter(PageQuery, today)
  /\ UNCHANGED <<today, preset, openPage, address, export>>

NextPage ==
  /\ openPage \in {"sales", "operations"} /\ answered.state = "accepted"
  /\ answered' = WithCursor(NormalizeFilter(PageQuery, today), answered)
  /\ UNCHANGED <<today, preset, openPage, address, export>>

\* A program asks for an export, and later repeats what it sent with the same key.
Enqueue(sent) ==
  /\ openPage = "client" /\ export.kept.state # "accepted"
  /\ export' = [sent |-> sent, kept |-> NormalizeFilter(sent, today), repeated |-> NoVerdict]
  /\ UNCHANGED <<today, preset, openPage, address, answered>>

Repeat ==
  /\ openPage = "client" /\ export.kept.state = "accepted"
  /\ export' = [export EXCEPT !.repeated =
       LET now == NormalizeFilter(export.sent, today)
       IN  IF now = export.kept THEN now ELSE Refused("key reused")]
  /\ UNCHANGED <<today, preset, openPage, address, answered>>

PeriodsNext ==
  \/ Midnight \/ Restart \/ LoadPeriod \/ NextPage \/ Repeat
  \/ \E name \in {"sales", "operations"} :
       \/ OpenPage(name, Link)
       \/ \E from, to \in Typed : OpenPage(name, Address(Period(from, to), "user"))
  \/ \E p \in Presets : SelectDatePreset(p)
  \/ \E from, to \in Typed : Enqueue(Period(from, to))

PeriodsSpec == PeriodsInit /\ [][PeriodsNext]_periodVars

-----------------------------------------------------------------------------
(* The properties.                                                         *)

Whole(range) ==
  /\ ValidDate(range.from) /\ ValidDate(range.to)
  /\ 0 < range.to - range.from /\ range.to - range.from <= MaxRange

\* What is shown or kept is a period of at least a day and no more than the limit,
\* for a page the one of its address (docs/SALES_ANALYTICS.md:9); and neither a
\* midnight nor a changed preset makes the sales page's next page or the repetition of
\* an export with both dates anything but a continuation of it.
PeriodsHold ==
  /\ answered.state = "accepted" =>
       /\ Whole(answered.range)
       /\ Complete(address.range) => answered.range = address.range
  /\ export.kept.state = "accepted" => Whole(export.kept.range)
  /\ openPage = "sales" => answered.state # "cursor"
  /\ Complete(export.sent) => export.repeated.state # "key reused"

\* The ranges the application itself writes are those the API reports on: a preset
\* is a range with an exclusive end (workspace-preferences.service.spec.ts:62).
PresetsAreReported ==
  answered.state = "refused" => address.by = "user"
=============================================================================
