------------------------------ MODULE Analytics ------------------------------
(* Pass rates and flakiness: finished runs are rolled up into one row per      *)
(* window, date, project and platform. The hub recomputes the current day and  *)
(* the current week on two timers and any other day on request; every row of a *)
(* recomputation is written by its own upsert, long after the runs were read.  *)
EXTENDS Integers, FiniteSets

CONSTANTS
    Runs,            \* ids of execution runs
    Platforms,       \* "android" and "ios"
    Suites,          \* test suites
    ProjectOf,       \* project of a run
    PlatformOf,      \* platform of the device of a run; "all" when the device is unknown
    SuiteOf,         \* suite of a run
    LastDay,         \* bound on the calendar: days are 0..LastDay
    DaysPerWeek,     \* 7
    FirstWeekDay,    \* getUTCDay() of day 0; 0 is the last day of an ISO week
    FlakinessDays,   \* FLAKINESS_WINDOW_DAYS
    Requests,        \* bound on POST /recompute: the windows and days asked for
    MaxFaults        \* bound on failing database calls and restarts of the hub

ASSUME CalendarAssumption ==
    /\ LastDay \in Nat
    /\ DaysPerWeek \in Nat \ {0}
    /\ FirstWeekDay \in 0..(DaysPerWeek - 1)
    /\ Requests \subseteq {"daily", "weekly"} \X (0..LastDay)

VARIABLES
    today,    \* the current day (UTC)
    ended,    \* ended[r]: day of endedAt and the result
    row,      \* row[k]: the AnalyticsAggregate document of the key k
    job,      \* job[j]: the recomputation a timer or a request has under way
    faults

vars == <<today, ended, row, job, faults>>

Days == 0..LastDay
Windows == {"daily", "weekly"}
Projects == {ProjectOf[r] : r \in Runs}
Buckets == Projects \X (Platforms \union {"all"})
Keys == Windows \X Days \X Buckets
Jobs == {"analyticsInterval", "weeklyAnalyticsInterval", "request"}

NotEnded == [day |-> -1, passed |-> FALSE]
NoRow == [runs |-> {}, flaky |-> {}]
IdleJob == [at |-> "idle", window |-> "daily", date |-> 0, runs |-> {},
            todo |-> {}, bucket |-> {}, flaky |-> {}]

Init ==
    /\ today = 0
    /\ ended = [r \in Runs |-> NotEnded]
    /\ row = [k \in Keys |-> NoRow]
    /\ job = [j \in Jobs |-> IdleJob]
    /\ faults = 0

(***************************************************************************)
(* The calendar.                                                           *)
(***************************************************************************)
WeekDay(d) == (d + FirstWeekDay) % DaysPerWeek

\* The Monday of the ISO week of d; Sunday, number 0, belongs to the week before.
IsoWeekStart(d) == d - (IF WeekDay(d) = 0 THEN DaysPerWeek - 1 ELSE WeekDay(d) - 1)

BucketDate(window, d) == IF window = "daily" THEN d ELSE IsoWeekStart(d)
RangeEnd(window, date) == date + (IF window = "daily" THEN 1 ELSE DaysPerWeek)

(***************************************************************************)
(* What the documents say. A summary is a function of the runs it counts.  *)
(***************************************************************************)
\* Variant: the end of the range is included.
FinishedInclusive(first, end) == {r \in Runs : ended[r].day \in first..end}

Finished(first, end) == {r \in Runs : ended[r].day \in first..(end - 1)}

\* Runs a bucket counts: those of its platform, or all of the project.
Group(runs, bucket) ==
    {r \in runs : ProjectOf[r] = bucket[1] /\ bucket[2] \in {PlatformOf[r], "all"}}

\* Variant: the rollup of the project is forgotten where a platform has data.
BucketsOfPlatforms(runs) ==
    {b \in Buckets : \E r \in runs : ProjectOf[r] = b[1] /\ b[2] = PlatformOf[r]}

BucketsWithData(runs) ==
    {b \in Buckets : \E r \in runs : ProjectOf[r] = b[1] /\ b[2] \in {PlatformOf[r], "all"}}

OfSuite(runs, s) == {r \in runs : SuiteOf[r] = s}
PassRate(runs) == <<Cardinality({r \in runs : ended[r].passed}), Cardinality(runs)>>
SameRate(p, q) == p[1] * q[2] = q[1] * p[2]

\* The daily rows of the window that end before `end`, as they are stored now,
\* and, for a daily bucket, the rates just computed. A row of the same day that
\* an earlier recomputation left is among them.
Rates(bucket, end, fresh, s) ==
    {PassRate(OfSuite(row[<<"daily", d, bucket>>].runs, s)) :
        d \in {d \in Days : /\ end - FlakinessDays <= d /\ d < end
                            /\ OfSuite(row[<<"daily", d, bucket>>].runs, s) # {}}}
      \union (IF OfSuite(fresh, s) = {} THEN {} ELSE {PassRate(OfSuite(fresh, s))})

\* stddev is zero exactly where all rates are the same.
Flaky(bucket, end, fresh, suites) ==
    {s \in suites : \E p, q \in Rates(bucket, end, fresh, s) : ~SameRate(p, q)}

(***************************************************************************)
(* computeAggregates: read the runs, then per bucket read the history and  *)
(* write the row. A project's buckets follow each other, the rollup last.  *)
(* A week that began before day 0 is outside the calendar.                 *)
(***************************************************************************)
Compute(j, window, d) ==
    LET date == BucketDate(window, d)
        runs == Finished(date, RangeEnd(window, date))
    IN  /\ job[j].at = "idle"
        /\ date >= 0
        /\ job' = [job EXCEPT ![j] =
              IF runs = {} THEN IdleJob
              ELSE [IdleJob EXCEPT !.at = "history", !.window = window, !.date = date,
                                   !.runs = runs, !.todo = BucketsWithData(runs)]]
        /\ UNCHANGED <<today, ended, row, faults>>

NextBuckets(todo) ==
    {b \in todo : b[2] = "all" => \A c \in todo : c[1] = b[1] => c = b}

ReadHistory(j) ==
    LET r == job[j]
        end == RangeEnd(r.window, r.date)
    IN  /\ r.at = "history"
        /\ \E b \in NextBuckets(r.todo) :
              LET group == Group(r.runs, b)
                  fresh == IF r.window = "daily" THEN group ELSE {}
              IN  job' = [job EXCEPT ![j].at = "upsert", ![j].bucket = b,
                             ![j].flaky = Flaky(b, end, fresh, {SuiteOf[x] : x \in group})]
        /\ UNCHANGED <<today, ended, row, faults>>

Upsert(j) ==
    LET r == job[j]
        rest == r.todo \ {r.bucket}
    IN  /\ r.at = "upsert"
        /\ row' = [row EXCEPT ![<<r.window, r.date, r.bucket>>] =
                      [runs |-> Group(r.runs, r.bucket), flaky |-> r.flaky]]
        /\ job' = [job EXCEPT ![j] = IF rest = {} THEN IdleJob
                      ELSE [r EXCEPT !.at = "history", !.todo = rest, !.bucket = {}, !.flaky = {}]]
        /\ UNCHANGED <<today, ended, faults>>

\* A call throws; the timer logs it and the rows written so far stay.
ComputeFails(j) ==
    /\ job[j].at # "idle"
    /\ faults < MaxFaults
    /\ job' = [job EXCEPT ![j] = IdleJob]
    /\ faults' = faults + 1
    /\ UNCHANGED <<today, ended, row>>

AnalyticsInterval == Compute("analyticsInterval", "daily", today)

WeeklyAnalyticsInterval == Compute("weeklyAnalyticsInterval", "weekly", today)
Recompute == \E q \in Requests : Compute("request", q[1], q[2])

(***************************************************************************)
(* The rest of the system.                                                 *)
(***************************************************************************)
RunEnds(r) ==
    /\ ended[r] = NotEnded
    /\ \E passed \in BOOLEAN : ended' = [ended EXCEPT ![r] = [day |-> today, passed |-> passed]]
    /\ UNCHANGED <<today, row, job, faults>>

Midnight ==
    /\ today < LastDay
    /\ today' = today + 1
    /\ UNCHANGED <<ended, row, job, faults>>

Crash ==
    /\ faults < MaxFaults
    /\ \E j \in Jobs : job[j] # IdleJob
    /\ job' = [j \in Jobs |-> IdleJob]
    /\ faults' = faults + 1
    /\ UNCHANGED <<today, ended, row>>

Next ==
    \/ AnalyticsInterval
    \/ WeeklyAnalyticsInterval
    \/ Recompute
    \/ \E j \in Jobs : ReadHistory(j) \/ Upsert(j) \/ ComputeFails(j)
    \/ \E r \in Runs : RunEnds(r)
    \/ Midnight
    \/ Crash

\* Timers fire again and again, and database calls return.
Fairness ==
    /\ WF_vars(AnalyticsInterval)
    /\ WF_vars(WeeklyAnalyticsInterval)
    /\ \A j \in Jobs : WF_vars(ReadHistory(j) \/ Upsert(j))

Spec == Init /\ [][Next]_vars /\ Fairness

(***************************************************************************)
(* Properties.                                                             *)
(***************************************************************************)
\* No run is counted by two rows of one window and bucket; a row of a day counts
\* only what ended in that very day, and a row of a week what ended from the Monday
\* its date names on, before the next Monday.
CountedWhereItEnded ==
    \A w \in Windows, b \in Buckets, d \in Days :
        \A r \in row[<<w, d, b>>].runs :
            /\ \A e \in Days \ {d} : r \notin row[<<w, e, b>>].runs
            /\ ended[r].day \in Days
            /\ w = "daily" => ended[r].day = d
            /\ w = "weekly" => /\ ended[r].day >= d
                               /\ WeekDay(d) = 1 % DaysPerWeek
                               /\ \A e \in (d + 1)..ended[r].day : WeekDay(e) # 1 % DaysPerWeek

\* The rows of a window and date count exactly what ended in it, by platform and
\* in all, and call a suite flaky exactly where the daily rates stored for the
\* window that ends with it differ, be they only two: so say stddev and the comment
\* above computeFlakinessBySuite. docs/modules/analytics.md asks for three.
Exact(window, date) ==
    LET end == RangeEnd(window, date)
        runs == {r \in Runs : ended[r].day \in date..(end - 1)}
    IN  \A b \in Buckets :
          Group(runs, b) # {} =>
            /\ row[<<window, date, b>>].runs = Group(runs, b)
            /\ row[<<window, date, b>>].flaky =
                 {s \in {SuiteOf[r] : r \in Group(runs, b)} :
                    \E d, e \in (end - FlakinessDays)..(end - 1) \intersect Days :
                       LET R(x) == OfSuite(row[<<"daily", x, b>>].runs, s)
                       IN  /\ R(d) # {} /\ R(e) # {}
                           /\ ~SameRate(PassRate(R(d)), PassRate(R(e)))}

\* The current day and the current week become exact and stay so, whatever
\* overlapped, failed or was restarted before: a day that lasts (the last one of
\* the calendar does) outlives every recomputation that read too early.
RowsCatchUp ==
    <>[](/\ Exact("daily", today)
         /\ IsoWeekStart(today) >= 0 => Exact("weekly", IsoWeekStart(today)))
=============================================================================
