--------------------------- MODULE AnalyticsProofs ---------------------------
(***************************************************************************)
(* Proofs about the rollups, for any calendar, any length of a week and    *)
(* any number of runs, recomputations, failures and restarts: which runs a *)
(* row counts. The arithmetic of the ISO week comes first.                 *)
(***************************************************************************)
EXTENDS Analytics, TLAPS

(* The calendar. *)

LEMMA Quotient ==
  ASSUME NEW n \in Nat \ {0}, NEW q \in Int, n * q > -n
  PROVE  q \in Nat
  <1>1. CASE q < 0
    <2>1. -q \in Nat \ {0}
      BY <1>1
    <2>2. n * (-q) >= n
      BY <2>1
    <2> QED BY <2>2
  <1> QED BY <1>1

LEMMA Remainder ==
  ASSUME NEW x \in Nat, NEW n \in Nat \ {0}
  PROVE  x % n \in 0 .. n - 1
  OBVIOUS

LEMMA Division ==
  ASSUME NEW x \in Nat, NEW n \in Nat \ {0}
  PROVE  \E q \in Nat : x = n * q + (x % n)
  <1> DEFINE q == x \div n
             s == x % n
  <1>1. q \in Int
    OBVIOUS
  <1>2. s \in 0 .. n - 1
    BY Remainder
  <1>3. s = x - n * q
    OBVIOUS
  <1> HIDE DEF q, s
  <1>4. x = n * q + s
    BY <1>1, <1>2, <1>3
  <1>5. n * q > -n
    BY <1>1, <1>2, <1>4
  <1>6. q \in Nat
    BY <1>1, <1>5, Quotient
  <1> QED BY <1>4, <1>6 DEF s

\* A positive multiple of n is not below n.
LEMMA Multiple ==
  ASSUME NEW n \in Nat \ {0}, NEW q \in Int, n * q > 0
  PROVE  n * q >= n
  OBVIOUS

\* The remainder determines a number up to multiples of n.
LEMMA SameRemainder ==
  ASSUME NEW n \in Nat \ {0}, NEW x \in Nat, NEW k \in 1 .. n - 1
  PROVE  (x + k) % n # x % n
  <1> SUFFICES ASSUME (x + k) % n = x % n PROVE FALSE
    OBVIOUS
  <1>0. x % n \in Nat
    BY Remainder
  <1>1. PICK p \in Nat : x = n * p + (x % n)
    BY Division
  <1>2. PICK q \in Nat : x + k = n * q + (x % n)
    <2>1. x + k \in Nat
      OBVIOUS
    <2> QED BY <2>1, Division
  <1>3. n * q - n * p = k
    BY <1>0, <1>1, <1>2
  <1>4. n * q - n * p = n * (q - p)
    BY <1>1, <1>2
  <1>5. q - p \in Int /\ n * (q - p) = k
    BY <1>1, <1>2, <1>3, <1>4
  <1> QED BY <1>5, Multiple

\* Adding a multiple of n keeps the remainder.
LEMMA RemainderOfSum ==
  ASSUME NEW n \in Nat \ {0}, NEW q \in Int, NEW s \in 0 .. n - 1, NEW x \in Nat,
         x = n * q + s
  PROVE  x % n = s
  <1> DEFINE t == x % n
  <1>0. t \in 0 .. n - 1 /\ \E p \in Nat : x = n * p + t
    BY Remainder, Division
  <1> HIDE DEF t
  <1>1. PICK p \in Nat : x = n * p + t
    BY <1>0
  <1>2. n * (q - p) = t - s /\ n * (p - q) = s - t
    BY <1>0, <1>1
  <1>3. t - s \in Int /\ s - t \in Int /\ t - s < n /\ s - t < n
    BY <1>0
  <1>4. ~(t - s > 0)
    <2> DEFINE k == q - p
    <2>1. k \in Int /\ n * k = t - s
      BY <1>2
    <2> HIDE DEF k
    <2>2. n * k > 0 => n * k >= n
      BY <2>1, Multiple
    <2> QED BY <1>3, <2>1, <2>2
  <1>5. ~(s - t > 0)
    <2> DEFINE k == p - q
    <2>1. k \in Int /\ n * k = s - t
      BY <1>2
    <2> HIDE DEF k
    <2>2. n * k > 0 => n * k >= n
      BY <2>1, Multiple
    <2> QED BY <1>3, <2>1, <2>2
  <1>6. t = s
    BY <1>0, <1>3, <1>4, <1>5
  <1> QED BY <1>6 DEF t

\* The ISO week of a day starts on a Monday, and there is no other in it.
LEMMA WeekStartsOnMonday ==
  ASSUME NEW d \in Days, IsoWeekStart(d) >= 0
  PROVE  IsoWeekStart(d) \in Days /\ WeekDay(IsoWeekStart(d)) = 1 % DaysPerWeek
  <1> DEFINE n == DaysPerWeek
             x == d + FirstWeekDay
             w == x % n
             start == d - (IF w = 0 THEN n - 1 ELSE w - 1)
             y == start + FirstWeekDay
  <1>1. n \in Nat \ {0} /\ x \in Nat /\ d \in Nat /\ FirstWeekDay \in Nat /\ d <= LastDay
        /\ LastDay \in Nat
    BY CalendarAssumption DEF Days
  <1>2. w \in 0 .. n - 1 /\ \E q \in Nat : x = n * q + w
    <2> HIDE DEF n, x
    <2> QED BY <1>1, Remainder, Division
  <1>3. start = IsoWeekStart(d) /\ WeekDay(start) = y % n
    BY DEF IsoWeekStart, WeekDay
  <1>4. start >= 0
    BY <1>3
  <1> HIDE DEF w, n
  <1>5. start \in Days
    BY <1>1, <1>2, <1>4 DEF Days
  <1>6. y \in Nat
    BY <1>1, <1>2, <1>4
  <1>7. PICK q \in Nat : x = n * q + w
    BY <1>2
  <1>8. CASE n = 1
    <2>1. y % n = 0 /\ 1 % n = 0
      <3> HIDE DEF y
      <3> QED BY <1>6, <1>8
    <2> QED BY <1>3, <1>5, <2>1 DEF n
  <1>9. CASE n # 1
    <2>1. 1 \in 0 .. n - 1 /\ 1 = n * 0 + 1
      BY <1>1, <1>9
    <2>2. 1 % n = 1
      BY <1>1, <2>1, RemainderOfSum
    <2>3. \E p \in Int : y = n * p + 1
      <3>1. CASE w = 0
        <4>1. y = n * q - n + 1
          BY <1>1, <1>7, <3>1
        <4>2. n * q - n = n * (q - 1) /\ q - 1 \in Int
          BY <1>1
        <4> QED BY <1>1, <4>1, <4>2
      <3>2. CASE w # 0
        <4>1. y = n * q + 1
          BY <1>1, <1>2, <1>7, <3>2
        <4> QED BY <4>1
      <3> QED BY <3>1, <3>2
    <2>4. y % n = 1
      <3>1. PICK p \in Int : y = n * p + 1
        BY <2>3
      <3>2. n \in Nat \ {0} /\ 1 \in 0 .. n - 1 /\ y \in Nat
        BY <1>1, <1>6, <2>1
      <3> HIDE DEF y
      <3> QED BY <3>1, <3>2, RemainderOfSum
    <2> QED BY <1>3, <1>5, <2>2, <2>4 DEF n
  <1> QED BY <1>8, <1>9

LEMMA OneMondayAWeek ==
  ASSUME NEW d \in Nat, NEW e \in d + 1 .. d + DaysPerWeek - 1
  PROVE  WeekDay(e) # WeekDay(d)
  <1> DEFINE n == DaysPerWeek
             x == d + FirstWeekDay
             k == e - d
  <1>1. n \in Nat \ {0} /\ x \in Nat /\ k \in 1 .. n - 1
    BY CalendarAssumption
  <1>2. WeekDay(d) = x % n /\ WeekDay(e) = (x + k) % n
    <2>1. e + FirstWeekDay = x + k
      BY CalendarAssumption
    <2> QED BY <2>1 DEF WeekDay
  <1> HIDE DEF n, x, k
  <1> QED BY <1>1, <1>2, SameRemainder

-----------------------------------------------------------------------------
(* Which runs a row counts. *)

Dates(window, date) == date .. (RangeEnd(window, date) - 1)

\* The runs that a row of the window and date may count.
CountedBy(finished, runs, window, date) ==
  /\ \A r \in runs : finished[r].day \in Dates(window, date)
  /\ (runs # {} /\ window = "weekly") => WeekDay(date) = 1 % DaysPerWeek

SuitesOfRuns == {SuiteOf[r] : r \in Runs}
Row == [runs : SUBSET Runs, flaky : SUBSET SuitesOfRuns]
Job == [at : {"idle", "history", "upsert"}, window : Windows, date : Days,
        runs : SUBSET Runs, todo : SUBSET Buckets, bucket : Buckets \cup {{}},
        flaky : SUBSET SuitesOfRuns]

RollupTyping ==
  /\ today \in Days
  /\ ended \in [Runs -> [day : Days \cup {-1}, passed : BOOLEAN]]
  /\ \A r \in Runs : ended[r].day = -1 => ended[r] = NotEnded
  /\ row \in [Keys -> Row]
  /\ job \in [Jobs -> Job]

RowsCount ==
  \A w \in Windows, d \in Days, b \in Buckets : CountedBy(ended, row[<<w, d, b>>].runs, w, d)
JobsCount == \A j \in Jobs : CountedBy(ended, job[j].runs, job[j].window, job[j].date)

RollupInv == RollupTyping /\ RowsCount /\ JobsCount

LEMMA InitRollup == Init => RollupInv
  <1> SUFFICES ASSUME Init PROVE RollupInv
    OBVIOUS
  <1>1. 0 \in Days
    BY CalendarAssumption DEF Days
  <1>2. NoRow \in Row /\ IdleJob \in Job
    BY <1>1 DEF NoRow, Row, IdleJob, Job, Windows
  <1>3. NotEnded \in [day : Days \cup {-1}, passed : BOOLEAN]
    BY DEF NotEnded
  <1>4. RollupTyping
    BY <1>1, <1>2, <1>3 DEF Init, RollupTyping
  <1>5. RowsCount
    BY DEF Init, RowsCount, CountedBy, Keys, NoRow
  <1>6. JobsCount
    BY DEF Init, JobsCount, CountedBy, IdleJob
  <1> QED BY <1>4, <1>5, <1>6 DEF RollupInv

\* A day that lies in the range of a date is a day on which runs end.
LEMMA DatesAreDays ==
  ASSUME RollupTyping, NEW w \in Windows, NEW d \in Days, NEW r \in Runs,
         ended[r].day \in Dates(w, d)
  PROVE  ended[r].day # -1
  BY CalendarAssumption DEF Dates, Days

\* What has ended stays where it is: the runs of a row or a job do not move.
LEMMA EndedStays ==
  ASSUME RollupTyping, NEW s \in Runs, RunEnds(s),
         NEW runs \in SUBSET Runs, NEW w \in Windows, NEW d \in Days, CountedBy(ended, runs, w, d)
  PROVE  CountedBy(ended', runs, w, d)
  <1>1. ASSUME NEW r \in runs PROVE ended'[r] = ended[r]
    <2>1. ended[r].day # -1
      BY DatesAreDays DEF CountedBy
    <2>2. r # s
      BY <2>1 DEF RunEnds, NotEnded
    <2> QED BY <2>2 DEF RunEnds, RollupTyping
  <1> QED BY <1>1 DEF CountedBy

LEMMA ComputeCounts ==
  ASSUME RollupInv, NEW j \in Jobs, NEW window \in Windows, NEW d \in Days, Compute(j, window, d)
  PROVE  RollupInv'
  <1> DEFINE date == BucketDate(window, d)
             runs == Finished(date, RangeEnd(window, date))
             new == [IdleJob EXCEPT !.at = "history", !.window = window, !.date = date,
                                    !.runs = runs, !.todo = BucketsWithData(runs)]
  <1>1. /\ date >= 0 /\ UNCHANGED <<today, ended, row>>
        /\ job' = [job EXCEPT ![j] = IF runs = {} THEN IdleJob ELSE new]
    BY DEF Compute
  <1>2. date \in Days
    BY <1>1, WeekStartsOnMonday DEF BucketDate
  <1>3. window = "weekly" => WeekDay(date) = 1 % DaysPerWeek
    BY <1>1, WeekStartsOnMonday DEF BucketDate
  <1>4. runs \in SUBSET Runs /\ \A r \in runs : ended[r].day \in Dates(window, date)
    BY DEF Finished, Dates
  <1>5. BucketsWithData(runs) \in SUBSET Buckets
    BY DEF BucketsWithData
  <1> HIDE DEF date, runs
  <1>6. /\ new \in Job /\ new.runs = runs /\ new.window = window /\ new.date = date
        /\ IdleJob \in Job /\ IdleJob.runs = {}
    <2>1. 0 \in Days
      BY CalendarAssumption DEF Days
    <2> QED BY <1>2, <1>4, <1>5, <2>1 DEF IdleJob, Job, Windows
  <1> HIDE DEF new
  <1>7. RollupTyping'
    BY <1>1, <1>6 DEF RollupInv, RollupTyping
  <1>8. RowsCount'
    BY <1>1 DEF RollupInv, RowsCount
  <1>9. JobsCount'
    <2> SUFFICES ASSUME NEW i \in Jobs
                 PROVE  CountedBy(ended', job'[i].runs, job'[i].window, job'[i].date)
      BY DEF JobsCount
    <2>1. CASE i # j
      <3>1. job'[i] = job[i]
        BY <1>1, <2>1 DEF RollupInv, RollupTyping
      <3> QED BY <1>1, <3>1 DEF RollupInv, JobsCount
    <2>2. CASE i = j
      <3>1. job'[j] = IF runs = {} THEN IdleJob ELSE new
        BY <1>1 DEF RollupInv, RollupTyping
      <3> QED BY <1>1, <1>3, <1>4, <1>6, <2>2, <3>1 DEF CountedBy
    <2> QED BY <2>1, <2>2
  <1> QED BY <1>7, <1>8, <1>9 DEF RollupInv

\* A recomputation that goes on, or is given up, counts no run it did not read.
LEMMA JobGoesOn ==
  ASSUME RollupInv, UNCHANGED <<today, ended, row>>, job' \in [Jobs -> Job],
         \A j \in Jobs : \/ job'[j].runs = {}
                         \/ /\ job'[j].runs = job[j].runs /\ job'[j].window = job[j].window
                            /\ job'[j].date = job[j].date
  PROVE  RollupInv'
  <1>1. RollupTyping' /\ RowsCount'
    BY DEF RollupInv, RollupTyping, RowsCount
  <1>2. JobsCount'
    BY DEF RollupInv, JobsCount, CountedBy
  <1> QED BY <1>1, <1>2 DEF RollupInv

LEMMA HistoryCounts ==
  ASSUME RollupInv, NEW j \in Jobs, ReadHistory(j)
  PROVE  RollupInv'
  <1>1. PICK b \in NextBuckets(job[j].todo) : \E fresh :
          /\ UNCHANGED <<today, ended, row>>
          /\ job' = [job EXCEPT ![j].at = "upsert", ![j].bucket = b,
                         ![j].flaky = Flaky(b, RangeEnd(job[j].window, job[j].date), fresh,
                                            {SuiteOf[x] : x \in Group(job[j].runs, b)})]
    BY DEF ReadHistory
  <1>0. PICK fresh :
          job' = [job EXCEPT ![j].at = "upsert", ![j].bucket = b,
                         ![j].flaky = Flaky(b, RangeEnd(job[j].window, job[j].date), fresh,
                                            {SuiteOf[x] : x \in Group(job[j].runs, b)})]
    BY <1>1
  <1> DEFINE flaky == Flaky(b, RangeEnd(job[j].window, job[j].date), fresh,
                            {SuiteOf[x] : x \in Group(job[j].runs, b)})
  <1>2. job[j] \in Job /\ job \in [Jobs -> Job]
    BY DEF RollupInv, RollupTyping
  <1>3. b \in Buckets
    BY <1>2 DEF NextBuckets, Job
  <1>4. flaky \in SUBSET SuitesOfRuns
    BY <1>2 DEF Flaky, Group, SuitesOfRuns, Job
  <1>5. job' = [job EXCEPT ![j].at = "upsert", ![j].bucket = b, ![j].flaky = flaky]
    BY <1>0
  <1> HIDE DEF flaky
  <1>6. job' \in [Jobs -> Job]
    BY <1>2, <1>3, <1>4, <1>5 DEF Job
  <1>7. \A i \in Jobs : /\ job'[i].runs = job[i].runs /\ job'[i].window = job[i].window
                        /\ job'[i].date = job[i].date
    BY <1>2, <1>5 DEF Job
  <1> QED BY <1>1, <1>6, <1>7, JobGoesOn

LEMMA UpsertCounts ==
  ASSUME RollupInv, NEW j \in Jobs, Upsert(j)
  PROVE  RollupInv'
  <1> DEFINE r == job[j]
             key == <<r.window, r.date, r.bucket>>
             new == [runs |-> Group(r.runs, r.bucket), flaky |-> r.flaky]
             rest == r.todo \ {r.bucket}
             next == IF rest = {} THEN IdleJob
                     ELSE [r EXCEPT !.at = "history", !.todo = rest, !.bucket = {}, !.flaky = {}]
  <1>1. /\ row' = [row EXCEPT ![key] = new] /\ job' = [job EXCEPT ![j] = next]
        /\ UNCHANGED <<today, ended>>
    BY DEF Upsert
  <1>2. r \in Job /\ job \in [Jobs -> Job] /\ row \in [Keys -> Row]
    BY DEF RollupInv, RollupTyping
  <1>3. new \in Row /\ new.runs \subseteq r.runs
    BY <1>2 DEF Row, Job, Group
  <1>4. /\ next \in Job
        /\ \/ next.runs = {}
           \/ next.runs = r.runs /\ next.window = r.window /\ next.date = r.date
    <2>1. 0 \in Days
      BY CalendarAssumption DEF Days
    <2>2. IdleJob \in Job /\ IdleJob.runs = {}
      BY <2>1 DEF IdleJob, Job, Windows
    <2>3. CASE rest = {}
      <3>1. next = IdleJob
        BY <2>3
      <3> HIDE DEF next
      <3> QED BY <2>2, <3>1
    <2>4. CASE rest # {}
      <3>1. rest \in SUBSET Buckets
        BY <1>2 DEF Job
      <3> HIDE DEF r, rest
      <3>2. next = [r EXCEPT !.at = "history", !.todo = rest, !.bucket = {}, !.flaky = {}]
        BY <2>4
      <3> HIDE DEF next
      <3> QED BY <1>2, <3>1, <3>2 DEF Job
    <2> QED BY <2>3, <2>4
  <1>5. CountedBy(ended, r.runs, r.window, r.date)
    BY DEF RollupInv, JobsCount
  <1> HIDE DEF r, new, next
  <1>6. row' \in [Keys -> Row] /\ job' \in [Jobs -> Job]
    BY <1>1, <1>2, <1>3, <1>4
  <1>7. RollupTyping'
    BY <1>1, <1>6 DEF RollupInv, RollupTyping
  <1>8. RowsCount'
    <2> SUFFICES ASSUME NEW w \in Windows, NEW d \in Days, NEW b \in Buckets
                 PROVE  CountedBy(ended', row'[<<w, d, b>>].runs, w, d)
      BY DEF RowsCount
    <2>1. <<w, d, b>> \in Keys
      BY DEF Keys
    <2>2. CASE <<w, d, b>> # key
      <3>1. row'[<<w, d, b>>] = row[<<w, d, b>>]
        BY <1>1, <1>2, <2>1, <2>2
      <3> QED BY <1>1, <3>1 DEF RollupInv, RowsCount
    <2>3. CASE <<w, d, b>> = key
      <3>1. row'[<<w, d, b>>] = new
        BY <1>1, <1>2, <2>1, <2>3
      <3>2. w = r.window /\ d = r.date
        BY <2>3
      <3> QED BY <1>1, <1>3, <1>5, <3>1, <3>2 DEF CountedBy
    <2> QED BY <2>2, <2>3
  <1>9. JobsCount'
    <2> SUFFICES ASSUME NEW i \in Jobs
                 PROVE  CountedBy(ended', job'[i].runs, job'[i].window, job'[i].date)
      BY DEF JobsCount
    <2>1. CASE i # j
      <3>1. job'[i] = job[i]
        BY <1>1, <1>2, <2>1
      <3> QED BY <1>1, <3>1 DEF RollupInv, JobsCount
    <2>2. CASE i = j
      <3>1. job'[j] = next
        BY <1>1, <1>2
      <3> QED BY <1>1, <1>4, <1>5, <2>2, <3>1 DEF CountedBy
    <2> QED BY <2>1, <2>2
  <1> QED BY <1>7, <1>8, <1>9 DEF RollupInv

\* A recomputation that is given up, or lost in a crash, leaves the rows it wrote.
LEMMA GivenUp ==
  ASSUME RollupInv, UNCHANGED <<today, ended, row>>,
         \/ job' = [j \in Jobs |-> IdleJob]
         \/ \E j \in Jobs : job' = [job EXCEPT ![j] = IdleJob]
  PROVE  RollupInv'
  <1>1. IdleJob \in Job /\ IdleJob.runs = {}
    <2>1. 0 \in Days
      BY CalendarAssumption DEF Days
    <2> QED BY <2>1 DEF IdleJob, Job, Windows
  <1>2. job \in [Jobs -> Job]
    BY DEF RollupInv, RollupTyping
  <1>3. job' \in [Jobs -> Job]
    BY <1>1, <1>2
  <1>4. \A i \in Jobs : job'[i] = IdleJob \/ job'[i] = job[i]
    BY <1>2
  <1> QED BY <1>1, <1>3, <1>4, JobGoesOn

LEMMA RunEndsCounts ==
  ASSUME RollupInv, NEW s \in Runs, RunEnds(s)
  PROVE  RollupInv'
  <1>1. PICK passed \in BOOLEAN : ended' = [ended EXCEPT ![s] = [day |-> today, passed |-> passed]]
    BY DEF RunEnds
  <1>2. UNCHANGED <<today, row, job>>
    BY DEF RunEnds
  <1>3. RollupTyping'
    <2>1. today \in Days /\ today # -1
      BY CalendarAssumption DEF RollupInv, RollupTyping, Days
    <2> QED BY <1>1, <1>2, <2>1 DEF RollupInv, RollupTyping
  <1>4. RowsCount'
    <2> SUFFICES ASSUME NEW w \in Windows, NEW d \in Days, NEW b \in Buckets
                 PROVE  CountedBy(ended', row[<<w, d, b>>].runs, w, d)
      BY <1>2 DEF RowsCount
    <2>1. row[<<w, d, b>>].runs \in SUBSET Runs
      BY DEF RollupInv, RollupTyping, Keys, Row
    <2>2. CountedBy(ended, row[<<w, d, b>>].runs, w, d)
      BY DEF RollupInv, RowsCount
    <2> QED BY <2>1, <2>2, EndedStays DEF RollupInv
  <1>5. JobsCount'
    <2> SUFFICES ASSUME NEW j \in Jobs
                 PROVE  CountedBy(ended', job[j].runs, job[j].window, job[j].date)
      BY <1>2 DEF JobsCount
    <2>1. job[j].runs \in SUBSET Runs /\ job[j].window \in Windows /\ job[j].date \in Days
      BY DEF RollupInv, RollupTyping, Job
    <2>2. CountedBy(ended, job[j].runs, job[j].window, job[j].date)
      BY DEF RollupInv, JobsCount
    <2> QED BY <2>1, <2>2, EndedStays DEF RollupInv
  <1> QED BY <1>3, <1>4, <1>5 DEF RollupInv

LEMMA RollupInvHolds == Spec => []RollupInv
  <1>1. ASSUME RollupInv, [Next]_vars
        PROVE  RollupInv'
    <2>1. today \in Days
      BY <1>1 DEF RollupInv, RollupTyping
    <2>2. CASE AnalyticsInterval
      BY <1>1, <2>1, <2>2, ComputeCounts DEF AnalyticsInterval, Jobs, Windows
    <2>3. CASE WeeklyAnalyticsInterval
      BY <1>1, <2>1, <2>3, ComputeCounts DEF WeeklyAnalyticsInterval, Jobs, Windows
    <2>4. CASE Recompute
      <3>1. PICK q \in Requests : Compute("request", q[1], q[2])
        BY <2>4 DEF Recompute
      <3>2. q[1] \in Windows /\ q[2] \in Days /\ "request" \in Jobs
        BY CalendarAssumption DEF Windows, Days, Jobs
      <3> QED BY <1>1, <3>1, <3>2, ComputeCounts
    <2>5. CASE \E j \in Jobs : ReadHistory(j)
      BY <1>1, <2>5, HistoryCounts
    <2>6. CASE \E j \in Jobs : Upsert(j)
      BY <1>1, <2>6, UpsertCounts
    <2>7. CASE (\E j \in Jobs : ComputeFails(j)) \/ Crash
      BY <1>1, <2>7, GivenUp DEF ComputeFails, Crash
    <2>8. CASE \E r \in Runs : RunEnds(r)
      BY <1>1, <2>8, RunEndsCounts
    <2>9. CASE Midnight
      <3>1. today' \in Days /\ UNCHANGED <<ended, row, job>>
        BY <2>1, <2>9, CalendarAssumption DEF Midnight, Days
      <3> QED BY <1>1, <3>1 DEF RollupInv, RollupTyping, RowsCount, JobsCount
    <2>10. CASE UNCHANGED vars
      BY <1>1, <2>10 DEF vars, RollupInv, RollupTyping, RowsCount, JobsCount
    <2> QED BY <1>1, <2>2, <2>3, <2>4, <2>5, <2>6, <2>7, <2>8, <2>9, <2>10 DEF Next
  <1> QED BY <1>1, InitRollup, PTL DEF Spec

\* Two weeks that begin on a Monday share no day, nor do two days.
LEMMA DatesAreApart ==
  ASSUME NEW w \in Windows, NEW d \in Days, NEW e \in Days, d # e,
         w = "weekly" => WeekDay(d) = 1 % DaysPerWeek /\ WeekDay(e) = 1 % DaysPerWeek,
         NEW day \in Int, day \in Dates(w, d)
  PROVE  day \notin Dates(w, e)
  <1>1. d \in Nat /\ e \in Nat /\ DaysPerWeek \in Nat \ {0}
    BY CalendarAssumption DEF Days
  <1>2. CASE w = "daily"
    BY <1>1, <1>2 DEF Dates, RangeEnd
  <1>3. CASE w = "weekly"
    <2>1. e \notin d + 1 .. d + DaysPerWeek - 1
      BY <1>1, <1>3, OneMondayAWeek
    <2>2. d \notin e + 1 .. e + DaysPerWeek - 1
      BY <1>1, <1>3, OneMondayAWeek
    <2> QED BY <1>1, <1>3, <2>1, <2>2 DEF Dates, RangeEnd
  <1> QED BY <1>2, <1>3 DEF Windows

\* No run is counted twice in a window and bucket, the row of a day counts only what
\* ended in that day, and the row of a week only what ended from the Monday its date
\* names on, before the next one: the start
\* of the week is computed from the day of the week (analytics.service.ts:31-36), the
\* range is half open (166-169), and a run that has ended never moves.
THEOREM CountedWhereItAlwaysEnded == Spec => []CountedWhereItEnded
  <1>1. RollupInv => CountedWhereItEnded
    <2> SUFFICES ASSUME RollupInv,
                        NEW w \in Windows, NEW b \in Buckets, NEW d \in Days,
                        NEW r \in row[<<w, d, b>>].runs
                 PROVE  /\ \A e \in Days \ {d} : r \notin row[<<w, e, b>>].runs
                        /\ ended[r].day \in Days
                        /\ w = "daily" => ended[r].day = d
                        /\ w = "weekly" =>
                             /\ ended[r].day >= d
                             /\ WeekDay(d) = 1 % DaysPerWeek
                             /\ \A e \in (d + 1)..ended[r].day : WeekDay(e) # 1 % DaysPerWeek
      BY DEF CountedWhereItEnded
    <2>1. \A e \in Days : CountedBy(ended, row[<<w, e, b>>].runs, w, e)
      BY DEF RollupInv, RowsCount
    <2>2. ended[r].day \in Dates(w, d)
      BY <2>1 DEF CountedBy
    <2>3. w = "weekly" => WeekDay(d) = 1 % DaysPerWeek
      BY <2>1 DEF CountedBy
    <2>4. d \in Nat /\ DaysPerWeek \in Nat \ {0} /\ ended[r].day \in Int /\ ended[r].day >= d
      BY <2>2, CalendarAssumption DEF Days, Dates
    <2>7. ended[r].day \in Days
      <3>1. r \in Runs
        BY DEF RollupInv, RollupTyping, Keys, Row
      <3>2. ended[r].day \in Days \cup {-1}
        BY <3>1 DEF RollupInv, RollupTyping
      <3> QED BY <2>4, <3>2
    <2>8. w = "daily" => ended[r].day = d
      BY <2>2, <2>4 DEF Dates, RangeEnd
    <2>5. ASSUME NEW e \in Days \ {d}, r \in row[<<w, e, b>>].runs
          PROVE  FALSE
      <3>1. /\ ended[r].day \in Dates(w, e)
            /\ w = "weekly" => WeekDay(e) = 1 % DaysPerWeek
        BY <2>1, <2>5 DEF CountedBy
      <3> QED BY <2>2, <2>3, <2>4, <3>1, DatesAreApart
    <2>6. ASSUME w = "weekly", NEW e \in (d + 1)..ended[r].day
          PROVE  WeekDay(e) # 1 % DaysPerWeek
      <3>1. e \in d + 1 .. d + DaysPerWeek - 1
        BY <2>2, <2>4, <2>6 DEF Dates, RangeEnd
      <3> QED BY <2>3, <2>4, <2>6, <3>1, OneMondayAWeek
    <2> QED BY <2>3, <2>4, <2>5, <2>6, <2>7, <2>8
  <1> QED BY <1>1, RollupInvHolds, PTL
=============================================================================
