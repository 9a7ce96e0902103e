---------------------------- MODULE CutoffsProofs ----------------------------
(***************************************************************************)
(* budget.rs decides "is this minute blocked" from the windows of today    *)
(* and of yesterday.  That this is what the windows mean, as stretches of  *)
(* a week that begins again when it is over, is proved here for every      *)
(* length of day and week and all windows - the code's are 1440 and 7.     *)
(*                                                                         *)
(* The rest is about the days: what sessions have taken (Took) is what     *)
(* they ran, agentd's sums agree with it until a restart (Books), and a    *)
(* verdict given in a tick stands until the next (Passed).  From that the  *)
(* day's limit, the warning before a cut and what it promises follow, for  *)
(* every number of wrappers and apps, all calendars, limits and days.      *)
(***************************************************************************)
EXTENDS Cutoffs, SumTheorems

(* A whole day lies between the starts of two days. *)
LEMMA DaysApart ==
  ASSUME NEW a \in Nat, NEW b \in Nat, NEW D \in Nat, a < b
  PROVE  a * D + D <= b * D
OBVIOUS

(* Division by a positive divisor. *)
LEMMA Divides ==
  ASSUME NEW x \in Nat, NEW D \in Nat, D > 0
  PROVE  /\ x \div D \in Nat
         /\ x % D \in 0..(D - 1)
         /\ x = D * (x \div D) + (x % D)
<1>1. x = D * (x \div D) + (x % D)
  BY Z3
<1>2. x \div D \in Nat
  OBVIOUS
<1>3. x % D \in 0..(D - 1)
  OBVIOUS
<1> QED BY <1>1, <1>2, <1>3

(* What is left of a division determines the time of day. *)
LEMMA RemainderUnique ==
  ASSUME NEW D \in Int, D > 0, NEW q \in Int, NEW r \in Int, 0 <= r, r < D
  PROVE  (D * q + r) % D = r
OBVIOUS

(* The times of a window lie in a day, in the order of its minutes. *)
LEMMA WindowTimes ==
  ASSUME NEW w \in Window
  PROVE  /\ DayTicks \in Nat /\ DayTicks > 0
         /\ StartOf(w) \in 0..(DayTicks - 1)
         /\ EndOf(w) \in 0..(DayTicks - 1)
         /\ w.start <= w.end <=> StartOf(w) <= EndOf(w)
<1> USE CalendarAssumption
<1>1. w.start \in Nat /\ w.end \in Nat /\ w.start < DayMinutes /\ w.end < DayMinutes
  BY DEF Window, Minute
<1>2. DayTicks \in Nat /\ StartOf(w) \in Nat /\ EndOf(w) \in Nat
  BY <1>1 DEF DayTicks, StartOf, EndOf
<1>3. StartOf(w) + PerMinute <= DayTicks /\ EndOf(w) + PerMinute <= DayTicks
  BY <1>1, DaysApart DEF DayTicks, StartOf, EndOf
<1>4. w.start < w.end => StartOf(w) + PerMinute <= EndOf(w)
  BY <1>1, DaysApart DEF StartOf, EndOf
<1>5. w.end < w.start => EndOf(w) + PerMinute <= StartOf(w)
  BY <1>1, DaysApart DEF StartOf, EndOf
<1>6. w.start = w.end => StartOf(w) = EndOf(w)
  BY DEF StartOf, EndOf
<1> QED BY <1>1, <1>2, <1>3, <1>4, <1>5, <1>6

(* A window blocks a tick of this week if it is keyed to that day and      *)
(* covers it from its start, or to the day before and wraps over it.       *)
LEMMA BlocksThisWeek ==
  ASSUME NEW day \in Nat, NEW time \in 0..(DayTicks - 1), NEW d \in Nat, NEW w \in Window
  PROVE  Blocks(d, w, day * DayTicks + time) <=>
           \/ d = day /\ CoversFromStart(w, time)
           \/ d + 1 = day /\ CoversUntilEndWrap(w, time)
<1> DEFINE D == DayTicks
           s == StartOf(w)
           e == EndOf(w)
<1>1. D \in Nat /\ D > 0 /\ s \in 0..(D - 1) /\ e \in 0..(D - 1) /\ time \in 0..(D - 1)
  BY WindowTimes
<1>2. w.start <= w.end <=> s <= e
  BY WindowTimes
<1>3. d < day => d * D + D <= day * D
  BY <1>1, DaysApart
<1>4. day < d => day * D + D <= d * D
  BY <1>1, DaysApart
<1>5. d + 1 < day => (d + 1) * D + D <= day * D
  BY <1>1, DaysApart
<1>6. (d + 1) * D = d * D + D /\ d * D \in Nat /\ day * D \in Nat
  BY <1>1
<1>7. w.start \in Nat /\ w.end \in Nat
  BY DEF Window, Minute
<1>8. Blocks(d, w, day * DayTicks + time) <=>
        /\ d * D + s <= day * D + time
        /\ day * D + time < d * D + e + (IF w.start > w.end THEN D ELSE 0)
  BY <1>1, <1>6, <1>7 DEF Blocks, Length
<1>9. CoversFromStart(w, time) <=> time >= s /\ (w.start <= w.end => time < e)
  BY DEF CoversFromStart
<1>10. CoversUntilEndWrap(w, time) <=> w.start > w.end /\ time < e
  BY DEF CoversUntilEndWrap
<1> HIDE DEF D, s, e
<1>11. CASE d = day
  BY <1>1, <1>2, <1>6, <1>7, <1>8, <1>9, <1>11
<1>12. CASE d + 1 = day
  BY <1>1, <1>2, <1>6, <1>7, <1>8, <1>10, <1>12
<1>13. CASE d + 1 < day
  BY <1>1, <1>5, <1>6, <1>7, <1>8, <1>13
<1>14. CASE day < d
  BY <1>1, <1>4, <1>6, <1>8, <1>14
<1> QED BY <1>11, <1>12, <1>13, <1>14

(* A week later it is still blocking only if it began on the last day.     *)
LEMMA BlocksNextWeek ==
  ASSUME NEW day \in Weekdays, NEW time \in 0..(DayTicks - 1),
         NEW d \in Weekdays, NEW w \in Window
  PROVE  Blocks(d, w, day * DayTicks + time + Weeklong * DayTicks) <=>
           day = 0 /\ d = Weeklong - 1 /\ CoversUntilEndWrap(w, time)
<1> USE CalendarAssumption
<1>1. day \in Nat /\ d \in Nat /\ d < Weeklong /\ Weeklong + day \in Nat
  BY DEF Weekdays
<1>2. DayTicks \in Nat
  BY WindowTimes
<1>3. day * DayTicks + time + Weeklong * DayTicks = (Weeklong + day) * DayTicks + time
  BY <1>1, <1>2
<1>4. Blocks(d, w, (Weeklong + day) * DayTicks + time) <=>
        \/ d = Weeklong + day /\ CoversFromStart(w, time)
        \/ d + 1 = Weeklong + day /\ CoversUntilEndWrap(w, time)
  BY <1>1, BlocksThisWeek
<1>5. d # Weeklong + day /\ (d + 1 = Weeklong + day <=> day = 0 /\ d = Weeklong - 1)
  BY <1>1
<1> QED BY <1>3, <1>4, <1>5

(* in_blocked_window is right: what it says of a day of the week and a     *)
(* time is what the windows mean at that tick of the week.                 *)
THEOREM InBlockedWindowCorrect ==
  ASSUME NEW rules \in [Weekdays -> SUBSET Window],
         NEW day \in Weekdays, NEW time \in 0..(DayTicks - 1)
  PROVE  InBlockedWindow(rules, day, time) <=> BlockedAt(rules, day * DayTicks + time)
<1> USE CalendarAssumption
<1>1. Pred(day) \in Weekdays /\ Weeklong - 1 \in Weekdays /\ day \in Nat
  BY DEF Pred, Weekdays
<1>2. ASSUME NEW w \in rules[day], CoversFromStart(w, time)
      PROVE  BlockedAt(rules, day * DayTicks + time)
  BY <1>1, <1>2, BlocksThisWeek DEF BlockedAt
<1>3. ASSUME NEW w \in rules[Pred(day)], CoversUntilEndWrap(w, time)
      PROVE  BlockedAt(rules, day * DayTicks + time)
  <2>1. w \in Window
    BY <1>1
  <2>2. CASE day = 0
    <3>1. Pred(day) = Weeklong - 1
      BY <2>2 DEF Pred
    <3> QED BY <1>1, <1>3, <2>1, <2>2, <3>1, BlocksNextWeek DEF BlockedAt
  <2>3. CASE day # 0
    <3>1. Pred(day) + 1 = day /\ Pred(day) \in Nat
      BY <1>1, <2>3 DEF Pred, Weekdays
    <3>2. Blocks(Pred(day), w, day * DayTicks + time)
      BY <1>1, <1>3, <2>1, <3>1, BlocksThisWeek
    <3> QED BY <1>1, <3>2 DEF BlockedAt
  <2> QED BY <2>2, <2>3
<1>4. ASSUME NEW d \in Weekdays, NEW w \in rules[d],
             \/ Blocks(d, w, day * DayTicks + time)
             \/ Blocks(d, w, day * DayTicks + time + Weeklong * DayTicks)
      PROVE  InBlockedWindow(rules, day, time)
  <2>1. w \in Window /\ d \in Nat
    BY DEF Weekdays
  <2>2. \/ d = day /\ CoversFromStart(w, time)
        \/ d + 1 = day /\ CoversUntilEndWrap(w, time)
        \/ day = 0 /\ d = Weeklong - 1 /\ CoversUntilEndWrap(w, time)
    BY <1>1, <1>4, <2>1, BlocksThisWeek, BlocksNextWeek
  <2>3. d + 1 = day => d = Pred(day)
    BY <1>1, <2>1 DEF Pred
  <2>4. day = 0 /\ d = Weeklong - 1 => d = Pred(day)
    BY DEF Pred
  <2> QED BY <2>2, <2>3, <2>4 DEF InBlockedWindow
<1> QED BY <1>2, <1>3, <1>4 DEF InBlockedWindow, BlockedAt

-----------------------------------------------------------------------------
(* The tick of the week that the clock shows. *)
LEMMA TickOfWeek ==
  ASSUME now \in Nat
  PROVE  /\ Weekday \in Weekdays
         /\ Time \in 0..(DayTicks - 1)
         /\ now % (Weeklong * DayTicks) = Weekday * DayTicks + Time
<1> DEFINE D == DayTicks
           N == Weeklong
           week == Date \div N
<1>1. D \in Nat /\ D > 0 /\ N \in Nat /\ N > 0
  BY CalendarAssumption DEF DayTicks
<1> HIDE DEF D, N
<1>2. Date \in Nat /\ Time \in 0..(D - 1) /\ now = D * Date + Time
  BY <1>1, Divides DEF Date, Time, D
<1>3. Weekday \in 0..(N - 1) /\ week \in Nat /\ Date = N * week + Weekday
  BY <1>1, <1>2, Divides DEF Weekday, N
<1> HIDE DEF week
<1>4. now = (N * D) * week + (Weekday * D + Time)
  BY <1>1, <1>2, <1>3
<1>5. N * D \in Nat /\ N * D > 0 /\ Weekday * D \in Nat
  BY <1>1, <1>3
<1>6. Weekday * D + D <= N * D
  BY <1>1, <1>3, DaysApart
<1>7. now % (N * D) = Weekday * D + Time
  <2>1. Weekday * D + Time \in Nat /\ Weekday * D + Time < N * D
    BY <1>1, <1>2, <1>5, <1>6
  <2> DEFINE M == N * D
             r == Weekday * D + Time
  <2>2. M \in Nat /\ M > 0 /\ week \in Nat /\ r \in Nat /\ r < M /\ now = M * week + r
    BY <1>3, <1>4, <1>5, <2>1
  <2> HIDE DEF M, r
  <2>3. now % M = r
    BY <2>2, RemainderUnique
  <2> QED BY <2>3 DEF M, r
<1> QED BY <1>2, <1>3, <1>7 DEF D, N, Weekdays

(* At every moment of every run, an app is refused for a window exactly    *)
(* when one covers that moment.                                            *)
THEOREM WindowsExact == Spec => []BlockedExact
<1> DEFINE Clock == now \in Nat /\ windows \in Calendars
<1>1. Init => Clock
  BY DEF Init
<1>2. Clock /\ [Next]_vars => Clock'
  <2> SUFFICES ASSUME Clock, [Next]_vars PROVE Clock'
    OBVIOUS
  <2>1. ASSUME NEW p \in Pids, NEW app \in Apps, Launch(p, app) PROVE Clock'
    BY <2>1 DEF Launch, config
  <2>2. ASSUME NEW p \in Pids, Quit(p) \/ Poll(p) PROVE Clock'
    BY <2>2 DEF Quit, Poll, Stops, config
  <2>3. CASE Tick
    BY <2>3 DEF Tick, config
  <2>4. CASE Restart
    BY <2>4 DEF Restart, config
  <2>5. CASE Advance
    BY <2>5 DEF Advance, config
  <2>6. CASE UNCHANGED vars
    BY <2>6 DEF vars, config
  <2> QED BY <2>1, <2>2, <2>3, <2>4, <2>5, <2>6 DEF Next
<1>3. Clock => BlockedExact
  BY TickOfWeek, InBlockedWindowCorrect, CutoffsAssumption DEF BlockedExact
<1> QED BY <1>1, <1>2, <1>3, PTL DEF Spec

-----------------------------------------------------------------------------
(* What sessions have run by t: each, and those of some apps that began    *)
(* since.                                                                  *)
Lasting(run, ses, t) == [p \in run |-> t - ses[p].start]

BegunBy(run, ses, A, since) == {p \in run : ses[p].app \in A /\ ses[p].start >= since}

Live(run, ses, t, A, since) ==
  SumFunctionOnSet(Lasting(run, ses, t), BegunBy(run, ses, A, since))

Share(s, t, A, since) == IF s.app \in A /\ s.start >= since THEN t - s.start ELSE 0

(* The sum is one of finitely many integers. *)
LEMMA LiveTyped ==
  ASSUME NEW run, IsFiniteSet(run), NEW ses, \A p \in run : ses[p].start \in Int,
         NEW t \in Int, NEW A, NEW since
  PROVE  /\ BegunBy(run, ses, A, since) \subseteq run
         /\ IsFiniteSet(BegunBy(run, ses, A, since))
         /\ \A p \in run : /\ Lasting(run, ses, t)[p] = t - ses[p].start
                           /\ Lasting(run, ses, t)[p] \in Int
         /\ Live(run, ses, t, A, since) \in Int
<1>1. BegunBy(run, ses, A, since) \subseteq run
  BY DEF BegunBy
<1>2. IsFiniteSet(BegunBy(run, ses, A, since))
  BY <1>1, FS_Subset
<1>3. \A p \in run : /\ Lasting(run, ses, t)[p] = t - ses[p].start
                     /\ Lasting(run, ses, t)[p] \in Int
  BY DEF Lasting
<1>4. \A p \in BegunBy(run, ses, A, since) : Lasting(run, ses, t)[p] \in Int
  BY <1>1, <1>3
<1> QED BY <1>1, <1>2, <1>3, <1>4, SumInt DEF Live

(* It depends on the apps and the starts of the sessions alone. *)
LEMMA LiveSame ==
  ASSUME NEW run, NEW ses, NEW ses2, NEW t, NEW A, NEW since,
         \A p \in run : ses2[p].app = ses[p].app /\ ses2[p].start = ses[p].start
  PROVE  /\ Live(run, ses2, t, A, since) = Live(run, ses, t, A, since)
         /\ BegunBy(run, ses2, A, since) = BegunBy(run, ses, A, since)
<1>1. BegunBy(run, ses2, A, since) = BegunBy(run, ses, A, since)
  BY DEF BegunBy
<1>2. Lasting(run, ses2, t) = Lasting(run, ses, t)
  BY DEF Lasting
<1> QED BY <1>1, <1>2 DEF Live

(* A session that ends takes what it has run with it. *)
LEMMA LiveLess ==
  ASSUME NEW run, IsFiniteSet(run), NEW ses, \A p \in run : ses[p].start \in Int,
         NEW t \in Int, NEW A, NEW since, NEW e \in run,
         NEW ses2, \A p \in run \ {e} : ses2[p] = ses[p]
  PROVE  Live(run, ses, t, A, since)
           = Live(run \ {e}, ses2, t, A, since) + Share(ses[e], t, A, since)
<1> DEFINE b == run \ {e}
           S == BegunBy(b, ses2, A, since)
           f == Lasting(run, ses, t)
           g == Lasting(b, ses2, t)
<1>1. IsFiniteSet(b) /\ (\A p \in b : ses2[p].start \in Int) /\ b \subseteq run /\ e \notin b
  BY FS_Subset
<1>2. /\ S \subseteq b /\ IsFiniteSet(S) /\ Live(b, ses2, t, A, since) \in Int
      /\ \A p \in b : g[p] = t - ses2[p].start /\ g[p] \in Int
  <2> HIDE DEF b
  <2> QED BY <1>1, LiveTyped
<1>3. \A p \in run : f[p] = t - ses[p].start /\ f[p] \in Int
  BY LiveTyped
<1>4. BegunBy(run, ses, A, since)
        = IF ses[e].app \in A /\ ses[e].start >= since THEN S \cup {e} ELSE S
  BY DEF BegunBy
<1>5. \A p \in b : ses2[p] = ses[p]
  OBVIOUS
<1> HIDE DEF b, S, f, g
<1>6. \A p \in S : g[p] \in Int /\ f[p] = g[p]
  BY <1>1, <1>2, <1>3, <1>5
<1>7. SumFunctionOnSet(f, S) = SumFunctionOnSet(g, S)
  BY <1>2, <1>6, SumEqual
<1>8. SumFunctionOnSet(f, S \cup {e}) = f[e] + SumFunctionOnSet(f, S)
  BY <1>1, <1>2, <1>3, <1>6, SumAdd
<1>9. Live(b, ses2, t, A, since) = SumFunctionOnSet(f, S)
  BY <1>7 DEF Live, S, g
<1>10. Live(run, ses, t, A, since) = SumFunctionOnSet(f, BegunBy(run, ses, A, since))
  BY DEF Live, f
<1>11. f[e] = t - ses[e].start /\ f[e] \in Int
  BY <1>3
<1>12. CASE ses[e].app \in A /\ ses[e].start >= since
  BY <1>2, <1>4, <1>8, <1>9, <1>10, <1>11, <1>12 DEF b, Share
<1>13. CASE ~(ses[e].app \in A /\ ses[e].start >= since)
  BY <1>2, <1>4, <1>9, <1>10, <1>13 DEF b, Share
<1> QED BY <1>12, <1>13

(* One that begins has run for nothing yet. *)
LEMMA LiveMore ==
  ASSUME NEW run, IsFiniteSet(run), NEW ses, NEW ses2,
         NEW t \in Int, NEW A, NEW since, NEW e, e \notin run,
         \A p \in run : ses[p].start \in Int /\ ses2[p] = ses[p], ses2[e].start = t
  PROVE  Live(run \cup {e}, ses2, t, A, since) = Live(run, ses, t, A, since)
<1> DEFINE b == run \cup {e}
<1>1. IsFiniteSet(b) /\ (\A p \in b : ses2[p].start \in Int) /\ e \in b /\ b \ {e} = run
  BY FS_AddElement
<1>2. Live(run, ses, t, A, since) \in Int
  BY LiveTyped
<1>3. \A p \in b \ {e} : ses[p] = ses2[p]
  OBVIOUS
<1> HIDE DEF b
<1>4. Live(b, ses2, t, A, since)
        = Live(b \ {e}, ses, t, A, since) + Share(ses2[e], t, A, since)
  BY <1>1, <1>3, LiveLess
<1>5. Share(ses2[e], t, A, since) = 0
  <2>1. t - ses2[e].start = 0
    OBVIOUS
  <2> QED BY <2>1 DEF Share
<1>6. Live(b, ses2, t, A, since) = Live(run, ses, t, A, since)
  <2>1. Live(b \ {e}, ses, t, A, since) = Live(run, ses, t, A, since)
    BY <1>1, Zenon
  <2> QED BY <1>2, <1>4, <1>5, <2>1
<1> QED BY <1>6 DEF b

(* A tick adds one to each. *)
LEMMA LiveTick ==
  ASSUME NEW run, IsFiniteSet(run), NEW ses, \A p \in run : ses[p].start \in Int,
         NEW t \in Int, NEW A, NEW since
  PROVE  Live(run, ses, t + 1, A, since)
           = Live(run, ses, t, A, since) + Cardinality(BegunBy(run, ses, A, since))
<1> DEFINE S == BegunBy(run, ses, A, since)
           f == Lasting(run, ses, t + 1)
           g == Lasting(run, ses, t)
<1>1. IsFiniteSet(S) /\ S \subseteq run
  BY LiveTyped
<1>2. \A p \in run : g[p] = t - ses[p].start /\ g[p] \in Int
  BY LiveTyped
<1>3. \A p \in run : f[p] = t + 1 - ses[p].start
  BY DEF Lasting
<1>4. \A p \in S : g[p] \in Int /\ f[p] = g[p] + 1
  BY <1>1, <1>2, <1>3
<1> HIDE DEF S, f, g
<1>5. SumFunctionOnSet(f, S) = SumFunctionOnSet(g, S) + 1 * Cardinality(S)
  BY <1>1, <1>4, SumPlus
<1>6. Cardinality(S) \in Nat
  BY <1>1, FS_CardinalityType
<1> QED BY <1>5, <1>6 DEF Live, S, f, g

(* What is booked for an app counts in the sums that ask for it. *)
Gain(app, d, A) == IF app \in A THEN d ELSE 0

(* Booking minutes for one app adds them to the day's sum. *)
LEMMA BookedAdds ==
  ASSUME NEW f \in [Apps -> Int], NEW app \in Apps, NEW d \in Int, NEW A \in SUBSET Apps
  PROVE  SumFunctionOnSet([f EXCEPT ![app] = @ + d], A)
           = SumFunctionOnSet(f, A) + Gain(app, d, A)
<1> DEFINE g == [f EXCEPT ![app] = @ + d]
           B == A \ {app}
<1>1. IsFiniteSet(A) /\ IsFiniteSet(B) /\ B \subseteq A
  BY CutoffsAssumption, FS_Subset
<1>2. g \in [Apps -> Int] /\ g[app] = f[app] + d /\ \A x \in B : g[x] = f[x]
  OBVIOUS
<1>3. \A x \in A : f[x] \in Int /\ g[x] \in Int
  BY <1>2
<1>4. app \in A => B \cup {app} = A
  OBVIOUS
<1>5. app \notin A => B = A
  OBVIOUS
<1>6. app \notin B
  OBVIOUS
<1> HIDE DEF g, B
<1>7. SumFunctionOnSet(g, B) = SumFunctionOnSet(f, B)
  BY <1>1, <1>2, <1>3, SumEqual
<1>8. SumFunctionOnSet(f, A) \in Int
  BY <1>1, <1>3, SumInt
<1>9. CASE app \in A
  <2>1. SumFunctionOnSet(g, B \cup {app}) = g[app] + SumFunctionOnSet(g, B)
    BY <1>1, <1>2, <1>3, <1>6, SumAdd
  <2>2. SumFunctionOnSet(f, B \cup {app}) = f[app] + SumFunctionOnSet(f, B)
    BY <1>1, <1>3, <1>6, SumAdd
  <2>3. SumFunctionOnSet(f, B) \in Int /\ f[app] \in Int
    BY <1>1, <1>3, SumInt
  <2> QED BY <1>2, <1>4, <1>7, <1>9, <2>1, <2>2, <2>3 DEF Gain, g
<1>10. CASE app \notin A
  BY <1>5, <1>7, <1>8, <1>10 DEF Gain, g
<1> QED BY <1>9, <1>10

-----------------------------------------------------------------------------
(* The next tick is the next of this day, or the first of the next.        *)
LEMMA NextTick ==
  ASSUME NEW n \in Nat, NEW D \in Nat, D > 0
  PROVE  /\ (n + 1) % D = 0 => /\ (n + 1) \div D = n \div D + 1 /\ n % D = D - 1
                               /\ n + 1 = D * (n \div D + 1)
         /\ (n + 1) % D # 0 => (n + 1) \div D = n \div D /\ (n + 1) % D = (n % D) + 1
<1> DEFINE q == n \div D
           r == n % D
           Q == (n + 1) \div D
           R == (n + 1) % D
<1>1. q \in Nat /\ r \in 0..(D - 1) /\ n = D * q + r
  BY Divides
<1>2. n + 1 \in Nat
  OBVIOUS
<1>3. Q \in Nat /\ R \in 0..(D - 1) /\ n + 1 = D * Q + R
  BY <1>2, Divides
<1> HIDE DEF q, r, Q
<1>4. ASSUME NEW a \in Nat, NEW b \in Nat, D * a = D * b PROVE a = b
  <2>1. a < b => a * D + D <= b * D
    BY DaysApart
  <2>2. b < a => b * D + D <= a * D
    BY DaysApart
  <2>3. a * D = D * a /\ b * D = D * b /\ a * D \in Nat /\ b * D \in Nat
    OBVIOUS
  <2> QED BY <1>4, <2>1, <2>2, <2>3
<1>5. CASE r + 1 < D
  <2>1. n + 1 = D * q + (r + 1)
    BY <1>1
  <2>2. (D * q + (r + 1)) % D = r + 1
    BY <1>1, <1>5, RemainderUnique
  <2>3. R = r + 1
    BY <2>1, <2>2
  <2> HIDE DEF R
  <2>4. D * Q = D * q
    BY <1>1, <1>3, <2>1, <2>3
  <2>5. Q = q
    BY <1>1, <1>3, <1>4, <2>4
  <2> QED BY <1>1, <2>3, <2>5 DEF q, r, Q, R
<1>6. CASE r + 1 = D
  <2>1. n + 1 = D * (q + 1) + 0
    BY <1>1, <1>6
  <2>2. (D * (q + 1) + 0) % D = 0
    <3>1. q + 1 \in Int
      BY <1>1
    <3> QED BY <3>1, RemainderUnique
  <2>3. R = 0
    BY <2>1, <2>2
  <2> HIDE DEF R
  <2>4. D * Q = D * (q + 1)
    BY <1>1, <1>3, <2>1, <2>3
  <2>5. Q = q + 1
    BY <1>1, <1>3, <1>4, <2>4
  <2> QED BY <1>1, <1>6, <2>1, <2>3, <2>5 DEF q, r, Q, R
<1> QED BY <1>1, <1>5, <1>6

(* The tick at which today began. *)
Today == Date * DayTicks

(* The clock shows a day, a weekday and a time of that day. *)
LEMMA Clock ==
  ASSUME now \in Nat
  PROVE  /\ DayTicks \in Nat /\ DayTicks > 0
         /\ Date \in Nat /\ Weekday \in Weekdays /\ Time \in 0..(DayTicks - 1)
         /\ Today \in Nat /\ now = Today + Time
<1>1. DayTicks \in Nat /\ DayTicks > 0
  BY CalendarAssumption DEF DayTicks
<1>2. Date \in Nat /\ Time \in 0..(DayTicks - 1) /\ now = DayTicks * Date + Time
  BY <1>1, Divides DEF Date, Time
<1>3. Weekday \in Weekdays
  BY TickOfWeek
<1>4. Today \in Nat /\ DayTicks * Date = Today
  BY <1>1, <1>2 DEF Today
<1> QED BY <1>1, <1>2, <1>3, <1>4

(* A day's last tick is followed by the next weekday's first.              *)
LEMMA ClockAdvances ==
  ASSUME now \in Nat, now' = now + 1
  PROVE  /\ now' % DayTicks = 0 =>
              /\ Time = DayTicks - 1 /\ Time' = 0 /\ Today' = now'
              /\ Weekday = Pred(Weekday')
         /\ now' % DayTicks # 0 =>
              /\ Date' = Date /\ Weekday' = Weekday /\ Today' = Today
              /\ Time' = Time + 1
<1>1. DayTicks \in Nat /\ DayTicks > 0 /\ Date \in Nat /\ Weekday \in Weekdays
  BY Clock
<1>2. Weeklong \in Nat /\ Weeklong > 1
  BY CalendarAssumption
<1>3. CASE now' % DayTicks = 0
  <2>0. /\ (Date + 1) % Weeklong = 0 => Date % Weeklong = Weeklong - 1
        /\ (Date + 1) % Weeklong # 0 => (Date + 1) % Weeklong = (Date % Weeklong) + 1
    <3>1. Weeklong > 0
      BY <1>2
    <3> QED BY <1>1, <1>2, <3>1, NextTick, Zenon
  <2>1. Date' = Date + 1 /\ Time = DayTicks - 1 /\ Time' = 0
    BY <1>1, <1>3, NextTick DEF Date, Time
  <2>2. now' = DayTicks * Date'
    BY <1>1, <1>3, <2>1, NextTick DEF Date
  <2>3. Today' = now'
    BY <1>1, <2>1, <2>2 DEF Today
  <2>4. Weekday = Pred(Weekday')
    <3>1. CASE (Date + 1) % Weeklong = 0
      <4>1. Date % Weeklong = Weeklong - 1
        BY <2>0, <3>1
      <4> QED BY <2>1, <3>1, <4>1 DEF Weekday, Pred
    <3>2. CASE (Date + 1) % Weeklong # 0
      <4>1. (Date + 1) % Weeklong = (Date % Weeklong) + 1 /\ Date % Weeklong \in Nat
        BY <1>1, <1>2, <2>0, <3>2 DEF Weekday, Weekdays
      <4> QED BY <2>1, <3>2, <4>1 DEF Weekday, Pred
    <3> QED BY <3>1, <3>2
  <2> QED BY <1>3, <2>1, <2>3, <2>4
<1>4. CASE now' % DayTicks # 0
  <2>1. Date' = Date /\ Time' = Time + 1
    BY <1>1, <1>4, NextTick DEF Date, Time
  <2> QED BY <1>4, <2>1 DEF Today, Weekday
<1> QED BY <1>3, <1>4

-----------------------------------------------------------------------------
(* Sets of integers that are bounded below have a least element. *)
LEMMA LeastInt ==
  ASSUME NEW S \in SUBSET Int, S # {}, NEW k \in Nat, \A x \in S : 0 <= x + k
  PROVE  \E m \in S : \A y \in S : m <= y
<1> DEFINE T == {n \in Nat : n - k \in S}
           R == OpToRel(<, Nat)
<1>1. \A x \in S : x + k \in T
  <2> SUFFICES ASSUME NEW x \in S PROVE x + k \in T
    OBVIOUS
  <2>1. x + k \in Nat /\ (x + k) - k = x
    OBVIOUS
  <2> QED BY <2>1
<1>2. T # {} /\ T \subseteq Nat
  BY <1>1
<1>3. PICK n \in T : \A j \in T : ~(<<j, n>> \in R)
  <2>1. IsWellFoundedOn(R, Nat)
    BY NatLessThanWellFounded, Zenon DEF R
  <2> HIDE DEF R, T
  <2> QED BY <1>2, <2>1, WFMin
<1>4. \A j \in T : ~(j < n)
  <2>1. ASSUME NEW j \in T, j < n PROVE <<j, n>> \in R
    BY <2>1, Zenon DEF OpToRel
  <2> QED BY <1>3, <2>1
<1>5. n \in Nat /\ n - k \in S
  OBVIOUS
<1> HIDE DEF T, R
<1>6. \A y \in S : n - k <= y
  <2> SUFFICES ASSUME NEW y \in S PROVE n - k <= y
    OBVIOUS
  <2>1. y + k \in T /\ y + k \in Int
    BY <1>1
  <2> QED BY <1>4, <1>5, <2>1
<1> QED BY <1>5, <1>6

Began == \A p \in running : session[p].start <= now

(* The sessions are finitely many. *)
LEMMA SessionsTyped ==
  TypeOK =>
    /\ IsFiniteSet(running) /\ Cardinality(running) <= Cardinality(Pids)
    /\ \A p \in running : /\ session[p] \in Session
                          /\ session[p].app \in Apps
                          /\ session[p].start \in Nat
<1>1. TypeOK => running \subseteq Pids /\ \A p \in running : session[p] \in Session
  BY DEF TypeOK
<1>2. TypeOK => IsFiniteSet(running) /\ Cardinality(running) <= Cardinality(Pids)
  BY <1>1, FS_Subset, CutoffsAssumption
<1> QED BY <1>1, <1>2 DEF Session

(* A limit of today is a number of minutes, where there is one. *)
LEMMA LimitsTyped ==
  ASSUME TypeOK
  PROVE  /\ daily[Weekday] \in SUBSET Nat
         /\ \A app \in Apps : AppLimit[app][Weekday] \in SUBSET Nat
         /\ windows \in [Weekdays -> SUBSET Window]
<1>1. Weekday \in Weekdays
  BY TickOfWeek DEF TypeOK
<1> QED BY <1>1, CutoffsAssumption DEF TypeOK

(* The minutes used are a number of minutes. *)
LEMMA UsedNat ==
  ASSUME TypeOK, Began, NEW A \in SUBSET Apps
  PROVE  UsedMinutes(A) \in Nat
<1> DEFINE f == [p \in running |-> now - session[p].start]
           S == {p \in running : /\ session[p].known
                                 /\ session[p].app \in A
                                 /\ session[p].start >= Midnight}
           completed == IF Midnight = now THEN 0 ELSE SumFunctionOnSet(booked, A)
           live == SumFunctionOnSet(f, S)
<1>1. IsFiniteSet(A) /\ IsFiniteSet(S)
  BY SessionsTyped, FS_Subset, CutoffsAssumption
<1>2. completed \in Nat
  <2>1. \A app \in A : booked[app] \in Nat
    BY DEF TypeOK
  <2> QED BY <1>1, <2>1, SumNat
<1>3. \A p \in S : f[p] \in Nat
  BY SessionsTyped DEF Began, TypeOK
<1> HIDE DEF f, S
<1>4. live \in Nat
  BY <1>1, <1>3, SumNat
<1> HIDE DEF completed, live
<1>5. PerMinute \in Nat /\ PerMinute > 0
  BY CalendarAssumption
<1>6. (completed + live) \div PerMinute \in Nat
  <2>1. completed + live \in Nat
    BY <1>2, <1>4
  <2> QED BY <1>5, <2>1, Divides
<1>7. UsedMinutes(A) = (completed + live) \div PerMinute
  BY DEF UsedMinutes, completed, live, f, S
<1> QED BY <1>6, <1>7

(* What a session has left has a least value, if any. *)
LEMMA LeftLeast ==
  ASSUME TypeOK, Began, NEW app \in Apps
  PROVE  /\ Left(app) \in SUBSET Int
         /\ Left(app) # {} =>
              /\ Min(Left(app)) \in Left(app)
              /\ \A y \in Left(app) : Min(Left(app)) <= y
<1> DEFINE all == UsedMinutes(Apps)
           own == UsedMinutes({app})
<1>1. all \in Nat /\ own \in Nat
  BY UsedNat
<1> HIDE DEF all, own
<1>2. \A b \in Limits(app) : b[1] \in Nat /\ b[2] \in {all, own}
  <2> SUFFICES ASSUME NEW b \in Limits(app) PROVE b[1] \in Nat /\ b[2] \in {all, own}
    OBVIOUS
  <2>1. CASE \E limit \in daily[Weekday] : b = <<limit, UsedMinutes(Apps)>>
    BY <2>1, LimitsTyped DEF all
  <2>2. CASE \E limit \in AppLimit[app][Weekday] : b = <<limit, UsedMinutes({app})>>
    BY <2>2, LimitsTyped DEF own
  <2> QED BY <2>1, <2>2 DEF Limits
<1>3. \A x \in MinutesUntilWindowStarts(windows, Weekday, Time) : x \in Nat
  <2> SUFFICES ASSUME NEW v \in windows[Weekday], StartOf(v) > Time
               PROVE  (StartOf(v) - Time) \div PerMinute \in Nat
    BY DEF MinutesUntilWindowStarts
  <2>1. v \in Window /\ Time \in Nat
    BY TickOfWeek, LimitsTyped DEF TypeOK
  <2>2. StartOf(v) - Time \in Nat
    BY <2>1, WindowTimes
  <2> QED BY <2>2, Divides, CalendarAssumption
<1>4. \A x \in Left(app) : x \in Int /\ 0 <= x + (all + own)
  <2> SUFFICES ASSUME NEW x \in Left(app) PROVE x \in Int /\ 0 <= x + (all + own)
    OBVIOUS
  <2>1. CASE x \in MinutesUntilWindowStarts(windows, Weekday, Time)
    BY <1>1, <1>3, <2>1
  <2>2. ASSUME NEW b \in Limits(app), x = b[1] - b[2] PROVE x \in Int /\ 0 <= x + (all + own)
    BY <1>1, <1>2, <2>2
  <2> QED BY <2>1, <2>2 DEF Left
<1>5. Left(app) \in SUBSET Int
  BY <1>4
<1>6. ASSUME Left(app) # {}
      PROVE  Min(Left(app)) \in Left(app) /\ \A y \in Left(app) : Min(Left(app)) <= y
  <2> DEFINE S == Left(app)
  <2>1. S \in SUBSET Int /\ S # {} /\ all + own \in Nat /\ \A x \in S : 0 <= x + (all + own)
    BY <1>1, <1>4, <1>6
  <2> HIDE DEF S
  <2>2. \E m \in S : \A y \in S : m <= y
    BY <2>1, LeastInt
  <2>3. Min(S) \in S /\ \A y \in S : Min(S) <= y
    BY <2>2 DEF Min
  <2> QED BY <2>3 DEF S
<1> QED BY <1>5, <1>6

(* A warning gives a number of minutes. *)
LEMMA WarningNat ==
  ASSUME TypeOK, Began, NEW p \in running
  PROVE  Warning(p) \subseteq Nat
<1>1. session[p].app \in Apps
  BY SessionsTyped
<1>2. Left(session[p].app) # {} => Min(Left(session[p].app)) \in Int
  BY <1>1, LeftLeast
<1> QED BY <1>2 DEF Warning

-----------------------------------------------------------------------------
(* What the sessions begun today of some apps have taken, in ticks: those  *)
(* that ended, and those that run.                                         *)
Took(A) == SumFunctionOnSet(booked, A) + Live(running, session, now, A, Today)

(* Took(Apps) is what they ran, agentd knows the ones that still do if it  *)
(* was not restarted, and nothing has been taken at midnight.              *)
Ledger ==
  /\ TypeOK
  /\ Began
  /\ steady => \A p \in running : session[p].start >= Today => session[p].known
  /\ now = Today => \A app \in Apps : booked[app] = 0
  /\ Took(Apps) = ran

(* What sessions took is a number of ticks. *)
LEMMA TookTyped ==
  ASSUME TypeOK, NEW A \in SUBSET Apps
  PROVE  /\ SumFunctionOnSet(booked, A) \in Nat
         /\ Live(running, session, now, A, Today) \in Int
         /\ Took(A) \in Int
<1>1. IsFiniteSet(A) /\ \A app \in A : booked[app] \in Nat
  BY FS_Subset, CutoffsAssumption DEF TypeOK
<1>2. SumFunctionOnSet(booked, A) \in Nat
  BY <1>1, SumNat
<1>3. now \in Int /\ IsFiniteSet(running) /\ \A p \in running : session[p].start \in Int
  BY SessionsTyped DEF TypeOK
<1>4. Live(running, session, now, A, Today) \in Int
  BY <1>3, LiveTyped
<1> QED BY <1>2, <1>4 DEF Took

-----------------------------------------------------------------------------
(* The steps, as what they do to the variables. *)
LEMMA SameDay == now' = now => Date' = Date /\ Weekday' = Weekday /\ Time' = Time /\ Today' = Today
BY DEF Date, Weekday, Time, Today

(* Every other step than a launch, a stop and the clock's leaves alone     *)
(* what the sums are made of; only Tick warns, and who has polled passed.  *)
Still ==
  /\ now' = now /\ running' = running /\ booked' = booked /\ ran' = ran
  /\ session' \in [running -> Session]
  /\ \A p \in running : /\ session'[p].app = session[p].app
                        /\ session'[p].start = session[p].start
                        /\ steady' => session'[p].known = session[p].known
  /\ steady' => steady
  /\ steady' \in BOOLEAN
  /\ config' = config
  /\ ticked' \in BOOLEAN
  /\ polled' \in SUBSET running
  /\ \A p \in polled' : p \in polled \/ CheckAllowed(session[p].app)
  /\ \/ Tick
     \/ /\ ticked' = ticked
        /\ \A p \in running : /\ session'[p].warned = session[p].warned
                              /\ session'[p].until = session[p].until
                              /\ session'[p].alone = session[p].alone

(* The ticker neither starts nor ends a session. *)
LEMMA TickIsStill ==
  ASSUME TypeOK, Began, Tick
  PROVE  Still
<1>1. ASSUME NEW p \in running
      PROVE  /\ session'[p] \in Session
             /\ session'[p].app = session[p].app
             /\ session'[p].start = session[p].start
             /\ session'[p].known = session[p].known
  <2>1. session[p] \in Session
    BY SessionsTyped
  <2>2. CASE session[p].known /\ ~session[p].warned /\ Warning(p) # {}
    <3> DEFINE m == CHOOSE m \in Warning(p) : TRUE
               allowed == CheckAllowed(session[p].app)
    <3>1. session'[p] = [session[p] EXCEPT !.warned = TRUE, !.until = now + PerMinute * m,
                                           !.alone = allowed]
      BY <2>2 DEF Tick
    <3>2. m \in Nat
      BY <2>2, WarningNat
    <3>3. allowed \in BOOLEAN
      BY DEF CheckAllowed
    <3> HIDE DEF m, allowed
    <3>4. now + PerMinute * m \in Nat
      BY <3>2, CalendarAssumption DEF TypeOK
    <3> QED BY <2>1, <3>1, <3>3, <3>4 DEF Session
  <2>3. CASE ~(session[p].known /\ ~session[p].warned /\ Warning(p) # {})
    BY <2>1, <2>3 DEF Tick
  <2> QED BY <2>2, <2>3
<1>2. DOMAIN session' = running /\ session' = [p \in running |-> session'[p]]
  BY DEF Tick
<1>3. session' \in [running -> Session]
  BY <1>1, <1>2
<1> QED BY <1>1, <1>3 DEF Tick, Still, TypeOK, history

(* Neither does a restart. *)
LEMMA RestartIsStill ==
  ASSUME TypeOK, Restart
  PROVE  Still
<1>1. ASSUME NEW p \in running
      PROVE  /\ session'[p] \in Session
             /\ session'[p].app = session[p].app
             /\ session'[p].start = session[p].start
             /\ session'[p].warned = session[p].warned
             /\ session'[p].until = session[p].until
             /\ session'[p].alone = session[p].alone
  <2>1. session[p] \in Session
    BY SessionsTyped
  <2>2. session'[p] = [session[p] EXCEPT !.known = FALSE]
    BY DEF Restart
  <2> QED BY <2>1, <2>2 DEF Session
<1>2. session' = [p \in running |-> session'[p]]
  BY DEF Restart
<1>3. session' \in [running -> Session]
  BY <1>1, <1>2
<1> QED BY <1>1, <1>3 DEF Restart, Still, TypeOK, history

(* A step passes time, or begins, ends or keeps the sessions. *)
LEMMA StepCases ==
  ASSUME TypeOK, Began, [Next]_vars
  PROVE  \/ \E p \in Pids, app \in Apps : Launch(p, app)
         \/ \E p \in running : Stops(p)
         \/ Still
         \/ Advance
<1>1. ASSUME NEW p \in Pids, Poll(p) PROVE (p \in running /\ Stops(p)) \/ Still
  <2>1. CASE CheckAllowed(session[p].app)
    BY <1>1, <2>1 DEF Poll, Still, TypeOK, history
  <2>2. CASE ~CheckAllowed(session[p].app)
    BY <1>1, <2>2 DEF Poll
  <2> QED BY <2>1, <2>2
<1>2. ASSUME NEW p \in Pids, Quit(p) PROVE Stops(p) /\ p \in running
  BY <1>2 DEF Quit
<1>3. CASE UNCHANGED vars
  BY <1>3 DEF vars, config, history, Still, TypeOK
<1> QED BY <1>1, <1>2, <1>3, TickIsStill, RestartIsStill DEF Next

-----------------------------------------------------------------------------
(* A launch counts for nothing yet, a stop books what has run. *)
LEMMA LaunchTook ==
  ASSUME TypeOK, NEW p \in Pids, NEW app \in Apps, Launch(p, app), NEW A \in SUBSET Apps
  PROVE  Took(A)' = Took(A)
<1>1. /\ p \notin running /\ running' = running \cup {p} /\ booked' = booked /\ now' = now
      /\ \A q \in running : session'[q] = session[q]
      /\ session'[p].start = now
  BY DEF Launch, TypeOK
<1>2. now \in Int /\ IsFiniteSet(running) /\ \A q \in running : session[q].start \in Int
  BY SessionsTyped DEF TypeOK
<1>3. Live(running \cup {p}, session', now, A, Today) = Live(running, session, now, A, Today)
  BY <1>1, <1>2, LiveMore
<1>4. Today' = Today
  BY <1>1, SameDay
<1> QED BY <1>1, <1>3, <1>4 DEF Took

(* An ended session keeps what it has taken. *)
LEMMA StopTook ==
  ASSUME TypeOK, NEW p \in running, Stops(p), NEW A \in SUBSET Apps
  PROVE  Took(A)' = Took(A)
<1> DEFINE app == session[p].app
           d == IF session[p].start >= Today THEN now - session[p].start ELSE 0
<1>1. /\ running' = running \ {p} /\ now' = now
      /\ booked' = [booked EXCEPT ![app] = @ + d]
      /\ \A q \in running \ {p} : session'[q] = session[q]
  BY DEF Stops, Today
<1>2. now \in Int /\ IsFiniteSet(running) /\ \A q \in running : session[q].start \in Int
  BY SessionsTyped DEF TypeOK
<1>3. app \in Apps /\ booked \in [Apps -> Int] /\ d \in Int
  BY <1>2, SessionsTyped DEF TypeOK
<1>4. Today' = Today
  BY <1>1, SameDay
<1>5. Gain(app, d, A) = Share(session[p], now, A, Today)
  BY DEF Gain, Share
<1> HIDE DEF app, d
<1>6. SumFunctionOnSet(booked', A) = SumFunctionOnSet(booked, A) + Gain(app, d, A)
  BY <1>1, <1>3, BookedAdds
<1>7. Live(running, session, now, A, Today)
        = Live(running \ {p}, session', now, A, Today) + Share(session[p], now, A, Today)
  BY <1>1, <1>2, LiveLess
<1>8. Live(running \ {p}, session', now, A, Today) \in Int
  <2>1. IsFiniteSet(running \ {p}) /\ \A q \in running \ {p} : session'[q].start \in Int
    BY <1>1, <1>2, FS_Subset
  <2> QED BY <1>2, <2>1, LiveTyped
<1>9. SumFunctionOnSet(booked, A) \in Int /\ Gain(app, d, A) \in Int
  BY <1>3, TookTyped DEF Gain
<1> QED BY <1>1, <1>4, <1>5, <1>6, <1>7, <1>8, <1>9 DEF Took

(* What keeps the sessions keeps what they took. *)
LEMMA StillTook ==
  ASSUME Still, NEW A
  PROVE  Took(A)' = Took(A)
<1>1. Live(running, session', now, A, Today) = Live(running, session, now, A, Today)
  BY LiveSame DEF Still
<1>2. Today' = Today
  BY SameDay DEF Still
<1> QED BY <1>1, <1>2 DEF Still, Took

(* A tick of the same day adds one for each session that began today; at   *)
(* midnight nothing counts any more.                                       *)
LEMMA AdvanceTook ==
  ASSUME TypeOK, Began, Advance, NEW A \in SUBSET Apps
  PROVE  /\ now' % DayTicks # 0 =>
              Took(A)' = Took(A) + Cardinality(BegunBy(running, session, A, Today))
         /\ now' % DayTicks = 0 => Took(A)' = 0
<1>1. /\ now' = now + 1 /\ running' = running
      /\ \A p \in running : session'[p].app = session[p].app
                            /\ session'[p].start = session[p].start
  <2>1. ASSUME NEW p \in running
        PROVE  session'[p].app = session[p].app /\ session'[p].start = session[p].start
    <3>1. session[p] \in Session
      BY SessionsTyped
    <3>2. session'[p] = [session[p] EXCEPT !.alone =
             @ /\ (session[p].warned => running = {p} /\ now' % DayTicks # 0)]
      BY DEF Advance
    <3> QED BY <3>1, <3>2 DEF Session
  <2> QED BY <2>1 DEF Advance
<1>2. now \in Nat /\ IsFiniteSet(running) /\ \A p \in running : session[p].start \in Int
  BY SessionsTyped DEF TypeOK
<1>3. \A since : /\ Live(running, session', now + 1, A, since) = Live(running, session, now + 1, A, since)
                 /\ BegunBy(running, session', A, since) = BegunBy(running, session, A, since)
  BY <1>1, LiveSame
<1>4. CASE now' % DayTicks # 0
  <2>1. booked' = booked /\ Today' = Today
    BY <1>1, <1>2, <1>4, ClockAdvances DEF Advance
  <2>2. Live(running, session, now + 1, A, Today)
          = Live(running, session, now, A, Today) + Cardinality(BegunBy(running, session, A, Today))
    BY <1>2, LiveTick
  <2>3. SumFunctionOnSet(booked, A) \in Int /\ Live(running, session, now, A, Today) \in Int
    BY TookTyped
  <2>4. Cardinality(BegunBy(running, session, A, Today)) \in Nat
    <3>1. now \in Int
      BY <1>2
    <3>2. IsFiniteSet(BegunBy(running, session, A, Today))
      BY <1>2, <3>1, LiveTyped
    <3> QED BY <3>2, FS_CardinalityType
  <2>5. Took(A)' = SumFunctionOnSet(booked, A) + Live(running, session, now + 1, A, Today)
    <3>1. Took(A)' = SumFunctionOnSet(booked, A) + Live(running, session', now + 1, A, Today)
      BY <1>1, <2>1 DEF Took
    <3>2. Live(running, session', now + 1, A, Today) = Live(running, session, now + 1, A, Today)
      BY <1>3
    <3> QED BY <3>1, <3>2
  <2> QED BY <1>4, <2>2, <2>3, <2>4, <2>5 DEF Took
<1>5. CASE now' % DayTicks = 0
  <2>1. booked' = [app \in Apps |-> 0] /\ Today' = now'
    BY <1>1, <1>2, <1>5, ClockAdvances DEF Advance
  <2>2. IsFiniteSet(A) /\ \A app \in A : booked'[app] = 0
    BY <2>1, FS_Subset, CutoffsAssumption
  <2>3. SumFunctionOnSet(booked', A) = 0
    BY <2>2, SumZero
  <2>4. BegunBy(running, session', A, now + 1) = {}
    BY <1>1, <1>2 DEF BegunBy, Began
  <2>5. Live(running, session', now + 1, A, now + 1) = 0
    BY <2>4, SumEmpty DEF Live
  <2> QED BY <1>1, <1>5, <2>1, <2>3, <2>5 DEF Took
<1> QED BY <1>4, <1>5

-----------------------------------------------------------------------------
(* Nothing has run when the clock starts. *)
LEMMA LedgerInit == Init => Ledger
<1> SUFFICES ASSUME Init PROVE Ledger
  OBVIOUS
<1>1. TypeOK /\ Began
  BY DEF Init, TypeOK, Began
<1>2. SumFunctionOnSet(booked, Apps) = 0
  BY CutoffsAssumption, SumZero DEF Init
<1>3. BegunBy(running, session, Apps, Today) = {}
  BY DEF BegunBy, Init
<1>4. Live(running, session, now, Apps, Today) = 0
  BY <1>3, SumEmpty DEF Live
<1>5. Took(Apps) = ran
  BY <1>2, <1>4 DEF Took, Init
<1> QED BY <1>1, <1>5 DEF Init, Ledger

(* The ledger is right after a launch ... *)
LEMMA LaunchLedger ==
  ASSUME Ledger, NEW p \in Pids, NEW app \in Apps, Launch(p, app)
  PROVE  Ledger'
<1> DEFINE new == [app |-> app, start |-> now, known |-> TRUE,
                   warned |-> FALSE, until |-> 0, alone |-> TRUE]
<1>1. TypeOK /\ Began /\ Took(Apps) = ran
  BY DEF Ledger
<1>2. /\ running' = running \cup {p} /\ now' = now /\ booked' = booked
      /\ steady' = steady /\ ran' = ran /\ session'[p] = new
      /\ \A q \in running : session'[q] = session[q]
  BY <1>1 DEF Launch, history, TypeOK
<1>3. new \in Session
  BY <1>1 DEF Session, TypeOK
<1>4. new.start = now /\ new.known
  OBVIOUS
<1>5. session' = [q \in running \cup {p} |-> session'[q]]
  BY DEF Launch
<1> HIDE DEF new
<1>6. session' \in [running' -> Session]
  <2>1. \A q \in running \cup {p} : session'[q] \in Session
    BY <1>1, <1>2, <1>3, SessionsTyped
  <2> QED BY <1>2, <1>5, <2>1
<1>7. TypeOK'
  BY <1>1, <1>2, <1>6 DEF Launch, TypeOK, config
<1>8. Began'
  BY <1>1, <1>2, <1>4 DEF Began, TypeOK
<1>9. Took(Apps)' = ran'
  BY <1>1, <1>2, LaunchTook
<1>10. Today' = Today
  BY <1>2, SameDay
<1> QED BY <1>2, <1>4, <1>7, <1>8, <1>9, <1>10 DEF Ledger

(* ... after a stop ... *)
LEMMA StopLedger ==
  ASSUME Ledger, NEW p \in running, Stops(p)
  PROVE  Ledger'
<1> DEFINE app == session[p].app
           d == IF session[p].start >= Today THEN now - session[p].start ELSE 0
<1>1. TypeOK /\ Began /\ Took(Apps) = ran
  BY DEF Ledger
<1>2. /\ running' = running \ {p} /\ now' = now
      /\ steady' = steady /\ ran' = ran
      /\ booked' = [booked EXCEPT ![app] = @ + d]
      /\ \A q \in running \ {p} : session'[q] = session[q]
  BY DEF Stops, history, Today
<1>3. /\ app \in Apps /\ d \in Nat
      /\ now = Today => d = 0
  BY <1>1, SessionsTyped DEF TypeOK, Began
<1>4. session' = [q \in running \ {p} |-> session'[q]]
  BY DEF Stops
<1>5. session' \in [running' -> Session]
  <2>1. \A q \in running \ {p} : session'[q] \in Session
    BY <1>1, <1>2, SessionsTyped
  <2> QED BY <1>2, <1>4, <2>1
<1> HIDE DEF app, d
<1>6. booked' \in [Apps -> Nat] /\ (d = 0 => booked' = booked)
  BY <1>1, <1>2, <1>3 DEF TypeOK
<1>7. TypeOK'
  BY <1>1, <1>2, <1>5, <1>6 DEF Stops, TypeOK, config
<1>8. Began'
  BY <1>1, <1>2 DEF Began
<1>9. Took(Apps)' = ran'
  BY <1>1, <1>2, StopTook
<1>10. Today' = Today
  BY <1>2, SameDay
<1> QED BY <1>2, <1>3, <1>6, <1>7, <1>8, <1>9, <1>10 DEF Ledger

(* ... after a step that keeps the sessions ... *)
LEMMA StillLedger ==
  ASSUME Ledger, Still
  PROVE  Ledger'
<1>1. TypeOK /\ Began /\ Took(Apps) = ran
  BY DEF Ledger
<1>2. TypeOK'
  BY <1>1 DEF TypeOK, Still, config
<1>3. Began'
  BY <1>1 DEF Began, Still
<1>4. Took(Apps)' = ran'
  BY <1>1, StillTook DEF Still
<1>5. Today' = Today
  BY SameDay DEF Still
<1> QED BY <1>2, <1>3, <1>4, <1>5 DEF Ledger, Still

(* What a passing tick makes of the sessions. *)
LEMMA AdvanceSessions ==
  ASSUME TypeOK, Advance
  PROVE  /\ session' \in [running -> Session]
         /\ \A p \in running :
              /\ session'[p].app = session[p].app
              /\ session'[p].start = session[p].start
              /\ session'[p].known = session[p].known
              /\ session'[p].warned = session[p].warned
              /\ session'[p].until = session[p].until
              /\ session'[p].alone <=>
                   /\ session[p].alone
                   /\ session[p].warned => running = {p} /\ now' % DayTicks # 0
<1>1. ASSUME NEW p \in running
      PROVE  /\ session'[p] \in Session
             /\ session'[p].app = session[p].app
             /\ session'[p].start = session[p].start
             /\ session'[p].known = session[p].known
             /\ session'[p].warned = session[p].warned
             /\ session'[p].until = session[p].until
             /\ session'[p].alone <=>
                   /\ session[p].alone
                   /\ session[p].warned => running = {p} /\ now' % DayTicks # 0
  <2> DEFINE alone == /\ session[p].alone
                      /\ session[p].warned => running = {p} /\ now' % DayTicks # 0
  <2>1. session[p] \in Session
    BY SessionsTyped
  <2>2. session'[p] = [session[p] EXCEPT !.alone = alone]
    BY <2>1 DEF Advance, Session
  <2>3. alone \in BOOLEAN
    OBVIOUS
  <2> HIDE DEF alone
  <2>4. /\ session'[p] \in Session
        /\ session'[p].app = session[p].app
        /\ session'[p].start = session[p].start
        /\ session'[p].known = session[p].known
        /\ session'[p].warned = session[p].warned
        /\ session'[p].until = session[p].until
        /\ session'[p].alone = alone
    BY <2>1, <2>2, <2>3 DEF Session
  <2> QED BY <2>4 DEF alone
<1>2. session' = [p \in running |-> session'[p]]
  BY DEF Advance
<1> QED BY <1>1, <1>2

(* ... when time passes ... *)
LEMMA AdvanceLedger ==
  ASSUME Ledger, Advance
  PROVE  Ledger'
<1> DEFINE begun == BegunBy(running, session, Apps, Today)
<1>1. TypeOK /\ Began /\ Took(Apps) = ran /\ now \in Nat
  BY DEF Ledger, TypeOK
<1>2. /\ now' = now + 1 /\ running' = running /\ polled' = {} /\ ticked' = FALSE
      /\ config' = config
  BY DEF Advance
<1>3. /\ session' \in [running -> Session]
      /\ \A p \in running : session'[p].start = session[p].start
                            /\ session'[p].known = session[p].known
  BY <1>1, AdvanceSessions
<1>4. begun = {p \in running : session[p].start >= Date * DayTicks}
  BY <1>1, SessionsTyped DEF BegunBy, Today
<1>5. IsFiniteSet(begun) /\ Cardinality(begun) \in Nat
  <2>1. IsFiniteSet(begun)
    BY <1>1, <1>4, SessionsTyped, FS_Subset
  <2> QED BY <2>1, FS_CardinalityType
<1>6. Began'
  BY <1>1, <1>2, <1>3, SessionsTyped DEF Began
<1>9. /\ now' \in Nat /\ windows' \in Calendars /\ daily' \in Budgets
      /\ running' \in SUBSET Pids /\ session' \in [running' -> Session]
      /\ ticked' \in BOOLEAN /\ polled' \in SUBSET running'
  <2>1. now' \in Nat
    BY <1>1, <1>2
  <2>2. windows' \in Calendars /\ daily' \in Budgets
    BY <1>1, <1>2 DEF TypeOK, config
  <2>3. running' \in SUBSET Pids /\ ticked' \in BOOLEAN /\ polled' \in SUBSET running'
    BY <1>1, <1>2 DEF TypeOK
  <2>4. session' \in [running' -> Session]
    BY <1>2, <1>3
  <2> QED BY <2>1, <2>2, <2>3, <2>4
<1> HIDE DEF begun
<1>7. CASE now' % DayTicks # 0
  <2>1. booked' = booked /\ steady' = steady /\ ran' = ran + Cardinality(begun)
    BY <1>4, <1>7 DEF Advance
  <2>2. TypeOK'
    <3>1. booked' \in [Apps -> Nat] /\ ran' \in Nat /\ steady' \in BOOLEAN
      BY <1>1, <1>5, <2>1 DEF TypeOK
    <3> QED BY <1>9, <3>1 DEF TypeOK
  <2>3. Today' = Today /\ Time' = Time + 1 /\ Time \in Nat /\ Time' = now' - Today' /\ Today \in Nat
    BY <1>1, <1>2, <1>7, ClockAdvances, Clock
  <2>4. now' # Today'
    BY <1>1, <1>2, <2>3
  <2>5. Took(Apps)' = ran'
    BY <1>1, <1>7, <2>1, AdvanceTook DEF begun
  <2> QED BY <1>2, <1>3, <1>6, <2>1, <2>2, <2>3, <2>4, <2>5 DEF Ledger
<1>8. CASE now' % DayTicks = 0
  <2>1. booked' = [app \in Apps |-> 0] /\ ran' = 0 /\ steady' = TRUE
    BY <1>8 DEF Advance
  <2>2. TypeOK'
    <3>1. booked' \in [Apps -> Nat] /\ ran' \in Nat /\ steady' \in BOOLEAN
      BY <2>1
    <3> QED BY <1>9, <3>1 DEF TypeOK
  <2>3. Today' = now'
    BY <1>1, <1>2, <1>8, ClockAdvances
  <2>4. \A p \in running : ~(session'[p].start >= Today')
    BY <1>1, <1>2, <1>3, <2>3, SessionsTyped DEF Began
  <2>5. Took(Apps)' = ran'
    BY <1>1, <1>8, <2>1, AdvanceTook
  <2> QED BY <1>2, <1>6, <2>1, <2>2, <2>4, <2>5 DEF Ledger
<1> QED BY <1>7, <1>8

(* ... so after every step ... *)
LEMMA LedgerStep == Ledger /\ [Next]_vars => Ledger'
<1> SUFFICES ASSUME Ledger, [Next]_vars PROVE Ledger'
  OBVIOUS
<1>1. TypeOK /\ Began
  BY DEF Ledger
<1> QED BY <1>1, StepCases, LaunchLedger, StopLedger, StillLedger, AdvanceLedger

(* ... and always. *)
LEMMA LedgerHolds == Spec => []Ledger
BY LedgerInit, LedgerStep, PTL DEF Spec

-----------------------------------------------------------------------------
(* What agentd counts of it: nothing on a day that has no midnight.        *)
Counted(A) == IF Weekday \in NoMidnight THEN 0 ELSE Took(A)

(* What agentd counts, without a restart, is what sessions took. *)
LEMMA UsedIs ==
  ASSUME Ledger, steady, NEW A \in SUBSET Apps
  PROVE  UsedMinutes(A) = Counted(A) \div PerMinute
<1> DEFINE f == [p \in running |-> now - session[p].start]
           S == {p \in running : /\ session[p].known
                                 /\ session[p].app \in A
                                 /\ session[p].start >= Midnight}
           completed == IF Midnight = now THEN 0 ELSE SumFunctionOnSet(booked, A)
           live == SumFunctionOnSet(f, S)
<1>1. TypeOK /\ Began
  BY DEF Ledger
<1>2. UsedMinutes(A) = (completed + live) \div PerMinute
  BY DEF UsedMinutes
<1>3. IsFiniteSet(S) /\ IsFiniteSet(A)
  BY <1>1, SessionsTyped, FS_Subset, CutoffsAssumption
<1>4. CASE Weekday \in NoMidnight
  <2>1. Midnight = now
    BY <1>4 DEF Midnight
  <2>2. completed = 0
    BY <2>1
  <2>3. \A p \in S : f[p] = 0
    BY <1>1, <2>1, SessionsTyped DEF Began, TypeOK
  <2>4. live = 0
    <3> HIDE DEF f, S
    <3> QED BY <1>3, <2>3, SumZero
  <2> HIDE DEF completed, live
  <2>5. completed + live = 0
    BY <2>2, <2>4
  <2> QED BY <1>2, <1>4, <2>5 DEF Counted
<1>5. CASE Weekday \notin NoMidnight
  <2>1. Midnight = Today
    BY <1>5 DEF Midnight, Today
  <2>2. S = BegunBy(running, session, A, Today)
    BY <2>1 DEF BegunBy, Ledger
  <2>3. live = Live(running, session, now, A, Today)
    BY <2>2 DEF Live, Lasting
  <2>4. completed = SumFunctionOnSet(booked, A)
    <3>1. CASE now = Today
      <4>1. \A app \in A : booked[app] = 0
        BY <3>1 DEF Ledger
      <4>2. SumFunctionOnSet(booked, A) = 0
        BY <1>3, <4>1, SumZero
      <4> QED BY <2>1, <3>1, <4>2
    <3>2. CASE now # Today
      BY <2>1, <3>2
    <3> QED BY <3>1, <3>2
  <2> HIDE DEF completed, live
  <2> QED BY <1>2, <1>5, <2>3, <2>4 DEF Counted, Took
<1> QED BY <1>4, <1>5

(* The ledger, and that agentd's own sums agree with it. *)
UsedIsCounted ==
  steady => \A A \in SUBSET Apps : UsedMinutes(A) = Counted(A) \div PerMinute

Books == Ledger /\ UsedIsCounted

(* It counts just that, of every day of which it knows all sessions. *)
LEMMA BooksHold == Spec => []Books
<1>1. Ledger => UsedIsCounted
  BY UsedIs DEF UsedIsCounted
<1> QED BY <1>1, LedgerHolds, PTL DEF Books

(* Between two ticks of the clock nothing of this moves. *)
LEMMA QuietStep ==
  ASSUME Ledger, [Next]_vars, now' = now
  PROVE  /\ windows' = windows /\ daily' = daily
         /\ steady' => steady
         /\ \A A \in SUBSET Apps : Took(A)' = Took(A)
         /\ ~Advance
<1>1. TypeOK /\ Began /\ now \in Nat
  BY DEF Ledger, TypeOK
<1>2. ASSUME Advance PROVE FALSE
  BY <1>1, <1>2 DEF Advance
<1>3. ASSUME NEW p \in Pids, NEW app \in Apps, Launch(p, app)
      PROVE  /\ windows' = windows /\ daily' = daily /\ steady' = steady
             /\ \A A \in SUBSET Apps : Took(A)' = Took(A)
  BY <1>1, <1>3, LaunchTook DEF Launch, config, history
<1>4. ASSUME NEW p \in running, Stops(p)
      PROVE  /\ windows' = windows /\ daily' = daily /\ steady' = steady
             /\ \A A \in SUBSET Apps : Took(A)' = Took(A)
  BY <1>1, <1>4, StopTook DEF Stops, config, history
<1>5. ASSUME Still
      PROVE  /\ windows' = windows /\ daily' = daily /\ (steady' => steady)
             /\ \A A \in SUBSET Apps : Took(A)' = Took(A)
  BY <1>5, StillTook DEF Still, config
<1> DEFINE Quiet == /\ windows' = windows /\ daily' = daily
                    /\ steady' => steady
                    /\ \A A \in SUBSET Apps : Took(A)' = Took(A)
<1>6. (\E p \in Pids, app \in Apps : Launch(p, app)) => Quiet
  BY <1>3
<1>7. (\E p \in running : Stops(p)) => Quiet
  BY <1>4
<1>8. Still => Quiet
  BY <1>5
<1> HIDE DEF Quiet
<1>9. Quiet
  BY <1>1, <1>2, <1>6, <1>7, <1>8, StepCases
<1> QED BY <1>2, <1>9 DEF Quiet

(* What check_allowed says does not change within a tick. *)
LEMMA VerdictStays ==
  ASSUME Books, Books', [Next]_vars, now' = now, steady', NEW app \in Apps
  PROVE  /\ CheckAllowed(app)' = CheckAllowed(app)
         /\ Left(app)' = Left(app)
<1>1. /\ windows' = windows /\ daily' = daily /\ steady
      /\ \A A \in SUBSET Apps : Took(A)' = Took(A)
  BY QuietStep DEF Books
<1>2. Weekday' = Weekday /\ Time' = Time
  BY SameDay
<1>3. ASSUME NEW A \in SUBSET Apps PROVE UsedMinutes(A)' = UsedMinutes(A)
  <2>1. UsedMinutes(A) = Counted(A) \div PerMinute
    BY <1>1 DEF Books, UsedIsCounted
  <2>2. UsedMinutes(A)' = Counted(A)' \div PerMinute
    BY DEF Books, UsedIsCounted
  <2>3. Counted(A)' = Counted(A)
    BY <1>1, <1>2 DEF Counted
  <2> QED BY <2>1, <2>2, <2>3
<1>4. Limits(app)' = Limits(app)
  <2>1. UsedMinutes(Apps)' = UsedMinutes(Apps) /\ UsedMinutes({app})' = UsedMinutes({app})
    BY <1>3
  <2> QED BY <1>1, <1>2, <2>1 DEF Limits
<1> QED BY <1>1, <1>2, <1>4 DEF CheckAllowed, Left

-----------------------------------------------------------------------------
(* Who has polled in this tick had passed, and would pass again.           *)
Passed ==
  /\ \A p \in polled : ~InBlockedWindow(windows, Weekday, Time)
  /\ steady => \A p \in polled : CheckAllowed(session[p].app)

(* Who may go on was asked in this tick or has begun in it. *)
LEMMA PassedStep ==
  ASSUME Books, Books', Passed, [Next]_vars
  PROVE  Passed'
<1>1. TypeOK /\ Began /\ TypeOK'
  BY DEF Books, Ledger
<1>2. CASE Advance
  <2>1. polled' = {}
    BY <1>2 DEF Advance
  <2> QED BY <2>1 DEF Passed
<1>3. CASE ~Advance
  <2>1. now' = now
    BY <1>1, <1>3, StepCases DEF Launch, Stops, Still
  <2>2. windows' = windows /\ Weekday' = Weekday /\ Time' = Time /\ (steady' => steady)
    BY <2>1, QuietStep, SameDay DEF Books
  <2>3. ASSUME NEW p \in polled'
        PROVE  /\ CheckAllowed(session'[p].app) \/ p \in polled
               /\ p \in polled => p \in running /\ session'[p].app = session[p].app
               /\ session'[p].app \in Apps
    <3>0. p \in polled => p \in running
      BY <1>1 DEF TypeOK
    <3>4. session'[p].app \in Apps
      BY <1>1 DEF TypeOK, Session
    <3>1. ASSUME NEW q \in Pids, NEW app \in Apps, Launch(q, app)
          PROVE  /\ CheckAllowed(session'[p].app) \/ p \in polled
                 /\ p \in polled => session'[p].app = session[p].app
      BY <1>1, <3>0, <3>1 DEF Launch, TypeOK
    <3>2. ASSUME NEW q \in running, Stops(q)
          PROVE  p \in polled /\ session'[p].app = session[p].app
      BY <1>1, <3>0, <3>2 DEF Stops, TypeOK
    <3>3. ASSUME Still
          PROVE  /\ CheckAllowed(session'[p].app) \/ p \in polled
                 /\ p \in polled => session'[p].app = session[p].app
      <4>1. p \in running /\ session'[p].app = session[p].app
        BY <3>3 DEF Still
      <4> QED BY <3>3, <4>1 DEF Still
    <3> QED BY <1>1, <1>3, <3>0, <3>1, <3>2, <3>3, <3>4, StepCases
  <2>4. \A p \in polled' : ~InBlockedWindow(windows, Weekday, Time)
    BY <2>3 DEF Passed, CheckAllowed
  <2>5. ASSUME steady', NEW p \in polled' PROVE CheckAllowed(session[p].app)'
    <3>1. CheckAllowed(session'[p].app)
      BY <2>2, <2>3, <2>5 DEF Passed
    <3> DEFINE app == session'[p].app
    <3>2. app \in Apps
      BY <2>3
    <3> HIDE DEF app
    <3>3. CheckAllowed(app)
      BY <3>1 DEF app
    <3> QED BY <2>1, <2>5, <3>1, <3>2, VerdictStays DEF app
  <2> QED BY <2>2, <2>4, <2>5 DEF Passed
<1> QED BY <1>2, <1>3

-----------------------------------------------------------------------------
(* What a limit allows of a budget, in ticks. *)
Top(limit) == (limit + GRACE_MINUTES + 1) * PerMinute

(* The bound that the grace gives a limit is positive. *)
LEMMA TopPositive == \A limit \in Nat : Top(limit) \in Nat /\ Top(limit) > 0
<1> SUFFICES ASSUME NEW limit \in Nat PROVE Top(limit) \in Nat /\ Top(limit) > 0
  OBVIOUS
<1> DEFINE k == limit + GRACE_MINUTES + 1
<1>1. k \in Nat /\ k > 0 /\ PerMinute \in Nat /\ PerMinute > 0
  BY CalendarAssumption DEF GRACE_MINUTES
<1> HIDE DEF k
<1>2. k * PerMinute \in Nat /\ k * PerMinute > 0
  BY <1>1
<1> QED BY <1>2 DEF Top, k

(* The comparison of whole minutes keeps ticks below it. *)
LEMMA BelowMinutes ==
  ASSUME NEW used \in Int, NEW k \in Int
  PROVE  used \div PerMinute <= k <=> used < (k + 1) * PerMinute
<1> DEFINE q == used \div PerMinute
           r == used % PerMinute
<1>1. PerMinute \in Nat /\ PerMinute > 0
  BY CalendarAssumption
<1>2. q \in Int /\ r \in Int /\ 0 <= r /\ r < PerMinute
  BY <1>1
<1>3. used = PerMinute * q + r
  BY <1>1, Z3
<1> HIDE DEF q, r
<1>4. (k + 1) * PerMinute = PerMinute * k + PerMinute
  BY <1>1
<1>5. q <= k => PerMinute * q <= PerMinute * k
  BY <1>1, <1>2
<1>6. q > k => PerMinute * (k + 1) <= PerMinute * q
  <2> SUFFICES ASSUME q > k PROVE PerMinute * (k + 1) <= PerMinute * q
    OBVIOUS
  <2>1. k + 1 <= q
    BY <1>2
  <2> QED BY <1>1, <1>2, <2>1
<1>7. PerMinute * q \in Int /\ PerMinute * k \in Int /\ PerMinute * (k + 1) = PerMinute * k + PerMinute
  BY <1>1, <1>2
<1>8. q <= k <=> used < (k + 1) * PerMinute
  BY <1>1, <1>2, <1>3, <1>4, <1>5, <1>6, <1>7
<1> QED BY <1>8 DEF q

(* A tick takes no limit past its bound, if all that run may run. *)
LEMMA HeldStep ==
  ASSUME Books, Books', Passed, DayHeld, [Next]_vars
  PROVE  DayHeld'
<1> DEFINE N == Cardinality(Pids)
<1>1. TypeOK /\ TypeOK' /\ Began /\ Took(Apps) = ran /\ Took(Apps)' = ran' /\ ran \in Nat
  BY DEF Books, Ledger, TypeOK
<1>2. N \in Nat
  BY CutoffsAssumption, FS_CardinalityType
<1> HIDE DEF N
<1> SUFFICES ASSUME steady', Weekday' \notin NoMidnight, NEW limit \in daily'[Weekday']
             PROVE  ran' < Top(limit) + N
  BY <1>1 DEF DayHeld, Top, N
<1>3. limit \in Nat /\ Top(limit) \in Nat /\ Top(limit) > 0
  <2>1. TypeOK => \A day \in Weekdays : daily[day] \subseteq Nat
    BY CutoffsAssumption DEF TypeOK
  <2>2. \A day \in Weekdays : daily'[day] \subseteq Nat
    BY <1>1, CutoffsAssumption DEF TypeOK
  <2>3. Weekday' \in Weekdays
    <3>1. now' \in Nat
      BY <1>1 DEF TypeOK
    <3>2. Weeklong \in Nat /\ Weeklong > 0 /\ DayTicks \in Nat /\ DayTicks > 0
      BY CalendarAssumption, Clock DEF DayTicks
    <3>3. now' \div DayTicks \in Nat
      BY <3>1, <3>2, Divides
    <3>4. (now' \div DayTicks) % Weeklong \in 0..(Weeklong - 1)
      BY <3>2, <3>3, Divides
    <3> QED BY <3>4 DEF Weekday, Date, Weekdays
  <2> QED BY <2>2, <2>3, TopPositive
<1>4. CASE ~Advance
  <2>1. now' = now
    BY <1>1, <1>4, StepCases DEF Launch, Stops, Still
  <2>2. daily' = daily /\ Weekday' = Weekday /\ steady /\ ran' = ran
    BY <1>1, <2>1, QuietStep, SameDay DEF Books
  <2> QED BY <1>1, <2>2 DEF DayHeld, Top, N
<1>5. CASE Advance /\ now' % DayTicks = 0
  <2>1. ran' = 0
    BY <1>5 DEF Advance
  <2> QED BY <1>2, <1>3, <2>1
<1>6. CASE Advance /\ now' % DayTicks # 0
  <2> DEFINE begun == BegunBy(running, session, Apps, Today)
  <2>1. daily' = daily /\ Weekday' = Weekday /\ steady
    BY <1>1, <1>6, ClockAdvances DEF Advance, config, TypeOK
  <2>2. ran' = ran + Cardinality(begun)
    BY <1>1, <1>6, AdvanceTook
  <2>3. IsFiniteSet(begun) /\ begun \subseteq Pids /\ begun \subseteq running
    BY <1>1, SessionsTyped, FS_Subset DEF TypeOK, BegunBy
  <2> HIDE DEF begun
  <2>4. Cardinality(begun) \in Nat /\ Cardinality(begun) <= N
    BY <2>3, FS_CardinalityType, FS_Subset, CutoffsAssumption DEF N
  <2>5. CASE begun = {}
    <3>1. Cardinality(begun) = 0
      BY <2>5, FS_EmptySet
    <3> QED BY <1>1, <2>1, <2>2, <3>1 DEF DayHeld, Top, N
  <2>6. CASE begun # {}
    <3>1. PICK p \in begun : TRUE
      BY <2>6
    <3>2. CheckAllowed(session[p].app)
      BY <1>6, <2>1, <2>3, <3>1 DEF Passed, Advance
    <3>3. <<limit, UsedMinutes(Apps)>> \in Limits(session[p].app)
      BY <2>1 DEF Limits
    <3>4. UsedMinutes(Apps) <= limit + GRACE_MINUTES
      BY <3>2, <3>3 DEF CheckAllowed
    <3>5. UsedMinutes(Apps) = ran \div PerMinute
      BY <1>1, <2>1 DEF Books, UsedIsCounted, Counted
    <3>6. limit + GRACE_MINUTES \in Int /\ ran \in Int
      BY <1>1, <1>3 DEF GRACE_MINUTES
    <3>7. ran < Top(limit)
      BY <3>4, <3>5, <3>6, BelowMinutes DEF Top
    <3> QED BY <1>1, <1>2, <1>3, <2>2, <2>4, <3>7
  <2> QED BY <2>5, <2>6
<1> QED BY <1>4, <1>5, <1>6

(* So it is in every state. *)
LEMMA PassedHolds == Spec => []Passed
<1>1. Init => Passed
  BY DEF Init, Passed
<1>2. Books /\ Books' /\ Passed /\ [Next]_vars => Passed'
  BY PassedStep
<1> QED BY <1>1, <1>2, BooksHold, PTL DEF Spec

(* No day's limit is overrun, whatever the number of wrappers: at most by  *)
(* the grace, the minute that is dropped, and a tick of each session.      *)
THEOREM DayHeldHolds == Spec => []DayHeld
<1>1. Init => DayHeld
  <2> SUFFICES ASSUME Init PROVE DayHeld
    OBVIOUS
  <2>1. TypeOK /\ ran = 0
    BY LedgerInit DEF Ledger, Init
  <2>2. \A limit \in daily[Weekday] : Top(limit) \in Nat /\ Top(limit) > 0
    BY <2>1, LimitsTyped, TopPositive
  <2>3. Cardinality(Pids) \in Nat
    BY CutoffsAssumption, FS_CardinalityType
  <2>4. \A limit \in daily[Weekday] : ran < Top(limit) + Cardinality(Pids)
    BY <2>1, <2>2, <2>3
  <2> QED BY <2>1, <2>4 DEF DayHeld, Top
<1>2. Books /\ Books' /\ Passed /\ DayHeld /\ [Next]_vars => DayHeld'
  BY HeldStep
<1> QED BY <1>1, <1>2, BooksHold, PassedHolds, PTL DEF Spec

-----------------------------------------------------------------------------
(* A time that is free is followed by a free one unless a window starts.   *)
LEMMA FreeNext ==
  ASSUME NEW rules \in [Weekdays -> SUBSET Window], NEW day \in Weekdays, NEW time \in Nat,
         ~InBlockedWindow(rules, day, time), \A w \in rules[day] : StartOf(w) # time + 1
  PROVE  ~InBlockedWindow(rules, day, time + 1)
<1>1. Pred(day) \in Weekdays
  BY CalendarAssumption DEF Pred, Weekdays
<1>2. \A w \in rules[day] \cup rules[Pred(day)] : StartOf(w) \in Int /\ EndOf(w) \in Int
  BY <1>1, WindowTimes
<1>3. \A w \in rules[day] : ~CoversFromStart(w, time) /\ StartOf(w) # time + 1
  BY DEF InBlockedWindow
<1>4. \A w \in rules[Pred(day)] : ~CoversUntilEndWrap(w, time)
  BY DEF InBlockedWindow
<1>5. \A w \in rules[day] : ~CoversFromStart(w, time + 1)
  BY <1>2, <1>3 DEF CoversFromStart
<1>6. \A w \in rules[Pred(day)] : ~CoversUntilEndWrap(w, time + 1)
  BY <1>2, <1>4 DEF CoversUntilEndWrap
<1> QED BY <1>5, <1>6 DEF InBlockedWindow

(* So is a day's last time, unless one starts at midnight. *)
LEMMA FreeMidnight ==
  ASSUME NEW rules \in [Weekdays -> SUBSET Window], NEW day \in Weekdays,
         ~InBlockedWindow(rules, Pred(day), DayTicks - 1), \A w \in rules[day] : w.start # 0
  PROVE  ~InBlockedWindow(rules, day, 0)
<1>1. Pred(day) \in Weekdays
  BY CalendarAssumption DEF Pred, Weekdays
<1>2. ASSUME NEW w \in rules[day] PROVE ~CoversFromStart(w, 0)
  <2>1. w.start \in Nat /\ w.start > 0 /\ PerMinute \in Nat /\ PerMinute > 0
    BY CalendarAssumption DEF Window, Minute
  <2>2. StartOf(w) > 0
    BY <2>1 DEF StartOf
  <2> QED BY <2>2, WindowTimes DEF CoversFromStart
<1>3. ASSUME NEW w \in rules[Pred(day)] PROVE ~CoversUntilEndWrap(w, 0)
  <2>1. w \in Window
    BY <1>1
  <2>2. /\ DayTicks \in Nat /\ DayTicks > 0
        /\ StartOf(w) \in 0..(DayTicks - 1) /\ w.start \in Nat /\ w.end \in Nat
    BY <2>1, WindowTimes DEF Window, Minute
  <2>3. ~CoversFromStart(w, DayTicks - 1)
    BY DEF InBlockedWindow
  <2>4. w.start <= w.end
    BY <2>2, <2>3 DEF CoversFromStart
  <2> QED BY <2>2, <2>4 DEF CoversUntilEndWrap
<1> QED BY <1>2, <1>3 DEF InBlockedWindow

-----------------------------------------------------------------------------
(* What a tick adds to what is counted: one for each wrapper at most. *)
LEMMA CountedAdvance ==
  ASSUME Books, Advance, NEW A \in SUBSET Apps
  PROVE  /\ Counted(A) \in Int
         /\ Cardinality(running) \in Nat
         /\ now' % DayTicks # 0 =>
              /\ Counted(A)' \in Int
              /\ Counted(A)' <= Counted(A) + Cardinality(running)
              /\ Counted(A)' >= Counted(A)
         /\ now' % DayTicks = 0 => Counted(A)' = 0
<1> DEFINE begun == BegunBy(running, session, A, Today)
<1>1. TypeOK /\ Began /\ now \in Nat /\ now' = now + 1
  BY DEF Books, Ledger, TypeOK, Advance
<1>2. Took(A) \in Int /\ IsFiniteSet(running) /\ Cardinality(running) \in Nat
  BY <1>1, TookTyped, SessionsTyped, FS_CardinalityType
<1>3. Cardinality(begun) \in Nat /\ Cardinality(begun) <= Cardinality(running)
  <2>1. begun \subseteq running
    BY DEF BegunBy
  <2> HIDE DEF begun
  <2> QED BY <1>2, <2>1, FS_Subset, FS_CardinalityType
<1>4. now' % DayTicks # 0 => Took(A)' = Took(A) + Cardinality(begun) /\ Weekday' = Weekday
  BY <1>1, AdvanceTook, ClockAdvances
<1>5. now' % DayTicks = 0 => Took(A)' = 0
  BY <1>1, AdvanceTook
<1> HIDE DEF begun
<1> QED BY <1>2, <1>3, <1>4, <1>5 DEF Counted

(* More than the lead left is enough for a tick of all wrappers, if there  *)
(* are not too many of them.                                               *)
LEMMA LeadCovers ==
  ASSUME Books, Books', Advance, now' % DayTicks # 0, steady,
         Cardinality(Pids) <= (LeadMinutes + 2) * PerMinute,
         NEW A \in SUBSET Apps, NEW limit \in Nat, limit - UsedMinutes(A) > LeadMinutes
  PROVE  UsedMinutes(A)' <= limit + GRACE_MINUTES
<1> DEFINE used == Counted(A)
           used2 == Counted(A)'
           N == Cardinality(running)
           lead == limit - LeadMinutes - 1
<1>1. /\ used \in Int /\ used2 \in Int /\ N \in Nat
      /\ used2 <= used + N /\ N <= Cardinality(Pids)
  BY CountedAdvance, SessionsTyped DEF Books, Ledger
<1>2. steady'
  BY DEF Advance
<1>3. UsedMinutes(A) = used \div PerMinute /\ UsedMinutes(A)' = used2 \div PerMinute
  BY <1>2 DEF Books, UsedIsCounted
<1>4. LeadMinutes \in Nat /\ PerMinute \in Nat /\ PerMinute > 0
  BY CutoffsAssumption, CalendarAssumption
<1>5. UsedMinutes(A) \in Nat
  BY UsedNat DEF Books, Ledger
<1>6. lead \in Int /\ UsedMinutes(A) <= lead
  BY <1>4, <1>5
<1>7. limit + GRACE_MINUTES \in Int /\ GRACE_MINUTES = 1
  BY DEF GRACE_MINUTES
<1> HIDE DEF used, used2, N, lead
<1>8. used < (lead + 1) * PerMinute
  BY <1>1, <1>3, <1>6, BelowMinutes
<1>9. (lead + 1) * PerMinute + (LeadMinutes + 2) * PerMinute = (limit + GRACE_MINUTES + 1) * PerMinute
  <2>1. lead + 1 = limit - LeadMinutes /\ limit + GRACE_MINUTES + 1 = limit + 2
    BY <1>4, <1>7 DEF lead
  <2>2. (limit - LeadMinutes) * PerMinute + (LeadMinutes + 2) * PerMinute = (limit + 2) * PerMinute
    BY <1>4
  <2> QED BY <2>1, <2>2
<1>10. (lead + 1) * PerMinute \in Int /\ (LeadMinutes + 2) * PerMinute \in Int
  BY <1>4, <1>6
<1>11. Cardinality(Pids) \in Nat
  BY CutoffsAssumption, FS_CardinalityType
<1>12. used2 < (limit + GRACE_MINUTES + 1) * PerMinute
  BY <1>1, <1>8, <1>9, <1>10, <1>11
<1> QED BY <1>1, <1>3, <1>7, <1>12, BelowMinutes

-----------------------------------------------------------------------------
(* Whom the ticker has looked at in this tick and not warned has more left *)
(* than the lead.                                                          *)
Looked ==
  steady /\ ticked =>
    \A p \in {r \in running : /\ session[r].known /\ ~session[r].warned
                              /\ session[r].start < now} :
      \A left \in Left(session[p].app) : left > LeadMinutes

(* The sessions of a tick that are not of it were there before. *)
LEMMA OldSessions ==
  ASSUME Books, Books', [Next]_vars, now' = now, steady',
         NEW p \in running', session'[p].start < now
  PROVE  /\ p \in running
         /\ session'[p].app = session[p].app /\ session[p].app \in Apps
         /\ session'[p].start = session[p].start
         /\ session'[p].known = session[p].known
         /\ session[p] \in Session /\ session'[p] \in Session
         /\ Tick \/ (/\ ticked' = ticked
                     /\ session'[p].warned = session[p].warned
                     /\ session'[p].until = session[p].until
                     /\ session'[p].alone = session[p].alone)
<1>1. TypeOK /\ Began /\ now \in Nat /\ session'[p] \in Session
  BY DEF Books, Ledger, TypeOK
<1>2. ~Advance
  BY QuietStep DEF Books
<1>3. ASSUME NEW q \in Pids, NEW app \in Apps, Launch(q, app)
      PROVE  p \in running /\ session'[p] = session[p] /\ ticked' = ticked
  <2>1. p # q
    BY <1>1, <1>3 DEF Launch, TypeOK
  <2> QED BY <1>3, <2>1 DEF Launch, TypeOK
<1>4. ASSUME NEW q \in running, Stops(q)
      PROVE  p \in running /\ session'[p] = session[p] /\ ticked' = ticked
  BY <1>4 DEF Stops
<1>5. CASE Still
  BY <1>1, <1>5, SessionsTyped DEF Still
<1>6. CASE p \in running /\ session'[p] = session[p] /\ ticked' = ticked
  BY <1>1, <1>6, SessionsTyped
<1> QED BY <1>1, <1>2, <1>3, <1>4, <1>5, <1>6, StepCases

(* A session without a warning was far from a cut when last looked at. *)
LEMMA LookedStep ==
  ASSUME Books, Books', Looked, [Next]_vars
  PROVE  Looked'
<1>1. TypeOK /\ Began
  BY DEF Books, Ledger
<1>2. CASE Advance
  BY <1>2 DEF Advance, Looked
<1>3. CASE ~Advance
  <2>1. now' = now
    BY <1>1, <1>3, StepCases DEF Launch, Stops, Still
  <2> SUFFICES ASSUME steady', ticked', NEW p \in running', session'[p].known,
                      ~session'[p].warned, session'[p].start < now,
                      NEW app \in Apps, app = session'[p].app, NEW left \in Left(app)'
               PROVE  left > LeadMinutes
    <3>1. \A p \in running' : session'[p].app \in Apps
      BY DEF Books, Ledger, TypeOK, Session
    <3> QED BY <2>1, <3>1 DEF Looked
  <2>2. /\ p \in running
        /\ session'[p].app = session[p].app /\ session[p].app \in Apps
        /\ session'[p].start = session[p].start /\ session'[p].known = session[p].known
        /\ session[p] \in Session /\ session'[p] \in Session
    BY <2>1, OldSessions
  <2>3. Left(app)' = Left(app) /\ steady
    BY <2>1, VerdictStays, QuietStep DEF Books
  <2>4. left \in Left(session[p].app)
    BY <2>2, <2>3
  <2>5. CASE Tick
    <3>1. ~session[p].warned
      <4>1. CASE session[p].warned
        BY <2>2, <2>5, <4>1 DEF Tick
      <4> QED BY <4>1
    <3>2. CASE Warning(p) # {}
      <4> DEFINE m == CHOOSE m \in Warning(p) : TRUE
                 allowed == CheckAllowed(session[p].app)
      <4>1. session'[p] = [session[p] EXCEPT !.warned = TRUE, !.until = now + PerMinute * m,
                                             !.alone = allowed]
        BY <2>2, <2>5, <3>1, <3>2 DEF Tick
      <4> HIDE DEF m, allowed
      <4>2. session'[p].warned
        BY <2>2, <4>1 DEF Session
      <4> QED BY <4>2
    <3>3. CASE Warning(p) = {}
      <4>1. ~(Min(Left(session[p].app)) <= LeadMinutes)
        BY <2>4, <3>3 DEF Warning
      <4>2. /\ Min(Left(session[p].app)) \in Int /\ left \in Int
            /\ Min(Left(session[p].app)) <= left
        BY <1>1, <2>2, <2>4, LeftLeast
      <4> QED BY <4>1, <4>2, CutoffsAssumption
    <3> QED BY <3>2, <3>3
  <2>6. CASE ~Tick
    <3>1. ticked' = ticked /\ session'[p].warned = session[p].warned
      BY <2>1, <2>6, OldSessions
    <3> QED BY <2>2, <2>3, <2>4, <3>1 DEF Looked
  <2> QED BY <2>5, <2>6
<1> QED BY <1>2, <1>3

-----------------------------------------------------------------------------
(* What is left today is left for an app by some budget. *)
LEMMA LeftHas ==
  ASSUME NEW app, NEW limit, NEW used, <<limit, used>> \in Limits(app)
  PROVE  limit - used \in Left(app)
<1> DEFINE b == <<limit, used>>
<1>1. b \in Limits(app) /\ b[1] = limit /\ b[2] = used
  OBVIOUS
<1> HIDE DEF b
<1>2. b[1] - b[2] \in Left(app)
  BY <1>1 DEF Left
<1> QED BY <1>1, <1>2

(* A tick of the same day: nobody whom agentd knows is cut off unwarned.   *)
LEMMA SameDayWarned ==
  ASSUME Books, Books', Passed, Looked, Advance, now' % DayTicks # 0, steady,
         PerMinute > 1 \/ LeadMinutes > 0,
         Cardinality(Pids) <= (LeadMinutes + 2) * PerMinute,
         NEW p \in running, session[p].known, ~session[p].warned, session[p].start < now,
         NEW app \in Apps, app = session[p].app
  PROVE  CheckAllowed(app)'
<1>1. TypeOK /\ Began /\ now \in Nat /\ now' = now + 1 /\ ticked /\ polled = running
  BY DEF Books, Ledger, TypeOK, Advance
<1>2. Weekday' = Weekday /\ Time' = Time + 1 /\ windows' = windows /\ daily' = daily
  BY <1>1, ClockAdvances DEF Advance, config
<1>3. CheckAllowed(app) /\ \A left \in Left(app) : left > LeadMinutes
  BY <1>1 DEF Passed, Looked
<1>4. /\ Weekday \in Weekdays /\ Time \in Nat
      /\ windows \in [Weekdays -> SUBSET Window]
  BY <1>1, TickOfWeek, LimitsTyped
<1>5. \A w \in windows[Weekday] : StartOf(w) # Time + 1
  <2> SUFFICES ASSUME NEW w \in windows[Weekday], StartOf(w) = Time + 1 PROVE FALSE
    OBVIOUS
  <2>1. StartOf(w) > Time /\ StartOf(w) - Time = 1
    BY <1>4
  <2>2. 1 \div PerMinute \in Left(app)
    BY <2>1 DEF Left, MinutesUntilWindowStarts
  <2>3. 1 \div PerMinute > LeadMinutes
    BY <1>3, <2>2
  <2>4. LeadMinutes \in Nat /\ PerMinute \in Nat /\ PerMinute > 0
    BY CutoffsAssumption, CalendarAssumption
  <2>5. 1 \div PerMinute <= 0 \/ LeadMinutes > 0
    <3>1. PerMinute > 1 => 1 < (0 + 1) * PerMinute
      BY <2>4
    <3> QED BY <3>1, BelowMinutes
  <2>6. 1 \div PerMinute <= 1
    <3>1. 1 < (1 + 1) * PerMinute
      BY <2>4
    <3> QED BY <3>1, BelowMinutes
  <2>7. 1 \div PerMinute \in Int
    BY <2>4
  <2> QED BY <2>3, <2>4, <2>5, <2>6, <2>7
<1>6. ~InBlockedWindow(windows, Weekday, Time + 1)
  BY <1>3, <1>4, <1>5, FreeNext DEF CheckAllowed
<1>7. ASSUME NEW limit \in daily[Weekday] PROVE UsedMinutes(Apps)' <= limit + GRACE_MINUTES
  <2>1. limit \in Nat
    BY <1>1, LimitsTyped
  <2>2. limit - UsedMinutes(Apps) > LeadMinutes
    <3>1. <<limit, UsedMinutes(Apps)>> \in Limits(app)
      BY DEF Limits
    <3>2. limit - UsedMinutes(Apps) \in Left(app)
      BY <3>1, LeftHas
    <3> QED BY <1>3, <3>2
  <2> QED BY <2>1, <2>2, LeadCovers
<1>8. ASSUME NEW limit \in AppLimit[app][Weekday]
      PROVE  UsedMinutes({app})' <= limit + GRACE_MINUTES
  <2>1. limit \in Nat
    BY <1>1, LimitsTyped
  <2>2. limit - UsedMinutes({app}) > LeadMinutes
    <3>1. <<limit, UsedMinutes({app})>> \in Limits(app)
      BY DEF Limits
    <3>2. limit - UsedMinutes({app}) \in Left(app)
      BY <3>1, LeftHas
    <3> QED BY <1>3, <3>2
  <2> QED BY <2>1, <2>2, LeadCovers
<1>9. \A limit \in daily'[Weekday'] : UsedMinutes(Apps)' <= limit + GRACE_MINUTES
  BY <1>2, <1>7
<1>10. \A limit \in AppLimit[app][Weekday'] : UsedMinutes({app})' <= limit + GRACE_MINUTES
  BY <1>2, <1>8
<1>11. ~InBlockedWindow(windows', Weekday', Time')
  BY <1>2, <1>6
<1>12. ASSUME NEW b \in Limits(app)' PROVE b[2] <= b[1] + GRACE_MINUTES
  <2>1. \/ \E limit \in daily'[Weekday'] : b = <<limit, UsedMinutes(Apps)'>>
        \/ \E limit \in AppLimit[app][Weekday'] : b = <<limit, UsedMinutes({app})'>>
    BY DEF Limits
  <2>2. ASSUME NEW limit \in daily'[Weekday'], b = <<limit, UsedMinutes(Apps)'>>
        PROVE  b[2] <= b[1] + GRACE_MINUTES
    <3>1. UsedMinutes(Apps)' <= limit + GRACE_MINUTES
      BY <1>9
    <3> QED BY <2>2, <3>1
  <2>3. ASSUME NEW limit \in AppLimit[app][Weekday'], b = <<limit, UsedMinutes({app})'>>
        PROVE  b[2] <= b[1] + GRACE_MINUTES
    <3>1. UsedMinutes({app})' <= limit + GRACE_MINUTES
      BY <1>10
    <3> QED BY <2>3, <3>1
  <2> QED BY <2>1, <2>2, <2>3
<1> QED BY <1>11, <1>12 DEF CheckAllowed

(* At midnight the budgets are whole again, and nothing is blocked that    *)
(* was not, but by a window that starts there.                             *)
LEMMA MidnightAllows ==
  ASSUME Books, Books', Passed, Advance, now' % DayTicks = 0,
         NEW p \in running, NEW app \in Apps
  PROVE  \/ CheckAllowed(app)'
         \/ Time' = 0 /\ \E w \in windows'[Weekday'] : w.start = 0
<1>1. TypeOK /\ TypeOK' /\ now \in Nat /\ now' = now + 1 /\ polled = running /\ steady'
  BY DEF Books, Ledger, TypeOK, Advance
<1>2. Time = DayTicks - 1 /\ Time' = 0 /\ Weekday = Pred(Weekday') /\ windows' = windows
  BY <1>1, ClockAdvances DEF Advance, config
<1>3. Weekday' \in Weekdays /\ windows \in [Weekdays -> SUBSET Window]
      /\ daily' \in [Weekdays -> SUBSET Nat]
  <2>1. Weekday' \in Weekdays
    <3>1. now + 1 \in Nat /\ Weeklong \in Nat /\ Weeklong > 0 /\ DayTicks \in Nat /\ DayTicks > 0
      BY <1>1, Clock, CalendarAssumption
    <3>2. (now + 1) \div DayTicks \in Nat
      BY <3>1, Divides
    <3>3. ((now + 1) \div DayTicks) % Weeklong \in 0..(Weeklong - 1)
      BY <3>1, <3>2, Divides
    <3> QED BY <1>1, <3>3 DEF Weekday, Date, Weekdays
  <2> QED BY <1>1, <2>1, LimitsTyped, CutoffsAssumption DEF TypeOK
<1>4. ~InBlockedWindow(windows, Weekday, Time)
  BY <1>1 DEF Passed
<1>5. CASE \E w \in windows[Weekday'] : w.start = 0
  BY <1>2, <1>5
<1>6. CASE \A w \in windows[Weekday'] : w.start # 0
  <2>1. ~InBlockedWindow(windows, Weekday', 0)
    BY <1>2, <1>3, <1>4, <1>6, FreeMidnight
  <2>2. ASSUME NEW A \in SUBSET Apps, NEW limit \in Nat
        PROVE  UsedMinutes(A)' <= limit + GRACE_MINUTES
    <3>1. Counted(A)' = 0
      BY CountedAdvance
    <3>2. UsedMinutes(A)' = 0 \div PerMinute
      BY <1>1, <3>1 DEF Books, UsedIsCounted
    <3>3. limit + GRACE_MINUTES \in Int /\ 0 < (limit + GRACE_MINUTES + 1) * PerMinute
      BY TopPositive DEF Top, GRACE_MINUTES
    <3> QED BY <3>2, <3>3, BelowMinutes
  <2>3. daily'[Weekday'] \subseteq Nat /\ AppLimit[app][Weekday'] \subseteq Nat
    BY <1>3, CutoffsAssumption
  <2> QED BY <1>2, <2>1, <2>2, <2>3 DEF CheckAllowed, Limits
<1> QED BY <1>5, <1>6

(* Whoever is cut off in the next tick has been warned. *)
LEMMA WarnedStep ==
  ASSUME Books, Books', Passed, Looked, WarnedBeforeCut, [Next]_vars,
         PerMinute > 1 \/ LeadMinutes > 0,
         Cardinality(Pids) <= (LeadMinutes + 2) * PerMinute
  PROVE  WarnedBeforeCut'
<1>1. TypeOK /\ Began /\ now \in Nat
  BY DEF Books, Ledger, TypeOK
<1> SUFFICES ASSUME steady', NEW p \in running', session'[p].known,
                    now' - session'[p].start > 1, ~session'[p].warned,
                    NEW app \in Apps, app = session'[p].app
             PROVE  \/ CheckAllowed(app)'
                    \/ Time' = 0 /\ \E w \in windows'[Weekday'] : w.start = 0
  <2>1. \A r \in running' : session'[r].app \in Apps
    BY DEF Books, Ledger, TypeOK, Session
  <2> QED BY <2>1 DEF WarnedBeforeCut
<1>2. session'[p].start \in Nat
  BY DEF Books, Ledger, TypeOK, Session
<1>3. CASE Advance
  <2>1. /\ p \in running /\ now' = now + 1
        /\ session[p].app = app /\ session[p].start = session'[p].start
        /\ session[p].known /\ ~session[p].warned
    <3>1. p \in running /\ now' = now + 1
      BY <1>3 DEF Advance
    <3> QED BY <1>1, <1>3, <3>1, AdvanceSessions
  <2>2. session[p].start < now
    BY <1>1, <1>2, <2>1
  <2>3. CASE now' % DayTicks # 0
    <3>1. steady
      BY <1>3, <2>3 DEF Advance
    <3> QED BY <1>3, <2>1, <2>2, <2>3, <3>1, SameDayWarned
  <2>4. CASE now' % DayTicks = 0
    BY <1>3, <2>1, <2>4, MidnightAllows
  <2> QED BY <2>3, <2>4
<1>4. CASE ~Advance
  <2>1. now' = now
    BY <1>1, <1>4, StepCases DEF Launch, Stops, Still
  <2>2. session'[p].start < now
    BY <1>1, <1>2, <2>1
  <2>3. /\ p \in running
        /\ session[p].app = app
        /\ session[p].start = session'[p].start /\ session[p].known
        /\ session[p] \in Session /\ session'[p] \in Session
        /\ Tick \/ session'[p].warned = session[p].warned
    BY <2>1, <2>2, OldSessions
  <2>4. ~session[p].warned
    <3>1. CASE Tick
      <4>1. session[p].warned => session'[p] = session[p]
        BY <2>3, <3>1 DEF Tick
      <4> QED BY <4>1
    <3> QED BY <2>3, <3>1
  <2>5. /\ CheckAllowed(app)' = CheckAllowed(app)
        /\ windows' = windows /\ Weekday' = Weekday /\ Time' = Time /\ steady
    BY <2>1, VerdictStays, QuietStep, SameDay DEF Books
  <2>6. \/ CheckAllowed(app)
        \/ Time = 0 /\ \E w \in windows[Weekday] : w.start = 0
    BY <2>1, <2>3, <2>4, <2>5 DEF WarnedBeforeCut
  <2> QED BY <2>5, <2>6
<1> QED BY <1>3, <1>4

(* So every session is warned, or far from its cut. *)
LEMMA LookedHolds == Spec => []Looked
<1>1. Init => Looked
  BY DEF Init, Looked
<1>2. Books /\ Books' /\ Looked /\ [Next]_vars => Looked'
  BY LookedStep
<1> QED BY <1>1, <1>2, BooksHold, PTL DEF Spec

(* Nobody is cut off unwarned, if the ticker sees a window before it       *)
(* starts - it passes more than once in a minute, or has a lead - and the  *)
(* wrappers cannot use up lead, grace and a minute in one tick.            *)
THEOREM WarnedBeforeCutHolds ==
  ASSUME PerMinute > 1 \/ LeadMinutes > 0,
         Cardinality(Pids) <= (LeadMinutes + 2) * PerMinute
  PROVE  Spec => []WarnedBeforeCut
<1>1. Init => WarnedBeforeCut
  BY DEF Init, WarnedBeforeCut
<1>2. Books /\ Books' /\ Passed /\ Looked /\ WarnedBeforeCut /\ [Next]_vars => WarnedBeforeCut'
  BY WarnedStep
<1> QED BY <1>1, <1>2, BooksHold, PassedHolds, LookedHolds, PTL DEF Spec

-----------------------------------------------------------------------------
(* Until a promise is over, no window starts and no budget of the app can  *)
(* be used up by one session.                                              *)
Safe(app, until) ==
  /\ CheckAllowed(app)
  /\ \A w \in windows[Weekday] : StartOf(w) > Time => Today + StartOf(w) >= until
  /\ \A limit \in daily[Weekday] : Counted(Apps) + (until - now) < (limit + 1) * PerMinute
  /\ \A limit \in AppLimit[app][Weekday] :
       Counted({app}) + (until - now) < (limit + 1) * PerMinute

Promised ==
  steady =>
    \A p \in {r \in running : /\ session[r].warned /\ session[r].alone
                              /\ now < session[r].until} :
      Safe(session[p].app, session[p].until)

(* What has been counted is a number. *)
LEMMA CountedInt ==
  ASSUME TypeOK, NEW A \in SUBSET Apps
  PROVE  Counted(A) \in Int
BY TookTyped DEF Counted

(* A warning promises no more than what is left. *)
LEMMA WarningSafe ==
  ASSUME Books, steady, NEW app \in Apps, CheckAllowed(app), NEW m \in Nat, m > 0,
         \A left \in Left(app) : left >= m
  PROVE  Safe(app, now + PerMinute * m)
<1>1. TypeOK /\ Began /\ now \in Nat /\ PerMinute \in Nat /\ PerMinute > 0
  BY CalendarAssumption DEF Books, Ledger, TypeOK
<1>2. now = Today + Time /\ Today \in Nat /\ Time \in Nat
  BY <1>1, Clock
<1>3. PerMinute * m \in Nat
  BY <1>1
<1>4. ASSUME NEW w \in windows[Weekday], StartOf(w) > Time
      PROVE  Today + StartOf(w) >= now + PerMinute * m
  <2> DEFINE d == StartOf(w) - Time
  <2>1. w \in Window
    BY <1>1, LimitsTyped, TickOfWeek
  <2>2. StartOf(w) \in Nat /\ d \in Int
    BY <1>2, <2>1, WindowTimes
  <2>3. d \div PerMinute \in Left(app)
    BY <1>4 DEF Left, MinutesUntilWindowStarts
  <2>4. d \div PerMinute >= m
    BY <2>3
  <2> HIDE DEF d
  <2>5. d \div PerMinute \in Int
    BY <1>1, <2>2
  <2>6. ~(d \div PerMinute <= m - 1)
    BY <2>4, <2>5
  <2>7. d >= ((m - 1) + 1) * PerMinute
    <3>1. m - 1 \in Int /\ ((m - 1) + 1) * PerMinute \in Int
      BY <1>1
    <3> QED BY <2>2, <2>6, <3>1, BelowMinutes
  <2>8. ((m - 1) + 1) * PerMinute = PerMinute * m
    BY <1>1
  <2> QED BY <1>2, <1>3, <2>2, <2>7, <2>8 DEF d
<1>5. ASSUME NEW A \in SUBSET Apps, NEW limit \in Nat, limit - UsedMinutes(A) >= m
      PROVE  Counted(A) + ((now + PerMinute * m) - now) < (limit + 1) * PerMinute
  <2> DEFINE used == Counted(A)
  <2>1. UsedMinutes(A) = used \div PerMinute /\ UsedMinutes(A) \in Nat
    BY <1>1, UsedNat DEF Books, UsedIsCounted
  <2>2. used \in Int
    BY <1>1, CountedInt
  <2> HIDE DEF used
  <2>3. limit - m \in Int /\ used \div PerMinute <= limit - m
    BY <1>5, <2>1
  <2>4. used < ((limit - m) + 1) * PerMinute
    BY <2>2, <2>3, BelowMinutes
  <2>5. ((limit - m) + 1) * PerMinute + PerMinute * m = (limit + 1) * PerMinute
    BY <1>1
  <2>6. ((limit - m) + 1) * PerMinute \in Int
    BY <1>1
  <2>7. used + ((now + PerMinute * m) - now) < (limit + 1) * PerMinute
    BY <1>1, <1>3, <2>2, <2>4, <2>5, <2>6
  <2> QED BY <2>7 DEF used
<1>6. ASSUME NEW limit \in daily[Weekday]
      PROVE  Counted(Apps) + ((now + PerMinute * m) - now) < (limit + 1) * PerMinute
  <2>1. <<limit, UsedMinutes(Apps)>> \in Limits(app) /\ limit \in Nat
    BY <1>1, LimitsTyped DEF Limits
  <2> QED BY <1>5, <2>1, LeftHas
<1>7. ASSUME NEW limit \in AppLimit[app][Weekday]
      PROVE  Counted({app}) + ((now + PerMinute * m) - now) < (limit + 1) * PerMinute
  <2>1. <<limit, UsedMinutes({app})>> \in Limits(app) /\ limit \in Nat
    BY <1>1, LimitsTyped DEF Limits
  <2> QED BY <1>5, <2>1, LeftHas
<1> QED BY <1>4, <1>6, <1>7 DEF Safe

(* Between two ticks it stays safe. *)
LEMMA SafeStays ==
  ASSUME Books, Books', [Next]_vars, now' = now, steady', NEW app \in Apps, NEW until,
         Safe(app, until)
  PROVE  Safe(app, until)'
<1>1. /\ windows' = windows /\ daily' = daily
      /\ \A A \in SUBSET Apps : Took(A)' = Took(A)
  BY QuietStep DEF Books
<1>2. Weekday' = Weekday /\ Time' = Time /\ Today' = Today
  BY SameDay
<1>3. CheckAllowed(app)' = CheckAllowed(app)
  BY VerdictStays
<1>4. Counted(Apps)' = Counted(Apps) /\ Counted({app})' = Counted({app})
  <2>1. \A A \in SUBSET Apps : Counted(A)' = Counted(A)
    BY <1>1, <1>2 DEF Counted
  <2> QED BY <2>1
<1> QED BY <1>1, <1>2, <1>3, <1>4 DEF Safe

(* And over a tick of its own session alone, until it is over. *)
LEMMA SafeAdvance ==
  ASSUME Books, Books', Advance, now' % DayTicks # 0, steady,
         NEW p, running = {p}, NEW app \in Apps, NEW until \in Nat, now' < until,
         Safe(app, until)
  PROVE  Safe(app, until)'
<1>1. TypeOK /\ now \in Nat /\ now' = now + 1 /\ steady'
  BY DEF Books, Ledger, TypeOK, Advance
<1>2. /\ Weekday' = Weekday /\ Time' = Time + 1 /\ Today' = Today
      /\ windows' = windows /\ daily' = daily
  BY <1>1, ClockAdvances DEF Advance, config
<1>3. /\ now = Today + Time /\ Today \in Nat /\ Time \in Nat /\ Weekday \in Weekdays
      /\ windows \in [Weekdays -> SUBSET Window]
      /\ \A w \in windows[Weekday] : StartOf(w) \in Nat
  <2>1. now = Today + Time /\ Today \in Nat /\ Time \in Nat /\ Weekday \in Weekdays
    BY <1>1, Clock
  <2>2. windows \in [Weekdays -> SUBSET Window]
    BY <1>1, LimitsTyped
  <2> QED BY <2>1, <2>2, WindowTimes
<1>4. Cardinality(running) = 1
  BY FS_Singleton
<1>5. ASSUME NEW A \in SUBSET Apps, NEW limit \in Nat,
             Counted(A) + (until - now) < (limit + 1) * PerMinute
      PROVE  /\ Counted(A)' + (until - now') < (limit + 1) * PerMinute
             /\ UsedMinutes(A)' <= limit + GRACE_MINUTES
  <2>1. Counted(A) \in Int /\ Counted(A)' \in Int /\ Counted(A)' <= Counted(A) + 1
    BY <1>4, CountedAdvance
  <2>2. UsedMinutes(A)' = Counted(A)' \div PerMinute
    BY <1>1 DEF Books, UsedIsCounted
  <2> DEFINE used == Counted(A)
             used2 == Counted(A)'
  <2>3. (limit + 1) * PerMinute \in Int /\ PerMinute \in Nat /\ PerMinute > 0
    BY CalendarAssumption
  <2>4. used \in Int /\ used2 \in Int /\ used2 <= used + 1
    BY <2>1
  <2>5. used + (until - now) < (limit + 1) * PerMinute
    BY <1>5
  <2> HIDE DEF used, used2
  <2>6. used2 + (until - now') < (limit + 1) * PerMinute
    BY <1>1, <2>3, <2>4, <2>5
  <2>7. used2 < (limit + 1) * PerMinute
    BY <1>1, <2>3, <2>4, <2>6
  <2>8. used2 \div PerMinute <= limit
    BY <2>4, <2>7, BelowMinutes
  <2>9. used2 \div PerMinute \in Int
    BY <2>3, <2>4
  <2>10. used2 \div PerMinute <= limit + GRACE_MINUTES
    BY <2>8, <2>9 DEF GRACE_MINUTES
  <2> QED BY <2>2, <2>6, <2>10 DEF used, used2
<1>6. ~InBlockedWindow(windows, Weekday, Time + 1)
  <2>1. ~InBlockedWindow(windows, Weekday, Time)
    BY DEF Safe, CheckAllowed
  <2>2. \A w \in windows[Weekday] : StartOf(w) # Time + 1
    BY <1>1, <1>3 DEF Safe
  <2> QED BY <1>3, <2>1, <2>2, FreeNext
<1>7. \A w \in windows[Weekday] : StartOf(w) > Time + 1 => Today + StartOf(w) >= until
  BY <1>3 DEF Safe
<1>8. ASSUME NEW limit \in daily[Weekday]
      PROVE  /\ Counted(Apps)' + (until - now') < (limit + 1) * PerMinute
             /\ UsedMinutes(Apps)' <= limit + GRACE_MINUTES
  <2>1. limit \in Nat /\ Counted(Apps) + (until - now) < (limit + 1) * PerMinute
    BY <1>1, LimitsTyped DEF Safe
  <2> QED BY <1>5, <2>1
<1>9. ASSUME NEW limit \in AppLimit[app][Weekday]
      PROVE  /\ Counted({app})' + (until - now') < (limit + 1) * PerMinute
             /\ UsedMinutes({app})' <= limit + GRACE_MINUTES
  <2>1. limit \in Nat /\ Counted({app}) + (until - now) < (limit + 1) * PerMinute
    BY <1>1, LimitsTyped DEF Safe
  <2> QED BY <1>5, <2>1
<1>10. CheckAllowed(app)'
  <2>1. ~InBlockedWindow(windows', Weekday', Time')
    BY <1>2, <1>6
  <2>2. ASSUME NEW b \in Limits(app)' PROVE b[2] <= b[1] + GRACE_MINUTES
    <3>1. \/ \E limit \in daily[Weekday] : b = <<limit, UsedMinutes(Apps)'>>
          \/ \E limit \in AppLimit[app][Weekday] : b = <<limit, UsedMinutes({app})'>>
      BY <1>2 DEF Limits
    <3>2. ASSUME NEW limit \in daily[Weekday], b = <<limit, UsedMinutes(Apps)'>>
          PROVE  b[2] <= b[1] + GRACE_MINUTES
      <4>1. UsedMinutes(Apps)' <= limit + GRACE_MINUTES
        BY <1>8
      <4> QED BY <3>2, <4>1
    <3>3. ASSUME NEW limit \in AppLimit[app][Weekday], b = <<limit, UsedMinutes({app})'>>
          PROVE  b[2] <= b[1] + GRACE_MINUTES
      <4>1. UsedMinutes({app})' <= limit + GRACE_MINUTES
        BY <1>9
      <4> QED BY <3>3, <4>1
    <3> QED BY <3>1, <3>2, <3>3
  <2> QED BY <2>1, <2>2 DEF CheckAllowed
<1> QED BY <1>2, <1>7, <1>8, <1>9, <1>10 DEF Safe

(* A promise stays safe while its session runs alone. *)
LEMMA PromisedStep ==
  ASSUME Books, Books', Promised, [Next]_vars
  PROVE  Promised'
<1>1. TypeOK /\ Began /\ now \in Nat
  BY DEF Books, Ledger, TypeOK
<1> SUFFICES ASSUME steady', NEW p \in running', session'[p].warned, session'[p].alone,
                    NEW until \in Nat, until = session'[p].until, now' < until,
                    NEW app \in Apps, app = session'[p].app
             PROVE  Safe(app, until)'
  <2>1. \A r \in running' : session'[r].app \in Apps /\ session'[r].until \in Nat
    BY DEF Books, Ledger, TypeOK, Session
  <2> QED BY <2>1 DEF Promised
<1>2. CASE Advance
  <2>1. /\ p \in running /\ now' = now + 1
        /\ session[p].app = app /\ session[p].until = until
        /\ session[p].warned /\ session[p].alone
        /\ running = {p} /\ now' % DayTicks # 0
    <3>1. p \in running /\ now' = now + 1
      BY <1>2 DEF Advance
    <3> QED BY <1>1, <1>2, <3>1, AdvanceSessions
  <2>2. steady /\ now < until
    <3>1. steady
      BY <1>2, <2>1 DEF Advance
    <3>2. now < until
      BY <1>1, <2>1
    <3> QED BY <3>1, <3>2
  <2>3. Safe(app, until)
    BY <2>1, <2>2 DEF Promised
  <2> QED BY <1>2, <2>1, <2>2, <2>3, SafeAdvance
<1>3. CASE ~Advance
  <2>1. now' = now
    BY <1>1, <1>3, StepCases DEF Launch, Stops, Still
  <2>2. steady
    BY <2>1, QuietStep DEF Books
  <2>3. CASE ~Tick
    <3>1. /\ p \in running /\ session[p].app = app /\ session[p].until = until
          /\ session[p].warned /\ session[p].alone
      <4>1. ASSUME NEW q \in Pids, NEW a \in Apps, Launch(q, a)
            PROVE  p \in running /\ session'[p] = session[p]
        <5>1. p # q
          BY <4>1 DEF Launch
        <5> QED BY <4>1, <5>1 DEF Launch
      <4>2. ASSUME NEW q \in running, Stops(q)
            PROVE  p \in running /\ session'[p] = session[p]
        BY <4>2 DEF Stops
      <4>3. CASE Still
        BY <2>3, <4>3 DEF Still
      <4>4. CASE p \in running /\ session'[p] = session[p]
        BY <4>4
      <4> QED BY <1>1, <1>3, <4>1, <4>2, <4>3, <4>4, StepCases
    <3>2. Safe(app, until)
      BY <2>1, <2>2, <3>1 DEF Promised
    <3> QED BY <2>1, <3>2, SafeStays
  <2>4. CASE Tick
    <3>1. p \in running /\ session[p] \in Session /\ session[p].app = app
      BY <1>1, <2>4, TickIsStill, SessionsTyped DEF Still
    <3>2. CASE session[p].known /\ ~session[p].warned /\ Warning(p) # {}
      <4> DEFINE m == CHOOSE m \in Warning(p) : TRUE
                 allowed == CheckAllowed(session[p].app)
      <4>1. session'[p] = [session[p] EXCEPT !.warned = TRUE, !.until = now + PerMinute * m,
                                             !.alone = allowed]
        BY <2>4, <3>1, <3>2 DEF Tick
      <4>2. m \in Warning(p) /\ m \in Nat
        BY <1>1, <3>1, <3>2, WarningNat
      <4>3. m = 0 \/ (Left(app) # {} /\ m = Min(Left(app)))
        BY <3>1, <4>2 DEF Warning
      <4> HIDE DEF m
      <4>4. until = now + PerMinute * m /\ CheckAllowed(app)
        <5>1. allowed \in BOOLEAN
          BY DEF CheckAllowed
        <5> HIDE DEF allowed
        <5>2. session'[p].until = now + PerMinute * m /\ session'[p].alone = allowed
          BY <3>1, <4>1, <5>1 DEF Session
        <5>3. allowed
          BY <5>2
        <5> QED BY <3>1, <5>2, <5>3 DEF allowed
      <4>5. m > 0
        <5>1. m = 0 => until = now
          BY <1>1, <4>4, CalendarAssumption
        <5> QED BY <1>1, <2>1, <4>2, <5>1
      <4>6. \A left \in Left(app) : left >= m
        <5>1. /\ Min(Left(app)) \in Left(app) /\ Left(app) \in SUBSET Int
              /\ \A y \in Left(app) : Min(Left(app)) <= y
          BY <1>1, <4>3, <4>5, LeftLeast
        <5> QED BY <4>3, <4>5, <5>1
      <4>7. Safe(app, until)
        BY <2>2, <4>2, <4>4, <4>5, <4>6, WarningSafe
      <4> QED BY <2>1, <4>7, SafeStays
    <3>3. CASE ~(session[p].known /\ ~session[p].warned /\ Warning(p) # {})
      <4>1. session'[p] = session[p]
        BY <2>4, <3>1, <3>3 DEF Tick
      <4>2. Safe(app, until)
        BY <2>1, <2>2, <3>1, <4>1 DEF Promised
      <4> QED BY <2>1, <4>2, SafeStays
    <3> QED BY <3>2, <3>3
  <2> QED BY <2>3, <2>4
<1> QED BY <1>2, <1>3

(* The warning is honest, whatever the limits and windows: who runs alone  *)
(* from it on is not cut off on that day before the minutes it gave.       *)
THEOREM WarningHonestHolds == Spec => []WarningHonest
<1>1. Init => Promised
  BY DEF Init, Promised
<1>2. Books /\ Books' /\ Promised /\ [Next]_vars => Promised'
  BY PromisedStep
<1>3. Books /\ Promised => WarningHonest
  <2> SUFFICES ASSUME Books, Promised, steady,
                      NEW p \in running, session[p].warned, session[p].alone,
                      ~(now >= session[p].until)
               PROVE  CheckAllowed(session[p].app)
    BY DEF WarningHonest
  <2>1. now \in Nat /\ session[p].until \in Nat
    BY DEF Books, Ledger, TypeOK, Session
  <2>2. Safe(session[p].app, session[p].until)
    BY <2>1 DEF Promised
  <2> QED BY <2>2 DEF Safe
<1> QED BY <1>1, <1>2, <1>3, BooksHold, PTL DEF Spec
=============================================================================
