--------------------------- MODULE DashboardProofs ---------------------------
(***************************************************************************)
(* What the Control Center's window shows and what it notifies, for any    *)
(* number of children and of polls in flight, and any faults.              *)
(***************************************************************************)
EXTENDS Dashboard, WellFoundedInduction, TLAPS

(* A poll under way is of a child. *)
Poll == {r \in [at : {"idle", "asking", "done"}, host : Hosts \cup {None}, ok : BOOLEAN, events : Nat] :
           r.at = "asking" => r.host \in Hosts}

(* The parts of TypeOK that matter to the display. *)
Rows ==
  /\ log \in [Hosts -> Seq(Nat)]
  /\ selected \in Hosts \cup {None}
  /\ poll \in [Workers -> Poll]

(* A worker without a poll has the type of one. *)
LEMMA IdleType == Idle \in Poll
BY DEF Idle, Poll

(* A new poll of h leaves the label on h and a worker with h. *)
LEMMA Polled ==
  ASSUME NEW h \in Hosts, poll \in [Workers -> Poll], StartPoll(h)
  PROVE  /\ shown' = h
         /\ poll' \in [Workers -> Poll]
         /\ \E w \in Workers : poll'[w].host = h
<1>1. PICK w \in Workers : poll' = [poll EXCEPT ![w] = [Idle EXCEPT !.at = "asking", !.host = h]]
  BY DEF StartPoll
<1>2. [Idle EXCEPT !.at = "asking", !.host = h] \in Poll
  BY DEF Idle, Poll
<1>3. poll' \in [Workers -> Poll]
  BY <1>1, <1>2
<1>4. poll'[w].host = h
  BY <1>1 DEF Idle
<1> QED BY <1>3, <1>4 DEF StartPoll

(* Neither the worker's answer nor its absence changes whose poll it is. *)
LEMMA SameHosts ==
  ASSUME Rows, NEW w \in Workers, Ssh(w)
  PROVE  poll' \in [Workers -> Poll] /\ \A v \in Workers : poll'[v].host = poll[v].host
<1> USE DEF Rows
<1>1. poll[w] \in Poll /\ poll[w].host \in Hosts
  BY DEF Ssh, Answer, NoAnswer, Poll
<1>2. PICK r \in Poll : r.host = poll[w].host /\ poll' = [poll EXCEPT ![w] = r]
  <2>1. CASE Answer(w)
    <3> DEFINE r == [poll[w] EXCEPT !.at = "done", !.ok = TRUE, !.events = Len(log[poll[w].host])]
    <3>1. Len(log[poll[w].host]) \in Nat
      BY <1>1
    <3>2. r \in Poll /\ r.host = poll[w].host
      BY <1>1, <3>1 DEF Poll
    <3>3. poll' = [poll EXCEPT ![w] = r]
      BY <2>1 DEF Answer
    <3> QED BY <3>2, <3>3
  <2>2. CASE NoAnswer(w)
    <3> DEFINE r == [poll[w] EXCEPT !.at = "done"]
    <3>1. r \in Poll /\ r.host = poll[w].host
      BY <1>1 DEF Poll
    <3>2. poll' = [poll EXCEPT ![w] = r]
      BY <2>2 DEF NoAnswer
    <3> QED BY <3>1, <3>2
  <2> QED BY <2>1, <2>2 DEF Ssh
<1> QED BY <1>2

(* The label is the selected child's, and the events are or will be.       *)
LEMMA DisplayStep ==
  ASSUME Rows, SelectedShown, [Next]_vars
  PROVE  Rows' /\ SelectedShown'
<1> USE DEF Rows, SelectedShown
<1>1. ASSUME NEW h \in Hosts, Event(h) PROVE Rows' /\ SelectedShown'
  BY <1>1 DEF Event, window
<1>2. ASSUME NEW h \in Hosts, Select(h) PROVE Rows' /\ SelectedShown'
  BY <1>2, Polled DEF Select
<1>3. CASE Paired
  BY <1>3 DEF Paired
<1>4. CASE PollSelectedHost
  BY <1>4, Polled DEF PollSelectedHost
<1>5. ASSUME NEW w \in Workers, Ssh(w) PROVE Rows' /\ SelectedShown'
  BY <1>5, SameHosts DEF Ssh, Answer, NoAnswer, window
<1>6. ASSUME NEW w \in Workers, ApplyPollResult(w) PROVE Rows' /\ SelectedShown'
  <2>1. selected' = selected /\ log' = log /\ poll' = [poll EXCEPT ![w] = Idle]
    BY <1>6 DEF ApplyPollResult
  <2>2. Rows'
    BY <2>1, IdleType
  <2>3. CASE poll[w].host = selected
    <3>1. shown' = selected /\ listed' = selected
      BY <1>6, <2>3 DEF ApplyPollResult, Display
    <3> QED BY <2>1, <2>2, <3>1
  <2>4. CASE poll[w].host # selected
    <3>1. shown' = shown /\ listed' = listed
      BY <1>6, <2>4 DEF ApplyPollResult, Display
    <3>2. \A v \in Workers : poll[v].host = selected => poll'[v].host = selected
      BY <2>1, <2>4
    <3> QED BY <2>1, <2>2, <3>1, <3>2
  <2> QED BY <2>3, <2>4
<1>7. CASE UnlockSelectedApp
  BY <1>7 DEF UnlockSelectedApp
<1>8. CASE ApplyUnlockResult
  <2>1. unlock # selected \/ selected \in Hosts \/ selected = None
    OBVIOUS
  <2>2. CASE selected = None
    BY <1>8, <2>2 DEF ApplyUnlockResult
  <2>3. CASE selected \in Hosts /\ StartPoll(selected)
    BY <1>8, <2>3, Polled DEF ApplyUnlockResult
  <2>4. CASE shown' \in {shown, selected} /\ poll' = poll
    BY <1>8, <2>4 DEF ApplyUnlockResult
  <2> QED BY <1>8, <2>2, <2>3, <2>4 DEF ApplyUnlockResult
<1>9. CASE Reopen
  BY <1>9, IdleType DEF Reopen
<1>10. CASE UNCHANGED vars
  BY <1>10 DEF vars, window
<1> QED
  BY <1>1, <1>2, <1>3, <1>4, <1>5, <1>6, <1>7, <1>8, <1>9, <1>10 DEF Next

(* The window never speaks of a child that is not selected                 *)
(* (SelectedShown), however many polls come back in whatever order.        *)
THEOREM SelectedShownHolds == Spec => []SelectedShown
<1>1. Init => Rows /\ SelectedShown
  BY IdleType DEF Init, Rows, SelectedShown
<1>2. Rows /\ SelectedShown /\ [Next]_vars => Rows' /\ SelectedShown'
  BY DisplayStep
<1> QED BY <1>1, <1>2, PTL DEF Spec

-----------------------------------------------------------------------------
(* Bounded times have a latest. *)
LEMMA LatestOf ==
  ASSUME NEW T \in SUBSET Nat, NEW b \in Nat, \A u \in T : u <= b, NEW e \in T
  PROVE  Latest(T) \in T /\ \A u \in T : u <= Latest(T)
<1> DEFINE Above == {m \in Nat : \A u \in T : u <= m}
           R == OpToRel(<, Nat)
<1>1. PICK m \in Above : \A k \in Above : ~(<<k, m>> \in R)
  <2>1. Above \subseteq Nat /\ b \in Above
    OBVIOUS
  <2> HIDE DEF Above, R
  <2>2. IsWellFoundedOn(R, Nat)
    BY NatLessThanWellFounded, Zenon DEF R
  <2> QED BY <2>1, <2>2, WFMin
<1>2. \A k \in Above : ~(k < m)
  <2>1. ASSUME NEW k \in Above, k < m PROVE <<k, m>> \in R
    BY <2>1, Zenon DEF OpToRel
  <2> QED BY <1>1, <2>1
<1>3. m \in T
  <2> SUFFICES ASSUME m \notin T PROVE FALSE
    OBVIOUS
  <2>1. m \in Nat /\ e \in Nat /\ e <= m /\ e # m
    OBVIOUS
  <2>2. m - 1 \in Above
    <3>1. \A u \in T : u \in Nat /\ u <= m /\ u # m
      OBVIOUS
    <3> QED BY <2>1, <3>1
  <2> QED BY <1>2, <2>1, <2>2
<1>4. \A u \in T : u <= m
  OBVIOUS
<1> HIDE DEF Above
<1> QED BY <1>3, <1>4 DEF Latest

(* A report under way names events that happened; the mark of a child is   *)
(* not older than any event notified of it, and while there is no mark     *)
(* every report of the child under way names what was notified before.     *)
NoticeInv ==
  /\ \A h \in Hosts : \A i \in DOMAIN log[h] : log[h][i] <= MaxEvents
  /\ \A w \in Workers :
       /\ poll[w].ok => poll[w].at = "done"
       /\ poll[w].at # "idle" => poll[w].host \in Hosts
       /\ poll[w].ok => poll[w].events <= Len(log[poll[w].host])
  /\ \A h \in Hosts : \A i \in DOMAIN log[h] :
       <<h, i>> \in notified =>
         IF mark[h] # None THEN log[h][i] <= mark[h]
         ELSE \A w \in Workers : poll[w].ok /\ poll[w].host = h => i <= poll[w].events
  /\ ~twice

(* A report without news of a mark sets it, one with a mark notifies only  *)
(* what is later than all that was notified.                               *)
LEMMA NotifyStep ==
  ASSUME TypeOK, NoticeInv, NEW h \in Hosts, NEW n \in Nat, n <= Len(log[h]),
         mark[h] = None => \A i \in DOMAIN log[h] : <<h, i>> \in notified => i <= n,
         log' = log, NotifySevereEvents(h, n)
  PROVE  /\ mark' \in [Hosts -> Nat \cup {None}]
         /\ baseline' \in [Hosts -> Nat \cup {None}]
         /\ notified' \in SUBSET Happened'
         /\ twice' = FALSE
         /\ mark'[h] # None
         /\ \A i \in DOMAIN log[h] : <<h, i>> \in notified' => log[h][i] <= mark'[h]
         /\ \A g \in Hosts \ {h} :
              /\ mark'[g] = mark[g]
              /\ \A i \in DOMAIN log[g] : <<g, i>> \in notified' => <<g, i>> \in notified
<1> DEFINE m == IF mark[h] = None THEN 0 ELSE mark[h]
           times == {log[h][i] : i \in 1..n}
           new == {<<h, i>> : i \in {j \in 1..n : ~FirstPoll(h) /\ log[h][j] > mark[h]}}
<1> USE DashboardAssumption DEF TypeOK
<1>1. m \in Nat /\ MaxEvents \in Nat /\ m + MaxEvents \in Nat
  OBVIOUS
<1>2. DOMAIN log[h] = 1..Len(log[h]) /\ 1..n \subseteq DOMAIN log[h]
      /\ \A i \in DOMAIN log[h] : log[h][i] \in Nat
  OBVIOUS
<1>3. {m} \cup times \in SUBSET Nat /\ \A u \in {m} \cup times : u <= m + MaxEvents
  <2>1. \A i \in 1..n : log[h][i] \in Nat /\ log[h][i] <= MaxEvents
    BY <1>2 DEF NoticeInv
  <2> HIDE DEF m, NoticeInv, TypeOK
  <2>2. m <= m + MaxEvents /\ \A k \in Nat : k <= MaxEvents => k <= m + MaxEvents
    BY <1>1
  <2> QED BY <1>1, <2>1, <2>2
<1>4. Latest({m} \cup times) \in Nat /\ \A u \in {m} \cup times : u <= Latest({m} \cup times)
  <2> HIDE DEF m, times
  <2> QED BY <1>1, <1>3, LatestOf
<1>5. mark' = [mark EXCEPT ![h] = Latest({m} \cup times)]
  BY DEF NotifySevereEvents, NewestThisPoll
<1> DEFINE top == Latest({m} \cup times)
<1>6. top \in Nat /\ m <= top /\ \A i \in 1..n : log[h][i] <= top
  BY <1>4
<1>7. mark' = [mark EXCEPT ![h] = top]
  BY <1>5
<1> HIDE DEF top
<1>8. mark'[h] = top /\ mark'[h] # None /\ mark' \in [Hosts -> Nat \cup {None}]
      /\ \A g \in Hosts \ {h} : mark'[g] = mark[g]
  BY <1>6, <1>7
<1>9. baseline' \in [Hosts -> Nat \cup {None}]
  BY DEF NotifySevereEvents
<1>10. notified' = notified \cup new /\ twice' = (twice \/ new \cap notified # {})
  BY DEF NotifySevereEvents
<1>11. new \subseteq {h} \X (1..n)
  OBVIOUS
<1>12. notified' \in SUBSET Happened'
  <2>1. {h} \X (1..n) \subseteq Happened
    BY <1>2 DEF Happened
  <2>2. Happened' = Happened
    BY DEF Happened
  <2> QED BY <1>10, <1>11, <2>1, <2>2
<1>13. new \cap notified = {}
  <2>1. ASSUME NEW j \in 1..n, mark[h] # None, log[h][j] > mark[h], <<h, j>> \in notified
        PROVE  FALSE
    <3>1. log[h][j] <= mark[h]
      BY <1>2, <2>1 DEF NoticeInv
    <3> QED BY <1>2, <2>1, <3>1
  <2>2. ASSUME NEW e \in new PROVE e \notin notified
    <3>1. PICK j \in 1..n : mark[h] # None /\ log[h][j] > mark[h] /\ e = <<h, j>>
      BY <2>2 DEF FirstPoll
    <3> QED BY <2>1, <3>1
  <2> HIDE DEF new
  <2> QED BY <2>2
<1>14. ASSUME NEW i \in DOMAIN log[h], <<h, i>> \in notified' PROVE log[h][i] <= mark'[h]
  <2>1. CASE i \in 1..n
    BY <1>6, <1>8, <2>1
  <2>2. CASE i \notin 1..n
    <3>1. <<h, i>> \in notified
      BY <1>10, <1>11, <1>14, <2>2
    <3>2. mark[h] # None
      BY <1>2, <2>2, <3>1
    <3>3. log[h][i] <= m /\ m = mark[h]
      BY <3>1, <3>2 DEF NoticeInv
    <3> HIDE DEF m
    <3> QED BY <1>1, <1>2, <1>6, <1>8, <3>3
  <2> QED BY <2>1, <2>2
<1>15. ASSUME NEW g \in Hosts \ {h}, NEW i \in DOMAIN log[g], <<g, i>> \in notified'
       PROVE  <<g, i>> \in notified
  BY <1>10, <1>11, <1>15
<1> QED BY <1>8, <1>9, <1>10, <1>12, <1>13, <1>14, <1>15 DEF NoticeInv

Answers == [at : {"idle", "asking", "done"}, host : Hosts \cup {None}, ok : BOOLEAN, events : Nat]

(* What may become of a worker's poll without a notification: it stays, it *)
(* has no report, or it has the report of this moment.                     *)
Fresh(r) ==
  /\ r \in Answers
  /\ r.at # "idle" => r.host \in Hosts
  /\ r.ok => r.at = "done" /\ r.host \in Hosts /\ r.events = Len(log[r.host])

LEMMA FreshPolls ==
  ASSUME TypeOK, NoticeInv, UNCHANGED <<log, notices>>,
         poll' \in [Workers -> Answers],
         \A w \in Workers : poll'[w] = poll[w] \/ Fresh(poll'[w])
  PROVE  NoticeInv'
<1> USE DEF TypeOK, notices
<1>1. ASSUME NEW w \in Workers
      PROVE  /\ poll'[w].ok => poll'[w].at = "done"
             /\ poll'[w].at # "idle" => poll'[w].host \in Hosts
             /\ poll'[w].ok => poll'[w].events <= Len(log[poll'[w].host])
  <2>1. CASE poll'[w] = poll[w]
    BY <2>1 DEF NoticeInv
  <2>2. CASE Fresh(poll'[w])
    <3>1. poll'[w].ok => poll'[w].events \in Nat /\ poll'[w].events = Len(log[poll'[w].host])
      BY <2>2 DEF Fresh, Answers
    <3> QED BY <2>2, <3>1 DEF Fresh
  <2> QED BY <2>1, <2>2
<1>2. ASSUME NEW h \in Hosts, NEW i \in DOMAIN log[h], <<h, i>> \in notified, mark[h] = None,
             NEW w \in Workers, poll'[w].ok, poll'[w].host = h
      PROVE  i <= poll'[w].events
  <2>1. CASE poll'[w] = poll[w]
    BY <1>2, <2>1 DEF NoticeInv
  <2>2. CASE Fresh(poll'[w])
    <3>1. poll'[w].events = Len(log[h])
      BY <1>2, <2>2 DEF Fresh
    <3>2. i \in 1..Len(log[h])
      OBVIOUS
    <3> QED BY <3>1, <3>2
  <2> QED BY <2>1, <2>2
<1> QED BY <1>1, <1>2 DEF NoticeInv

(* The worker's part of a poll. *)
LEMMA StartedFresh ==
  ASSUME TypeOK, NEW h \in Hosts, StartPoll(h)
  PROVE  /\ shown' \in Hosts
         /\ poll' \in [Workers -> Answers]
         /\ \A w \in Workers : poll'[w] = poll[w] \/ Fresh(poll'[w])
<1> DEFINE r == [Idle EXCEPT !.at = "asking", !.host = h]
<1>1. PICK w \in Workers : poll' = [poll EXCEPT ![w] = r]
  BY DEF StartPoll
<1>2. Fresh(r)
  BY DEF Idle, Fresh, Answers
<1>3. r \in Answers
  BY <1>2 DEF Fresh
<1> HIDE DEF r
<1> QED BY <1>1, <1>2, <1>3 DEF StartPoll, TypeOK, Answers

LEMMA AnsweredFresh ==
  ASSUME TypeOK, NoticeInv, NEW w \in Workers, Ssh(w)
  PROVE  /\ poll' \in [Workers -> Answers]
         /\ \A v \in Workers : poll'[v] = poll[v] \/ Fresh(poll'[v])
<1>1. /\ poll[w] \in Answers /\ poll \in [Workers -> Answers]
      /\ poll[w].at = "asking" /\ poll[w].host \in Hosts /\ ~poll[w].ok
  BY DEF TypeOK, NoticeInv, Ssh, Answer, NoAnswer, Answers
<1>2. PICK r \in Answers : Fresh(r) /\ poll' = [poll EXCEPT ![w] = r]
  <2>1. CASE Answer(w)
    <3> DEFINE r == [poll[w] EXCEPT !.at = "done", !.ok = TRUE, !.events = Len(log[poll[w].host])]
    <3>1. Len(log[poll[w].host]) \in Nat
      BY <1>1 DEF TypeOK
    <3>2. /\ r \in Answers /\ r.at = "done" /\ r.host = poll[w].host
          /\ r.events = Len(log[poll[w].host])
      BY <1>1, <3>1 DEF Answers
    <3>3. poll' = [poll EXCEPT ![w] = r]
      BY <2>1 DEF Answer
    <3> HIDE DEF r
    <3>4. Fresh(r)
      BY <1>1, <3>2 DEF Fresh
    <3> QED BY <3>2, <3>3, <3>4
  <2>2. CASE NoAnswer(w)
    <3> DEFINE r == [poll[w] EXCEPT !.at = "done"]
    <3>1. r \in Answers /\ r.at = "done" /\ r.host = poll[w].host /\ r.ok = poll[w].ok
      BY <1>1 DEF Answers
    <3>2. poll' = [poll EXCEPT ![w] = r]
      BY <2>2 DEF NoAnswer
    <3> HIDE DEF r
    <3>3. Fresh(r)
      BY <1>1, <3>1 DEF Fresh
    <3> QED BY <3>1, <3>2, <3>3
  <2> QED BY <2>1, <2>2 DEF Ssh
<1> QED BY <1>1, <1>2

LEMMA IdleFresh == Fresh(Idle) /\ Idle \in Answers
BY DEF Fresh, Idle, Answers

(* Every step keeps the types and NoticeInv. *)
LEMMA NoticeStep ==
  ASSUME TypeOK, NoticeInv, [Next]_vars
  PROVE  TypeOK' /\ NoticeInv'
<1> USE DashboardAssumption
<1>1. ASSUME UNCHANGED <<log, notices>>,
             selected' \in Hosts \cup {None}, shown' \in Hosts \cup {None},
             listed' \in Hosts \cup {None}, unlock' \in Hosts \cup {None},
             poll' \in [Workers -> Answers],
             \A w \in Workers : poll'[w] = poll[w] \/ Fresh(poll'[w])
      PROVE  TypeOK' /\ NoticeInv'
  <2>1. NoticeInv'
    BY <1>1, FreshPolls
  <2>2. TypeOK'
    BY <1>1 DEF TypeOK, Answers, notices, Happened
  <2> QED BY <2>1, <2>2
<1>2. ASSUME UNCHANGED <<log, notices, poll>>,
             selected' \in Hosts \cup {None}, shown' \in Hosts \cup {None},
             listed' \in Hosts \cup {None}, unlock' \in Hosts \cup {None}
      PROVE  TypeOK' /\ NoticeInv'
  BY <1>1, <1>2 DEF TypeOK, Answers
<1>3. ASSUME NEW h \in Hosts, Event(h) PROVE TypeOK' /\ NoticeInv'
  <2>1. PICK t \in 1..MaxEvents : log' = [log EXCEPT ![h] = Append(@, t)]
    BY <1>3 DEF Event
  <2>2. UNCHANGED <<selected, shown, listed, poll, unlock, mark, baseline, notified, twice>>
    BY <1>3 DEF Event, window, notices
  <2>3. log' \in [Hosts -> Seq(Nat)]
    BY <2>1 DEF TypeOK
  <2>4. ASSUME NEW g \in Hosts
        PROVE  /\ Len(log[g]) <= Len(log'[g])
               /\ DOMAIN log[g] \subseteq DOMAIN log'[g]
               /\ \A i \in DOMAIN log[g] : log'[g][i] = log[g][i]
               /\ \A i \in DOMAIN log'[g] : log'[g][i] <= MaxEvents
    <3>1. log[g] \in Seq(Nat) /\ \A i \in DOMAIN log[g] : log[g][i] <= MaxEvents
      BY DEF TypeOK, NoticeInv
    <3>2. CASE g = h
      BY <2>1, <3>1, <3>2 DEF TypeOK
    <3>3. CASE g # h
      BY <2>1, <3>1, <3>3 DEF TypeOK
    <3> QED BY <3>2, <3>3
  <2>5. Happened \subseteq Happened'
    BY <2>4 DEF Happened
  <2>6. TypeOK'
    BY <2>2, <2>3, <2>5 DEF TypeOK
  <2>7. ASSUME NEW w \in Workers, poll[w].ok PROVE poll[w].events <= Len(log'[poll[w].host])
    <3>1. poll[w].host \in Hosts /\ poll[w].events <= Len(log[poll[w].host])
          /\ poll[w].events \in Nat
      BY <2>7 DEF NoticeInv, TypeOK
    <3>2. Len(log[poll[w].host]) \in Nat /\ Len(log'[poll[w].host]) \in Nat
      BY <2>3, <3>1 DEF TypeOK
    <3> QED BY <2>4, <3>1, <3>2
  <2>8. \A g \in Hosts : \A i : <<g, i>> \in notified => i \in DOMAIN log[g]
    BY DEF TypeOK, Happened
  <2> QED BY <2>2, <2>4, <2>6, <2>7, <2>8 DEF NoticeInv
<1>4. ASSUME NEW h \in Hosts, Select(h) PROVE TypeOK' /\ NoticeInv'
  BY <1>1, <1>4, StartedFresh DEF Select, TypeOK
<1>5. CASE Paired
  BY <1>2, <1>5 DEF Paired, TypeOK
<1>6. CASE PollSelectedHost
  <2>1. selected \in Hosts /\ StartPoll(selected)
    BY <1>6 DEF PollSelectedHost, TypeOK
  <2> QED BY <1>1, <1>6, <2>1, StartedFresh DEF PollSelectedHost, TypeOK
<1>7. ASSUME NEW w \in Workers, Ssh(w) PROVE TypeOK' /\ NoticeInv'
  <2>1. UNCHANGED <<log, window, unlock, notices>>
    BY <1>7 DEF Ssh, Answer, NoAnswer
  <2> QED BY <1>1, <1>7, <2>1, AnsweredFresh DEF window, TypeOK
<1>8. ASSUME NEW w \in Workers, ApplyPollResult(w) PROVE TypeOK' /\ NoticeInv'
  <2> DEFINE h == poll[w].host
             n == poll[w].events
  <2>1. /\ poll[w].at = "done" /\ poll' = [poll EXCEPT ![w] = Idle]
        /\ log' = log /\ selected' = selected /\ unlock' = unlock
    BY <1>8 DEF ApplyPollResult
  <2>2. /\ poll' \in [Workers -> Answers] /\ poll'[w] = Idle
        /\ \A v \in Workers \ {w} : poll'[v] = poll[v]
    BY <2>1, IdleFresh DEF TypeOK, Answers
  <2>3. h \in Hosts
    BY <2>1 DEF NoticeInv
  <2>4. shown' \in Hosts \cup {None} /\ listed' \in Hosts \cup {None}
    BY <1>8, <2>3 DEF ApplyPollResult, Display, TypeOK
  <2>5. CASE ~poll[w].ok
    <3>1. UNCHANGED notices
      BY <1>8, <2>5 DEF ApplyPollResult
    <3> HIDE DEF h
    <3> QED BY <1>1, <2>1, <2>2, <2>4, <3>1, IdleFresh DEF TypeOK
  <2>6. CASE poll[w].ok
    <3>1. NotifySevereEvents(h, n) /\ n \in Nat /\ n <= Len(log[h])
      BY <1>8, <2>6 DEF ApplyPollResult, NoticeInv, TypeOK
    <3>2. mark[h] = None => \A i \in DOMAIN log[h] : <<h, i>> \in notified => i <= n
      BY <2>3, <2>6 DEF NoticeInv
    <3> HIDE DEF h, n
    <3>3. /\ mark' \in [Hosts -> Nat \cup {None}]
          /\ baseline' \in [Hosts -> Nat \cup {None}]
          /\ notified' \in SUBSET Happened'
          /\ twice' = FALSE
          /\ mark'[h] # None
          /\ \A i \in DOMAIN log[h] : <<h, i>> \in notified' => log[h][i] <= mark'[h]
          /\ \A g \in Hosts \ {h} :
               /\ mark'[g] = mark[g]
               /\ \A i \in DOMAIN log[g] : <<g, i>> \in notified' => <<g, i>> \in notified
      BY <2>1, <2>3, <3>1, <3>2, NotifyStep
    <3>4. TypeOK'
      <4>1. selected' \in Hosts \cup {None} /\ unlock' \in Hosts \cup {None} /\ twice' \in BOOLEAN
            /\ log' \in [Hosts -> Seq(Nat)]
        BY <2>1, <3>3 DEF TypeOK
      <4>2. poll' \in [Workers -> [at : {"idle", "asking", "done"}, host : Hosts \cup {None},
                                   ok : BOOLEAN, events : Nat]]
        BY <2>2 DEF Answers
      <4> QED BY <2>4, <3>3, <4>1, <4>2 DEF TypeOK
    <3>5. Idle.ok = FALSE /\ Idle.at = "idle"
      BY DEF Idle
    <3>6. ASSUME NEW v \in Workers
          PROVE  /\ poll'[v].ok => poll'[v].at = "done" /\ poll[v].ok /\ poll'[v] = poll[v]
                 /\ poll'[v].at # "idle" => poll'[v].host \in Hosts
                 /\ poll'[v].ok => poll'[v].events <= Len(log[poll'[v].host])
      BY <2>2, <3>5 DEF NoticeInv
    <3>7. ASSUME NEW g \in Hosts, NEW i \in DOMAIN log[g], <<g, i>> \in notified'
          PROVE  IF mark'[g] # None THEN log[g][i] <= mark'[g]
                 ELSE \A v \in Workers : poll'[v].ok /\ poll'[v].host = g => i <= poll'[v].events
      <4>1. CASE g = h
        BY <3>3, <3>7, <4>1
      <4>2. CASE g # h
        <5>1. mark'[g] = mark[g] /\ <<g, i>> \in notified
          BY <3>3, <3>7, <4>2
        <5>2. IF mark[g] # None THEN log[g][i] <= mark[g]
              ELSE \A v \in Workers : poll[v].ok /\ poll[v].host = g => i <= poll[v].events
          BY <5>1 DEF NoticeInv
        <5> QED BY <3>6, <5>1, <5>2
      <4> QED BY <4>1, <4>2
    <3>8. NoticeInv'
      BY <2>1, <3>3, <3>6, <3>7 DEF NoticeInv
    <3> QED BY <3>4, <3>8
  <2> QED BY <2>5, <2>6
<1>9. CASE UnlockSelectedApp
  BY <1>2, <1>9 DEF UnlockSelectedApp, TypeOK
<1>10. CASE ApplyUnlockResult
  <2>1. UNCHANGED <<log, selected, listed, notices>> /\ unlock' = None
    BY <1>10 DEF ApplyUnlockResult
  <2>2. CASE shown' \in {shown, selected} /\ poll' = poll
    BY <1>2, <2>1, <2>2 DEF TypeOK
  <2>3. CASE selected \in Hosts /\ StartPoll(selected)
    BY <1>1, <2>1, <2>3, StartedFresh DEF TypeOK
  <2> QED BY <1>10, <2>2, <2>3 DEF ApplyUnlockResult, TypeOK
<1>11. CASE Reopen
  <2>1. /\ UNCHANGED <<log, notified, twice>>
        /\ selected' = None /\ shown' = None /\ listed' = None /\ unlock' = None
        /\ poll' = [w \in Workers |-> Idle]
        /\ mark' = [h \in Hosts |-> None] /\ baseline' = [h \in Hosts |-> None]
    BY <1>11 DEF Reopen
  <2>2. \A w \in Workers : poll'[w] = Idle /\ ~poll'[w].ok /\ poll'[w].at = "idle"
    BY <2>1 DEF Idle
  <2>3. poll' \in [Workers -> Answers]
    BY <2>1, IdleFresh
  <2>4. TypeOK'
    BY <2>1, <2>3 DEF TypeOK, Answers, Happened
  <2>5. NoticeInv'
    BY <2>1, <2>2 DEF NoticeInv
  <2> QED BY <2>4, <2>5
<1>12. CASE UNCHANGED vars
  BY <1>2, <1>12 DEF vars, window, TypeOK
<1> QED
  BY <1>3, <1>4, <1>5, <1>6, <1>7, <1>8, <1>9, <1>10, <1>11, <1>12 DEF Next

(* No severe event is notified twice (NotifiedOnce), for any number of     *)
(* children, events and polls in flight.                                   *)
THEOREM NotifiedOnceHolds == Spec => []NotifiedOnce
<1>1. Init => TypeOK /\ NoticeInv
  <2> SUFFICES ASSUME Init PROVE TypeOK /\ NoticeInv
    OBVIOUS
  <2>1. \A w \in Workers : poll[w] = Idle /\ ~poll[w].ok /\ poll[w].at = "idle"
    BY DEF Init, Idle
  <2>2. poll \in [Workers -> Answers]
    BY IdleFresh DEF Init
  <2>3. \A h \in Hosts : log[h] = <<>>
    BY DEF Init
  <2>4. TypeOK
    <3>1. log \in [Hosts -> Seq(Nat)] /\ notified \in SUBSET Happened
      BY DEF Init
    <3>2. poll \in [Workers -> [at : {"idle", "asking", "done"}, host : Hosts \cup {None},
                                ok : BOOLEAN, events : Nat]]
      BY <2>2 DEF Answers
    <3> QED BY <3>1, <3>2 DEF Init, TypeOK
  <2>5. NoticeInv
    BY <2>1, <2>3 DEF Init, NoticeInv
  <2> QED BY <2>4, <2>5
<1>2. TypeOK /\ NoticeInv /\ [Next]_vars => TypeOK' /\ NoticeInv'
  BY NoticeStep
<1>3. TypeOK /\ NoticeInv => NotifiedOnce
  BY DEF NoticeInv, NotifiedOnce
<1> QED BY <1>1, <1>2, <1>3, PTL DEF Spec
=============================================================================
