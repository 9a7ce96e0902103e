--------------------------- MODULE OverridesProofs ---------------------------
(***************************************************************************)
(* The connection counter, the severity of a failed override and its being *)
(* counted once, for any number of attempts and clients, every threshold,  *)
(* window and cap, and every set of faults.                                *)
(***************************************************************************)
EXTENDS Overrides, FiniteSetTheorems, TLAPS

LEMMA ConnOf ==
  /\ \A a \in Attempts : <<a, "override">> \in Conns /\ <<a, "failed">> \in Conns
  /\ \A o \in Others : <<o, "other">> \in Conns
BY DEF Conns, Grants, Reports

(* Threads can be counted.                                                 *)
LEMMA LiveFinite == IsFiniteSet(Live) /\ Cardinality(Live) \in Nat
<1>1. IsFiniteSet(Grants) /\ IsFiniteSet(Reports) /\ IsFiniteSet(Others \X {"other"})
  BY OverridesAssumption, FS_Product, FS_Singleton DEF Grants, Reports
<1>2. IsFiniteSet(Conns)
  BY <1>1, FS_Union DEF Conns
<1>3. IsFiniteSet(Live)
  BY <1>2, FS_Subset DEF Live
<1> QED BY <1>3, FS_CardinalityType

(* A thread that ends, and one that begins.                                *)
LEMMA OneLess ==
  ASSUME TypeOK, NEW c \in Conns, thread[c] # "none",
         thread' = [thread EXCEPT ![c] = "none"]
  PROVE  Cardinality(Live') = Cardinality(Live) - 1 /\ Cardinality(Live) > 0
<1>1. Live' = Live \ {c} /\ c \in Live
  BY DEF Live, TypeOK
<1>2. Cardinality(Live) # 0
  BY <1>1, LiveFinite, FS_EmptySet
<1> QED BY <1>1, <1>2, LiveFinite, FS_RemoveElement

LEMMA OneMore ==
  ASSUME TypeOK, NEW c \in Conns, NEW t, t # "none", thread[c] = "none",
         thread' = [thread EXCEPT ![c] = t]
  PROVE  Cardinality(Live') = Cardinality(Live) + 1
<1>1. Live' = Live \cup {c} /\ c \notin Live
  BY DEF Live, TypeOK
<1> QED BY <1>1, LiveFinite, FS_AddElement

LEMMA AsMany ==
  ASSUME TypeOK, NEW c \in Conns, NEW t, t # "none", thread[c] # "none",
         thread' = [thread EXCEPT ![c] = t]
  PROVE  Cardinality(Live') = Cardinality(Live)
<1>1. Live' = Live
  BY DEF Live, TypeOK
<1> QED BY <1>1

-----------------------------------------------------------------------------
Reported == {rows[i].attempt : i \in DOMAIN rows}

(* Where the two connections of an attempt may be, given where its CLI is: *)
(* each is made once, and a failure has its row when its thread has done.  *)
Place(a) ==
  LET Busy(c) == c \in pending \/ thread[c] # "none" IN
  /\ Busy(<<a, "override">>) => cli[a] # "idle"
  /\ Busy(<<a, "failed">>) \/ a \in Reported => cli[a] \in {"reporting", "done"}
  /\ a \in Reported => /\ <<a, "failed">> \notin pending
                       /\ thread[<<a, "failed">>] \in {"none", "notifying"}

PlaceInv ==
  /\ \A c \in pending : thread[c] = "none"
  /\ \A a \in Attempts : Place(a)
  /\ \A i, j \in DOMAIN rows : rows[i].attempt = rows[j].attempt => i = j

LEMMA AfterType ==
  ASSUME TypeOK, NEW c, NEW ok \in BOOLEAN, After(c, ok)
  PROVE  cli' \in [Attempts -> {"idle", "asking", "failed", "reporting", "told", "done"}]
BY DEF After, TypeOK

(* The counter counts a thread that runs.                                  *)
LEMMA Slot ==
  ASSUME SlotsExact, NEW c \in Conns, thread[c] # "none"
  PROVE  count - 1 \in Nat
<1>1. c \in Live
  BY DEF Live
<1>2. Cardinality(Live) # 0
  BY <1>1, LiveFinite, FS_EmptySet
<1> QED BY <1>2, LiveFinite DEF SlotsExact, TypeOK

(* Every variable keeps its type, the counter because a slot that is given *)
(* back was taken.                                                         *)
LEMMA TypeStep ==
  ASSUME SlotsExact, [Next]_vars
  PROVE  TypeOK'
<1>1. TypeOK
  BY DEF SlotsExact
<1>2. TypeOK'
  <2> USE <1>1 DEF TypeOK
  <2>1. CASE Advance
    BY <2>1 DEF Advance, socket, warning
  <2>2. ASSUME NEW a \in Attempts, Authenticate(a) PROVE TypeOK'
    <3>1. cli' \in [Attempts -> {"idle", "asking", "failed", "reporting", "told", "done"}]
      BY <2>2 DEF Authenticate
    <3>2. pending' \in SUBSET Conns /\ UNCHANGED <<poisoned, count, thread>>
      BY <2>2, ConnOf DEF Authenticate, Connect, socket
    <3> QED BY <2>2, <3>1, <3>2 DEF Authenticate, warning
  <2>3. ASSUME NEW a \in Attempts, Cancel(a) PROVE TypeOK'
    BY <2>3 DEF Cancel, warning, socket
  <2>4. ASSUME NEW a \in Attempts, HelperTimeout(a) PROVE TypeOK'
    BY <2>4 DEF HelperTimeout, warning, socket
  <2>5. ASSUME NEW a \in Attempts, ReportFailed(a) PROVE TypeOK'
    <3>1. cli' \in [Attempts -> {"idle", "asking", "failed", "reporting", "told", "done"}]
      BY <2>5 DEF ReportFailed
    <3>2. pending' \in SUBSET Conns /\ UNCHANGED <<poisoned, count, thread>>
      BY <2>5, ConnOf DEF ReportFailed, Connect, socket
    <3> QED BY <2>5, <3>1, <3>2 DEF ReportFailed, warning
  <2>6. ASSUME NEW a \in Attempts, ReportTimeout(a) PROVE TypeOK'
    BY <2>6 DEF ReportTimeout, warning, socket
  <2>7. ASSUME NEW o \in Others, OtherConnects(o) PROVE TypeOK'
    BY <2>7, ConnOf DEF OtherConnects, Connect, warning
  <2>8. ASSUME NEW o \in Others, Receive(o) PROVE TypeOK'
    BY <2>8, ConnOf DEF Receive, warning
  <2>9. ASSUME NEW o \in Others, Silent(o) PROVE TypeOK'
    BY <2>9, ConnOf, Slot DEF Silent, Ends, warning
  <2>10. ASSUME NEW c \in Conns, Accept(c) PROVE TypeOK'
    <3>1. CASE count >= Cap
      BY <2>10, <3>1, AfterType DEF Accept, warning
    <3>2. CASE ~(count >= Cap)
      BY <2>10, <3>2 DEF Accept, warning
    <3> QED BY <3>1, <3>2
  <2>11. ASSUME NEW a \in Attempts, HandleOverride(a) PROVE TypeOK'
    <3>1. PICK ok \in BOOLEAN : After(<<a, "override">>, ok)
      BY <2>11 DEF HandleOverride
    <3> QED BY <2>11, <3>1, AfterType, ConnOf, Slot DEF HandleOverride, Locks, Ends, warning
  <2>12. ASSUME NEW a \in Attempts, HandleFailed(a) PROVE TypeOK'
    <3>1. PICK blind \in {FALSE} \cup {"db" \in Faults} :
            LET severity == SeverityFor(IF blind THEN 0 ELSE RecentFailures(asks[a]))
            IN  /\ rows' = Append(rows, [attempt |-> a, at |-> now,
                                         severity |-> severity, blind |-> blind])
                /\ IF severity = "severe"
                     THEN /\ thread' = [thread EXCEPT ![<<a, "failed">>] = "notifying"]
                          /\ UNCHANGED <<count, asks, cli>>
                     ELSE Ends(<<a, "failed">>) /\ After(<<a, "failed">>, TRUE)
      BY <2>12 DEF HandleFailed
    <3> DEFINE severity == SeverityFor(IF blind THEN 0 ELSE RecentFailures(asks[a]))
    <3>2. blind \in BOOLEAN /\ severity \in {"routine", "severe"}
      <4>1. blind \in BOOLEAN
        <5>1. ("db" \in Faults) \in BOOLEAN
          OBVIOUS
        <5> QED BY <5>1
      <4>2. severity \in {"routine", "severe"}
        BY DEF SeverityFor
      <4> QED BY <4>1, <4>2
    <3> HIDE DEF severity
    <3>3. rows' \in Seq(Row)
      BY <3>1, <3>2 DEF Row, severity
    <3>4. /\ thread' \in [Conns -> {"none", "reading", "waiting", "notifying"}]
          /\ count' \in Nat
          /\ cli' \in [Attempts -> {"idle", "asking", "failed", "reporting", "told", "done"}]
      <4>1. CASE severity = "severe"
        BY <3>1, <4>1 DEF severity
      <4>2. CASE severity # "severe"
        BY <2>12, <3>1, <4>2, AfterType, ConnOf, Slot DEF severity, Ends, HandleFailed, Locks
      <4> QED BY <4>1, <4>2
    <3> QED BY <2>12, <3>3, <3>4 DEF HandleFailed, warning
  <2>13. ASSUME NEW a \in Attempts, HandleFailedFails(a) PROVE TypeOK'
    BY <2>13, AfterType, ConnOf, Slot DEF HandleFailedFails, Locks, Ends, warning
  <2>14. ASSUME NEW o \in Others, HandleOther(o) PROVE TypeOK'
    BY <2>14, ConnOf, Slot DEF HandleOther, Locks, Ends, warning
  <2>15. ASSUME NEW c \in Conns, Panic(c) PROVE TypeOK'
    BY <2>15, AfterType DEF Panic, warning
  <2>16. ASSUME NEW a \in Attempts, NotifyReturns(a) PROVE TypeOK'
    BY <2>16, AfterType, ConnOf, Slot DEF NotifyReturns, Ends, warning
  <2>17. CASE TickWarns
    BY <2>17 DEF TickWarns, socket
  <2>18. CASE TriggerReturns
    BY <2>18 DEF TriggerReturns, socket
  <2>19. CASE Crash
    BY <2>19 DEF Crash, warning
  <2>20. CASE Restart
    BY <2>20 DEF Restart, socket, warning
  <2>21. CASE UNCHANGED vars
    BY <2>21 DEF vars, socket, warning
  <2> QED
    BY <2>1, <2>2, <2>3, <2>4, <2>5, <2>6, <2>7, <2>8, <2>9, <2>10, <2>11, <2>12, <2>13, <2>14, <2>15, <2>16, <2>17, <2>18, <2>19, <2>20, <2>21 DEF Next, Override, Handle
<1> QED BY <1>2

(* The counter follows the threads.                                        *)
LEMMA CountStep ==
  ASSUME SlotsExact, PlaceInv, [Next]_vars
  PROVE  SlotsExact'
<1>1. TypeOK' /\ TypeOK
  BY TypeStep DEF SlotsExact
<1> DEFINE Counts == /\ Cardinality(Live) <= count
                     /\ count <= Cap
                     /\ ~poisoned => count = Cardinality(Live)
<1>2. Counts
  BY DEF SlotsExact
<1>3. Counts'
  <2> USE <1>1, <1>2 DEF TypeOK
  <2>s. ASSUME UNCHANGED <<thread, count, poisoned>> PROVE Counts'
    BY <2>s DEF Live
  <2>e. ASSUME NEW c \in Conns, thread[c] # "none", Ends(c), poisoned' = poisoned
        PROVE  Counts'
    <3>1. Cardinality(Live') = Cardinality(Live) - 1
      BY <2>e, OneLess DEF Ends
    <3>2. count' = count - 1
      BY <2>e DEF Ends
    <3>3. ~poisoned' => count = Cardinality(Live)
      BY <2>e
    <3> HIDE DEF TypeOK
    <3>4. count \in Nat
      BY <1>1 DEF TypeOK
    <3>5. Cardinality(Live') <= count'
      BY <1>2, <3>1, <3>2, <3>4, LiveFinite
    <3>6. count' <= Cap
      BY <1>2, <3>2, <3>4, OverridesAssumption
    <3>7. ~poisoned' => count' = Cardinality(Live')
      BY <3>1, <3>2, <3>3
    <3> QED BY <3>5, <3>6, <3>7
  <2>1. CASE Advance
    BY <2>1, <2>s DEF Advance, socket
  <2>2. ASSUME NEW a \in Attempts, Authenticate(a) PROVE Counts'
    BY <2>2, <2>s DEF Authenticate, Connect, socket
  <2>3. ASSUME NEW a \in Attempts, Cancel(a) PROVE Counts'
    BY <2>3, <2>s DEF Cancel, socket
  <2>4. ASSUME NEW a \in Attempts, HelperTimeout(a) PROVE Counts'
    BY <2>4, <2>s DEF HelperTimeout, socket
  <2>5. ASSUME NEW a \in Attempts, ReportFailed(a) PROVE Counts'
    BY <2>5, <2>s DEF ReportFailed, Connect, socket
  <2>6. ASSUME NEW a \in Attempts, ReportTimeout(a) PROVE Counts'
    BY <2>6, <2>s DEF ReportTimeout, socket
  <2>7. ASSUME NEW o \in Others, OtherConnects(o) PROVE Counts'
    BY <2>7, <2>s DEF OtherConnects, Connect
  <2>8. ASSUME NEW o \in Others, Receive(o) PROVE Counts'
    <3>1. Cardinality(Live') = Cardinality(Live)
      BY <2>8, ConnOf, AsMany DEF Receive
    <3> QED BY <2>8, <3>1 DEF Receive
  <2>9. ASSUME NEW o \in Others, Silent(o) PROVE Counts'
    <3>1. thread[<<o, "other">>] # "none" /\ Ends(<<o, "other">>) /\ poisoned' = poisoned
      BY <2>9 DEF Silent
    <3> QED BY <3>1, ConnOf, <2>e
  <2>10. ASSUME NEW c \in Conns, Accept(c) PROVE Counts'
    <3>1. CASE count >= Cap
      BY <2>10, <3>1, <2>s DEF Accept
    <3>2. CASE ~(count >= Cap)
      <4>1. Cardinality(Live') = Cardinality(Live) + 1
        <5>1. thread[c] = "none"
          BY <2>10 DEF Accept, PlaceInv
        <5>2. \E t \in {"waiting", "reading"} : thread' = [thread EXCEPT ![c] = t]
          BY <2>10, <3>2 DEF Accept
        <5> QED BY <5>1, <5>2, OneMore
      <4>2. count' = count + 1 /\ poisoned' = poisoned
        BY <2>10, <3>2 DEF Accept
      <4> QED BY <3>2, <4>1, <4>2, LiveFinite, OverridesAssumption
    <3> QED BY <3>1, <3>2
  <2>11. ASSUME NEW a \in Attempts, HandleOverride(a) PROVE Counts'
    <3>1. thread[<<a, "override">>] # "none" /\ Ends(<<a, "override">>) /\ poisoned' = poisoned
      BY <2>11 DEF HandleOverride, Locks
    <3> QED BY <3>1, ConnOf, <2>e
  <2>12. ASSUME NEW a \in Attempts, HandleFailed(a) PROVE Counts'
    <3> DEFINE c == <<a, "failed">>
    <3>1. c \in Conns /\ thread[c] = "waiting" /\ poisoned' = poisoned
      BY <2>12, ConnOf DEF HandleFailed, Locks
    <3>2. \/ thread' = [thread EXCEPT ![c] = "notifying"] /\ count' = count
          \/ Ends(c)
      BY <2>12 DEF HandleFailed
    <3>3. CASE Ends(c)
      BY <3>1, <3>3, <2>e
    <3>4. CASE thread' = [thread EXCEPT ![c] = "notifying"] /\ count' = count
      <4>1. Cardinality(Live') = Cardinality(Live)
        BY <3>1, <3>4, AsMany
      <4> QED BY <3>1, <3>4, <4>1
    <3> QED BY <3>2, <3>3, <3>4
  <2>13. ASSUME NEW a \in Attempts, HandleFailedFails(a) PROVE Counts'
    <3>1. thread[<<a, "failed">>] # "none" /\ Ends(<<a, "failed">>) /\ poisoned' = poisoned
      BY <2>13 DEF HandleFailedFails, Locks
    <3> QED BY <3>1, ConnOf, <2>e
  <2>14. ASSUME NEW o \in Others, HandleOther(o) PROVE Counts'
    <3>1. thread[<<o, "other">>] # "none" /\ Ends(<<o, "other">>) /\ poisoned' = poisoned
      BY <2>14 DEF HandleOther, Locks
    <3> QED BY <3>1, ConnOf, <2>e
  <2>15. ASSUME NEW c \in Conns, Panic(c) PROVE Counts'
    <3>1. Cardinality(Live') = Cardinality(Live) - 1
      BY <2>15, OneLess DEF Panic
    <3> QED BY <2>15, <3>1, LiveFinite DEF Panic
  <2>16. ASSUME NEW a \in Attempts, NotifyReturns(a) PROVE Counts'
    <3>1. thread[<<a, "failed">>] # "none" /\ Ends(<<a, "failed">>) /\ poisoned' = poisoned
      BY <2>16 DEF NotifyReturns
    <3> QED BY <3>1, ConnOf, <2>e
  <2>17. CASE TickWarns
    BY <2>17, <2>s DEF TickWarns, socket
  <2>18. CASE TriggerReturns
    BY <2>18, <2>s DEF TriggerReturns, socket
  <2>19. CASE Crash
    <3>1. Live' = {}
      BY <2>19 DEF Crash, Live
    <3> QED BY <2>19, <3>1, FS_EmptySet, OverridesAssumption DEF Crash
  <2>20. CASE Restart
    BY <2>20, <2>s DEF Restart, socket
  <2>21. CASE UNCHANGED vars
    BY <2>21, <2>s DEF socket, vars
  <2> QED
    BY <2>1, <2>2, <2>3, <2>4, <2>5, <2>6, <2>7, <2>8, <2>9, <2>10, <2>11, <2>12, <2>13, <2>14, <2>15, <2>16, <2>17, <2>18, <2>19, <2>20, <2>21 DEF Next, Override, Handle
<1> QED BY <1>1, <1>3 DEF SlotsExact

LEMMA RowType ==
  ASSUME TypeOK
  PROVE  \A i \in DOMAIN rows : rows[i].attempt \in Attempts /\ rows[i].at \in Nat
<1>1. \A i \in DOMAIN rows : rows[i] \in Row
  BY DEF TypeOK
<1> QED BY <1>1 DEF Row

(* How far a CLI comes without a connection of its own.                    *)
CliMoves(a) ==
  \/ cli'[a] = cli[a]
  \/ cli[a] = "asking" /\ cli'[a] = "failed"
  \/ cli[a] = "asking" /\ cli'[a] = "told"
  \/ cli[a] = "reporting" /\ cli'[a] = "done"

(* A step that begins nothing keeps PlaceInv.                              *)
LEMMA Settles ==
  ASSUME TypeOK, PlaceInv, pending' \subseteq pending, rows' = rows,
         \A a \in Attempts : CliMoves(a),
         \A c \in Conns : thread'[c] \in {thread[c], "none"}
  PROVE  PlaceInv'
<1>1. \A c \in pending' : thread'[c] = "none"
  BY DEF PlaceInv, TypeOK
<1>2. ASSUME NEW a \in Attempts PROVE Place(a)'
  <2>1. Place(a) /\ CliMoves(a) /\ Reported' = Reported
    BY DEF PlaceInv, Reported
  <2>2. /\ thread'[<<a, "override">>] \in {thread[<<a, "override">>], "none"}
        /\ thread'[<<a, "failed">>] \in {thread[<<a, "failed">>], "none"}
    BY ConnOf
  <2> QED BY <2>1, <2>2 DEF Place, CliMoves
<1> QED BY <1>1, <1>2 DEF PlaceInv

(* What a handled failure adds to the rows.                                *)
LEMMA NewRow ==
  ASSUME TypeOK, NEW a \in Attempts, HandleFailed(a)
  PROVE  \E row \in Row :
           /\ row.attempt = a /\ rows' = Append(rows, row) /\ row.at = now
           /\ row.severity = SeverityFor(IF row.blind THEN 0 ELSE RecentFailures(asks[a]))
<1>1. PICK blind \in {FALSE} \cup {"db" \in Faults} :
        rows' = Append(rows, [attempt |-> a, at |-> now,
                  severity |-> SeverityFor(IF blind THEN 0 ELSE RecentFailures(asks[a])),
                  blind |-> blind])
  BY DEF HandleFailed
<1>2. blind \in BOOLEAN
  <2>1. ("db" \in Faults) \in BOOLEAN
    OBVIOUS
  <2> QED BY <2>1
<1> DEFINE s == SeverityFor(IF blind THEN 0 ELSE RecentFailures(asks[a]))
           row == [attempt |-> a, at |-> now, severity |-> s, blind |-> blind]
<1>3. s \in {"routine", "severe"}
  BY DEF SeverityFor
<1>4. row.blind = blind /\ row.severity = s /\ row.at = now /\ row.attempt = a
  OBVIOUS
<1>5. row \in Row
  <2> HIDE DEF s
  <2> QED BY <1>2, <1>3 DEF Row, TypeOK
<1> WITNESS row \in Row
<1>6. row.severity = SeverityFor(IF row.blind THEN 0 ELSE RecentFailures(asks[a]))
  BY <1>4
<1> QED BY <1>1, <1>4, <1>6

(* PlaceInv is preserved by every step.                                    *)
LEMMA PlaceStep ==
  ASSUME TypeOK, TypeOK', PlaceInv, [Next]_vars
  PROVE  PlaceInv'
<1> USE DEF TypeOK, PlaceInv, Row
<1>1. CASE Advance
  BY <1>1, Settles DEF CliMoves, socket, Advance
<1>2. ASSUME NEW a \in Attempts, Authenticate(a) PROVE PlaceInv'
  <2>1. /\ cli[a] = "idle" /\ cli'[a] \in {"asking", "failed"}
        /\ \A b \in Attempts : b # a => cli'[b] = cli[b]
    BY <1>2 DEF Authenticate
  <2>2. UNCHANGED <<thread, rows>> /\ pending' \subseteq pending \cup {<<a, "override">>}
    BY <1>2 DEF Authenticate, Connect, socket
  <2>3. Place(a)
    OBVIOUS
  <2>4. thread[<<a, "override">>] = "none"
    BY <2>1, <2>3, ConnOf DEF Place
  <2>5. ASSUME NEW b \in Attempts, b # a PROVE Place(b)'
    <3>1. <<b, "override">> # <<a, "override">> /\ <<b, "failed">> # <<a, "override">>
      BY <2>5
    <3> QED BY <2>1, <2>2, <2>5, <3>1 DEF Place, Reported
  <2>6. Place(a)'
    <3>1. <<a, "override">> # <<a, "failed">>
      OBVIOUS
    <3> QED BY <2>1, <2>2, <2>3, <3>1 DEF Place, Reported
  <2>7. \A d \in pending' : thread'[d] = "none"
    BY <2>2, <2>4
  <2> QED BY <2>2, <2>5, <2>6, <2>7
<1>3. ASSUME NEW a \in Attempts, Cancel(a) PROVE PlaceInv'
  <2>1. /\ cli'[a] = "failed" /\ cli[a] = "idle"
        /\ \A b \in Attempts : b # a => cli'[b] = cli[b]
    BY <1>3 DEF Cancel
  <2>2. UNCHANGED <<pending, thread, rows>>
    BY <1>3 DEF Cancel, socket
  <2>3. Place(a)'
    <3>1. Place(a)
      OBVIOUS
    <3> QED BY <2>1, <2>2, <3>1 DEF Place, Reported
  <2>4. ASSUME NEW b \in Attempts, b # a PROVE Place(b)'
    <3>1. Place(b) /\ cli'[b] = cli[b]
      BY <2>1, <2>4
    <3> QED BY <2>2, <3>1 DEF Place, Reported
  <2> QED BY <2>2, <2>3, <2>4
<1>4. ASSUME NEW a \in Attempts, HelperTimeout(a) PROVE PlaceInv'
  BY <1>4, Settles DEF CliMoves, socket, HelperTimeout
<1>5. ASSUME NEW a \in Attempts, ReportFailed(a) PROVE PlaceInv'
  <2>1. /\ cli[a] = "failed" /\ cli'[a] \in {"reporting", "done"}
        /\ \A b \in Attempts : b # a => cli'[b] = cli[b]
    BY <1>5 DEF ReportFailed
  <2>2. UNCHANGED <<thread, rows>> /\ pending' \subseteq pending \cup {<<a, "failed">>}
    BY <1>5 DEF ReportFailed, Connect, socket
  <2>3. Place(a)
    OBVIOUS
  <2>4. thread[<<a, "failed">>] = "none"
    BY <2>1, <2>3, ConnOf DEF Place
  <2>5. ASSUME NEW b \in Attempts, b # a PROVE Place(b)'
    <3>1. <<b, "override">> # <<a, "failed">> /\ <<b, "failed">> # <<a, "failed">>
      BY <2>5
    <3> QED BY <2>1, <2>2, <2>5, <3>1 DEF Place, Reported
  <2>6. Place(a)'
    <3>1. <<a, "failed">> # <<a, "override">>
      OBVIOUS
    <3> QED BY <2>1, <2>2, <2>3, <3>1 DEF Place, Reported
  <2>7. \A d \in pending' : thread'[d] = "none"
    BY <2>2, <2>4
  <2> QED BY <2>2, <2>5, <2>6, <2>7
<1>6. ASSUME NEW a \in Attempts, ReportTimeout(a) PROVE PlaceInv'
  BY <1>6, Settles DEF CliMoves, socket, ReportTimeout
<1>7. ASSUME NEW o \in Others, OtherConnects(o) PROVE PlaceInv'
  <2>1. /\ pending' = pending \cup {<<o, "other">>}
        /\ UNCHANGED <<thread, rows, cli>> /\ thread[<<o, "other">>] = "none"
    BY <1>7 DEF OtherConnects, Connect
  <2>2. ASSUME NEW b \in Attempts PROVE Place(b)'
    <3>1. <<b, "override">> # <<o, "other">> /\ <<b, "failed">> # <<o, "other">>
      OBVIOUS
    <3> QED BY <2>1, <3>1 DEF Place, Reported
  <2> QED BY <2>1, <2>2
<1>8. ASSUME NEW o \in Others, Receive(o) PROVE PlaceInv'
  <2>1. /\ \A d \in Conns : d # <<o, "other">> => thread'[d] = thread[d]
        /\ thread[<<o, "other">>] = "reading"
    BY <1>8 DEF Receive
  <2>2. UNCHANGED <<pending, rows, cli>>
    BY <1>8 DEF Receive
  <2>3. ASSUME NEW b \in Attempts PROVE Place(b)'
    <3>1. <<b, "override">> # <<o, "other">> /\ <<b, "failed">> # <<o, "other">>
      OBVIOUS
    <3>2. /\ thread'[<<b, "override">>] = thread[<<b, "override">>]
          /\ thread'[<<b, "failed">>] = thread[<<b, "failed">>]
      BY <2>1, <3>1, ConnOf
    <3> QED BY <2>2, <3>2 DEF Place, Reported
  <2> QED BY <2>1, <2>2, <2>3
<1>9. ASSUME NEW o \in Others, Silent(o) PROVE PlaceInv'
  <2>1. \A d \in Conns : thread'[d] \in {thread[d], "none"}
    BY <1>9, ConnOf DEF Silent, Ends
  <2> QED BY <1>9, <2>1, Settles DEF Silent, CliMoves
<1>10. ASSUME NEW c \in Conns, Accept(c) PROVE PlaceInv'
  <2>1. CASE count >= Cap
    <3>1. After(c, FALSE) /\ UNCHANGED <<thread, rows>> /\ pending' = pending \ {c}
      BY <1>10, <2>1 DEF Accept
    <3>2. \A b \in Attempts : CliMoves(b)
      BY <3>1 DEF After, CliMoves
    <3> QED BY <3>1, <3>2, Settles
  <2>2. CASE ~(count >= Cap)
    <3>1. \A d \in Conns : d # c => thread'[d] = thread[d]
      BY <1>10, <2>2 DEF Accept
    <3>2. c \in pending /\ pending' = pending \ {c} /\ UNCHANGED <<rows, cli>>
      BY <1>10, <2>2 DEF Accept
    <3>3. ASSUME NEW b \in Attempts PROVE Place(b)'
      <4>1. Place(b)
        OBVIOUS
      <4>2. \A d \in Conns : d \in pending' \/ thread'[d] # "none" => d \in pending \/ thread[d] # "none"
        BY <3>1, <3>2
      <4>3. b \in Reported => c # <<b, "failed">>
        BY <3>2, <4>1 DEF Place
      <4> QED BY <3>1, <3>2, <4>1, <4>2, <4>3, ConnOf DEF Place, Reported
    <3>4. \A d \in pending' : thread'[d] = "none"
      BY <3>1, <3>2
    <3> QED BY <3>2, <3>3, <3>4
  <2> QED BY <2>1, <2>2
<1>11. ASSUME NEW a \in Attempts, HandleOverride(a) PROVE PlaceInv'
  <2>1. PICK ok \in BOOLEAN : After(<<a, "override">>, ok)
    BY <1>11 DEF HandleOverride
  <2>2. \A b \in Attempts : CliMoves(b)
    BY <1>11, <2>1, ConnOf DEF After, CliMoves, HandleOverride
  <2>3. \A d \in Conns : thread'[d] \in {thread[d], "none"}
    BY <1>11, ConnOf DEF HandleOverride, Ends
  <2>4. pending' = pending /\ rows' = rows
    BY <1>11 DEF HandleOverride
  <2> QED BY <2>2, <2>3, <2>4, Settles
<1>12. ASSUME NEW a \in Attempts, HandleFailed(a) PROVE PlaceInv'
  <2>1. PICK row \in Row : row.attempt = a /\ rows' = Append(rows, row)
    BY <1>12, NewRow
  <2>2. thread[<<a, "failed">>] = "waiting" /\ pending' = pending
    BY <1>12 DEF HandleFailed, Locks
  <2>3. /\ thread'[<<a, "failed">>] \in {"none", "notifying"}
        /\ \A d \in Conns : d # <<a, "failed">> => thread'[d] = thread[d]
    BY <1>12, ConnOf DEF HandleFailed, Ends
  <2>4. Place(a) /\ a \notin Reported /\ cli[a] \in {"reporting", "done"}
    BY <2>2, ConnOf DEF Place
  <2>5. /\ cli'[a] \in {"reporting", "done"}
        /\ \A b \in Attempts : b # a => cli'[b] = cli[b]
    BY <1>12, <2>4 DEF HandleFailed, After
  <2>6. \A i \in DOMAIN rows' :
          \/ i \in DOMAIN rows /\ rows'[i] = rows[i]
          \/ i = Len(rows) + 1 /\ rows'[i] = row
    BY <2>1
  <2>7. Reported' \subseteq Reported \cup {a}
    BY <2>1, <2>6 DEF Reported
  <2>8. \A d \in pending' : thread'[d] = "none"
    BY <2>2, <2>3
  <2>9. \A i \in DOMAIN rows : rows[i].attempt # a
    BY <2>4 DEF Reported
  <2>10. \A i, j \in DOMAIN rows' : rows'[i].attempt = rows'[j].attempt => i = j
    BY <2>1, <2>6, <2>9
  <2>11. Place(a)'
    <3>1. <<a, "override">> # <<a, "failed">> /\ <<a, "failed">> \notin pending
      BY <2>2
    <3>2. thread'[<<a, "override">>] = thread[<<a, "override">>]
      BY <2>3, <3>1, ConnOf
    <3> QED BY <2>2, <2>3, <2>5, <3>1, <3>2 DEF Place
  <2>12. ASSUME NEW b \in Attempts, b # a PROVE Place(b)'
    <3>1. <<b, "override">> # <<a, "failed">> /\ <<b, "failed">> # <<a, "failed">>
      BY <2>12
    <3>2. /\ thread'[<<b, "override">>] = thread[<<b, "override">>]
          /\ thread'[<<b, "failed">>] = thread[<<b, "failed">>]
      BY <2>3, <3>1, ConnOf
    <3>3. b \in Reported' => b \in Reported
      BY <2>7, <2>12
    <3> QED BY <2>2, <2>5, <2>12, <3>2, <3>3 DEF Place
  <2> QED BY <2>8, <2>10, <2>11, <2>12
<1>13. ASSUME NEW a \in Attempts, HandleFailedFails(a) PROVE PlaceInv'
  <2>1. After(<<a, "failed">>, FALSE)
    BY <1>13 DEF HandleFailedFails
  <2>2. \A b \in Attempts : CliMoves(b)
    BY <2>1, ConnOf DEF After, CliMoves
  <2>3. \A d \in Conns : thread'[d] \in {thread[d], "none"}
    BY <1>13, ConnOf DEF HandleFailedFails, Ends
  <2>4. pending' = pending /\ rows' = rows
    BY <1>13 DEF HandleFailedFails
  <2> QED BY <2>2, <2>3, <2>4, Settles
<1>14. ASSUME NEW o \in Others, HandleOther(o) PROVE PlaceInv'
  <2>1. \A d \in Conns : thread'[d] \in {thread[d], "none"}
    BY <1>14, ConnOf DEF HandleOther, Ends
  <2> QED BY <1>14, <2>1, Settles DEF HandleOther, CliMoves
<1>15. ASSUME NEW c \in Conns, Panic(c) PROVE PlaceInv'
  <2>1. After(c, FALSE)
    BY <1>15 DEF Panic
  <2>2. \A b \in Attempts : CliMoves(b)
    BY <2>1, ConnOf DEF After, CliMoves
  <2>3. \A d \in Conns : thread'[d] \in {thread[d], "none"}
    BY <1>15, ConnOf DEF Panic
  <2>4. pending' = pending /\ rows' = rows
    BY <1>15 DEF Panic
  <2> QED BY <2>2, <2>3, <2>4, Settles
<1>16. ASSUME NEW a \in Attempts, NotifyReturns(a) PROVE PlaceInv'
  <2>1. After(<<a, "failed">>, TRUE)
    BY <1>16 DEF NotifyReturns
  <2>2. \A b \in Attempts : CliMoves(b)
    BY <2>1, ConnOf DEF After, CliMoves
  <2>3. \A d \in Conns : thread'[d] \in {thread[d], "none"}
    BY <1>16, ConnOf DEF NotifyReturns, Ends
  <2>4. pending' = pending /\ rows' = rows
    BY <1>16 DEF NotifyReturns
  <2> QED BY <2>2, <2>3, <2>4, Settles
<1>17. CASE TickWarns
  BY <1>17, Settles DEF CliMoves, socket, TickWarns
<1>18. CASE TriggerReturns
  BY <1>18, Settles DEF CliMoves, socket, TriggerReturns
<1>19. CASE Crash
  <2>1. \A b \in Attempts : CliMoves(b)
    BY <1>19 DEF Crash, CliMoves
  <2>2. \A d \in Conns : thread'[d] = "none"
    BY <1>19 DEF Crash
  <2> QED BY <1>19, <2>1, <2>2, Settles DEF Crash
<1>20. CASE Restart
  BY <1>20, Settles DEF CliMoves, socket, Restart
<1>21. CASE UNCHANGED vars
  BY <1>21, Settles DEF CliMoves, socket, vars
<1> QED
  BY <1>1, <1>2, <1>3, <1>4, <1>5, <1>6, <1>7, <1>8, <1>9, <1>10, <1>11, <1>12, <1>13, <1>14, <1>15, <1>16, <1>17, <1>18, <1>19, <1>20, <1>21 DEF Next, Override, Handle

-----------------------------------------------------------------------------
(* A new row is as severe as the rows before it make it, and the old ones  *)
(* keep theirs.                                                            *)
LEMMA SeverityStep ==
  ASSUME TypeOK, TypeOK', SevereIffRepeated, [Next]_vars
  PROVE  SevereIffRepeated'
<1> DEFINE Right(k) ==
      rows[k].severity = "severe" <=>
        Cardinality(IF rows[k].blind THEN {} ELSE Preceding(k)) + 1
          >= SEVERE_OVERRIDE_FAILURE_THRESHOLD
<1>1. \A k \in DOMAIN rows : Right(k)
  BY DEF SevereIffRepeated
<1>2. CASE UNCHANGED <<rows, asks>>
  BY <1>2 DEF SevereIffRepeated, Preceding
<1>3. ASSUME NEW a \in Attempts, HandleFailed(a) PROVE SevereIffRepeated'
  <2>1. PICK row \in Row :
          /\ row.attempt = a /\ rows' = Append(rows, row) /\ row.at = now
          /\ row.severity = SeverityFor(IF row.blind THEN 0 ELSE RecentFailures(asks[a]))
    BY <1>3, NewRow
  <2>2. asks' = asks
    BY <1>3 DEF HandleFailed
  <2>3. /\ DOMAIN rows = 1..Len(rows) /\ DOMAIN rows' = 1..(Len(rows) + 1)
        /\ \A i \in DOMAIN rows : rows'[i] = rows[i]
        /\ rows'[Len(rows) + 1] = row /\ Len(rows) \in Nat
    BY <2>1 DEF TypeOK
  <2>4. ASSUME NEW k \in DOMAIN rows PROVE Right(k)'
    <3>1. Preceding(k)' = Preceding(k)
      BY <2>2, <2>3 DEF Preceding
    <3> QED BY <1>1, <2>3, <3>1
  <2>5. ASSUME NEW k \in Nat, k = Len(rows) + 1 PROVE Right(k)'
    <3> DEFINE S == {i \in DOMAIN rows : /\ asks[rows[i].attempt] = asks[a]
                                         /\ rows[i].at >= now - Window}
               recent == IF row.blind THEN 0 ELSE Cardinality(S)
    <3>1. \A i \in DOMAIN rows : rows[i].at \in Nat /\ now \in Nat /\ Window \in Nat
      BY RowType, OverridesAssumption DEF TypeOK
    <3>2. {i \in 1..(k - 1) :
             /\ asks[rows'[i].attempt] = asks[rows'[k].attempt]
             /\ rows'[k].at - rows'[i].at <= Window} = S
      BY <2>1, <2>3, <2>5, <3>1
    <3>3. Preceding(k)' = S
      BY <2>2, <3>2 DEF Preceding
    <3>4. row.severity = SeverityFor(recent)
      BY <2>1 DEF RecentFailures
    <3>5. Cardinality(IF row.blind THEN {} ELSE S) = recent
      BY FS_EmptySet
    <3> HIDE DEF recent, S
    <3>6. row.severity = "severe" <=> recent + 1 >= SEVERE_OVERRIDE_FAILURE_THRESHOLD
      BY <3>4 DEF SeverityFor
    <3>7. rows'[k] = row
      BY <2>3, <2>5
    <3> QED BY <3>7, <3>3, <3>5, <3>6
  <2>6. ASSUME NEW k \in DOMAIN rows' PROVE Right(k)'
    <3>1. k \in DOMAIN rows \/ (k \in Nat /\ k = Len(rows) + 1)
      BY <2>3
    <3> HIDE DEF Right
    <3> QED BY <2>4, <2>5, <3>1
  <2> QED BY <2>6 DEF SevereIffRepeated
<1>4. \/ UNCHANGED <<rows, asks>>
      \/ \E a \in Attempts : HandleFailed(a)
  BY DEF Next, Override, Handle, vars, Locks, Advance, Authenticate, Cancel, HelperTimeout, ReportFailed, ReportTimeout, OtherConnects, Receive, Silent, Accept, HandleOverride, HandleFailedFails, HandleOther, Panic, NotifyReturns, TickWarns, TriggerReturns, Crash, Restart
<1> QED BY <1>2, <1>3, <1>4

(* The invariants hold before anyone connects.                             *)
LEMMA InitHolds == Init => SlotsExact /\ PlaceInv /\ SevereIffRepeated
<1> SUFFICES ASSUME Init PROVE SlotsExact /\ PlaceInv /\ SevereIffRepeated
  OBVIOUS
<1>1. Live = {} /\ DOMAIN rows = {} /\ Reported = {}
  BY DEF Init, Live, Reported
<1>2. TypeOK
  <2>1. rows \in Seq(Row) /\ count \in Nat /\ now \in Nat /\ warnings \in Nat
    BY DEF Init
  <2>2. up \in BOOLEAN /\ poisoned \in BOOLEAN
    BY Zenon DEF Init
  <2>3. thread \in [Conns -> {"none", "reading", "waiting", "notifying"}]
    BY DEF Init
  <2>4. cli \in [Attempts -> {"idle", "asking", "failed", "reporting", "told", "done"}]
    BY DEF Init
  <2> QED BY <2>1, <2>2, <2>3, <2>4 DEF Init, TypeOK
<1>3. SlotsExact
  <2>1. Cardinality(Live) = 0
    BY <1>1, FS_EmptySet
  <2> QED BY <1>2, <2>1, OverridesAssumption DEF Init, SlotsExact
<1>4. PlaceInv
  BY <1>1, ConnOf DEF Init, PlaceInv, Place
<1> QED BY <1>1, <1>3, <1>4 DEF SevereIffRepeated

(* No slot of agentd's socket is lost or given back twice, unless a thread *)
(* panicked; a failed override is counted once and never after a success,  *)
(* and is severe exactly when it repeats: for every instance.              *)
THEOREM OverridesHold ==
  Spec => [](SlotsExact /\ SevereIffRepeated /\ OncePerAttempt)
<1> DEFINE Inv == SlotsExact /\ PlaceInv /\ SevereIffRepeated
<1>1. Init => Inv
  BY InitHolds
<1>2. Inv /\ [Next]_vars => Inv'
  <2> SUFFICES ASSUME Inv, [Next]_vars PROVE Inv'
    OBVIOUS
  <2>1. SlotsExact' /\ TypeOK /\ TypeOK'
    BY CountStep, TypeStep DEF SlotsExact
  <2>2. PlaceInv'
    BY <2>1, PlaceStep
  <2>3. SevereIffRepeated'
    BY <2>1, SeverityStep
  <2> QED BY <2>1, <2>2, <2>3
<1>3. Inv => SlotsExact /\ SevereIffRepeated /\ OncePerAttempt
  <2> SUFFICES ASSUME Inv
               PROVE  SlotsExact /\ SevereIffRepeated /\ OncePerAttempt
    OBVIOUS
  <2>1. \A i \in DOMAIN rows : rows[i].attempt \in Attempts /\ rows[i].attempt \in Reported
    BY RowType DEF SlotsExact, Reported
  <2>2. \A a \in Attempts : Place(a)
    BY DEF PlaceInv
  <2>3. OncePerAttempt
    BY <2>1, <2>2 DEF OncePerAttempt, PlaceInv, Place
  <2> QED BY <2>3
<1> QED BY <1>1, <1>2, <1>3, PTL DEF Spec

(* The counter is the threads that run, and never above the cap            *)
(* (SlotsExact): agentd neither leaks connections nor locks itself out.    *)
THEOREM SlotsExactHolds == Spec => []SlotsExact
BY OverridesHold, PTL

(* A failure is counted once and never after a success (OncePerAttempt).   *)
THEOREM OncePerAttemptHolds == Spec => []OncePerAttempt
BY OverridesHold, PTL
=============================================================================
