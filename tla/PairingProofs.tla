---------------------------- MODULE PairingProofs ----------------------------
(***************************************************************************)
(* Safety of Pairing for any number of attempts, strays, helpers, names    *)
(* and windows and every set of faults, and that it keeps the promise of   *)
(* PairingPromise.                                                         *)
(***************************************************************************)
EXTENDS Pairing, TLAPS

LEMMA HeadTail ==
  ASSUME NEW S, NEW s \in Seq(S), s # <<>>
  PROVE  Head(s) \in S /\ Tail(s) \in Seq(S)
OBVIOUS

(* An attempt that moves on keeps its type. *)
LEMMA GoesType ==
  ASSUME client \in [Attempts -> Client], NEW a \in Attempts, NEW to,
         to \in {"idle", "connect", "spake", "confirm", "asking", "acked", "over"}, Goes(a, to)
  PROVE  client' \in [Attempts -> Client]
<1> DEFINE r == [client[a] EXCEPT !.pc = to]
<1>1. r \in Client
  BY DEF Client
<1>2. client' = [client EXCEPT ![a] = r]
  BY DEF Goes
<1> HIDE DEF r
<1> QED BY <1>1, <1>2

(* So does serve, as it goes through a connection. *)
LEMMA ServeType ==
  ASSUME serve \in Serve
  PROVE  \A pc \in {"accept", "empty", "payload", "ack"} :
           /\ [serve EXCEPT !.pc = pc] \in Serve
           /\ [serve EXCEPT !.pc = pc, !.conn = {}] \in Serve
BY DEF Serve

(* Every variable keeps its type. *)
THEOREM TypeCorrect == Spec => []TypeOK
<1>1. Init => TypeOK
  <2> SUFFICES ASSUME Init PROVE TypeOK
    OBVIOUS
  <2>1. client \in [Attempts -> Client] /\ serve \in Serve
    BY DEF Init, Client, Serve, NoServe
  <2>2. rule \in BOOLEAN /\ leaked \in BOOLEAN
    BY Zenon DEF Init
  <2>3. backlog \in Seq(Conns) /\ (serve.pc \in {"none", "accept", "empty"} <=> serve.conn = {})
    BY DEF Init, NoServe
  <2> QED BY <2>1, <2>2, <2>3 DEF Init, TypeOK
<1>2. TypeOK /\ [Next]_vars => TypeOK'
  <2> SUFFICES ASSUME TypeOK, [Next]_vars PROVE TypeOK'
    OBVIOUS
  <2> USE DEF TypeOK, Serve, Client, Conns
  <2>1. ASSUME NEW h \in Helpers, OpenRule(h) PROVE TypeOK'
    BY <2>1 DEF OpenRule, wire, child, parent
  <2>2. ASSUME NEW h \in Helpers, Bind(h) PROVE TypeOK'
    BY <2>2 DEF Bind, wire, parent
  <2>3. ASSUME NEW h \in Helpers, BindFails(h) PROVE TypeOK'
    BY <2>3 DEF BindFails, wire, child, parent
  <2>4. ASSUME NEW h \in Helpers, CloseRule(h) PROVE TypeOK'
    BY <2>4 DEF CloseRule, wire, child, parent
  <2>5. ASSUME NEW h \in Helpers, Kill(h) PROVE TypeOK'
    <3>1. CASE serve' = NoServe /\ backlog' = <<>> /\ failed' = failed \cup serve.conn
      <4>1. serve' \in Serve /\ serve'.pc = "none" /\ serve'.conn = {}
        BY <3>1 DEF NoServe
      <4>2. failed' \in SUBSET Conns /\ backlog' \in Seq(Conns)
        BY <3>1
      <4> QED BY <2>5, <4>1, <4>2 DEF Kill, parent
    <3>2. CASE /\ serve' = [serve EXCEPT !.owner = serve.owner \ {h}]
               /\ backlog' = backlog /\ failed' = failed
      <4>1. serve' \in Serve /\ serve'.pc = serve.pc /\ serve'.conn = serve.conn
        BY <3>2
      <4> QED BY <2>5, <3>2, <4>1 DEF Kill, parent
    <3> QED BY <2>5, <3>1, <3>2 DEF Kill
  <2>6. CASE Expire
    BY <2>6 DEF Expire, wire, parent, firewall
  <2>7. CASE Accept
    <3>1. Head(backlog) \in Conns /\ Tail(backlog) \in Seq(Conns)
      BY <2>7, HeadTail DEF Accept
    <3> QED BY <2>7, <3>1 DEF Accept, parent, firewall
  <2>8. CASE TimeOut
    BY <2>8 DEF TimeOut, End, NoServe, parent
  <2>w. CASE WouldBlock
    BY <2>w DEF WouldBlock, wire, parent, firewall
  <2>z. CASE Sleep
    BY <2>z DEF Sleep, wire, parent, firewall
  <2>f. CASE AcceptFails
    BY <2>f DEF AcceptFails, End, NoServe, parent
  <2>9. CASE GiveUp
    BY <2>9 DEF GiveUp, Drop, wire, parent, firewall
  <2>10. ASSUME NEW a \in Attempts, ReadHello(a) PROVE TypeOK'
    <3>1. serve' \in Serve /\ (serve'.pc \in {"none", "accept", "empty"} <=> serve'.conn = {})
      <4>1. \/ serve' = [serve EXCEPT !.pc = "payload"]
            \/ serve' = [serve EXCEPT !.pc = "accept", !.conn = {}]
        BY <2>10 DEF ReadHello, Answers, Rejects, Drop
      <4>2. serve.conn = {a}
        BY <2>10 DEF ReadHello, Reads
      <4>3. serve' \in Serve
        <5> HIDE DEF Serve
        <5> QED BY <4>1, ServeType
      <4>4. \/ serve'.pc = "payload" /\ serve'.conn = {a}
            \/ serve'.pc = "accept" /\ serve'.conn = {}
        <5>1. CASE serve' = [serve EXCEPT !.pc = "payload"]
          BY <4>2, <5>1
        <5>2. CASE serve' = [serve EXCEPT !.pc = "accept", !.conn = {}]
          BY <5>2
        <5> QED BY <4>1, <5>1, <5>2
      <4> QED BY ONLY <4>3, <4>4
    <3>2. sent' \in [Conns -> {"nothing", "hello", "pubkey", "yes", "no"}]
      BY <2>10 DEF ReadHello, Reads
    <3>3. reply' \in [Conns -> {"nothing", "spake", "confirm", "error"}]
      BY <2>10 DEF ReadHello, Answers, Rejects
    <3>4. failed' \in SUBSET Conns
      BY <2>10 DEF ReadHello, Answers, Rejects, Drop
    <3> QED BY <2>10, <3>1, <3>2, <3>3, <3>4 DEF ReadHello, parent, firewall
  <2>11. ASSUME NEW a \in Attempts, ReadPubkey(a) PROVE TypeOK'
    <3>1. serve' \in Serve /\ (serve'.pc \in {"none", "accept", "empty"} <=> serve'.conn = {})
      <4>1. \/ serve' = [serve EXCEPT !.pc = "ack"]
            \/ serve' = [serve EXCEPT !.pc = "accept", !.conn = {}]
        BY <2>11 DEF ReadPubkey, Answers, Rejects, Drop
      <4>2. serve.conn = {a}
        BY <2>11 DEF ReadPubkey, Reads
      <4>3. serve' \in Serve
        <5> HIDE DEF Serve
        <5> QED BY <4>1, ServeType
      <4>4. \/ serve'.pc = "ack" /\ serve'.conn = {a}
            \/ serve'.pc = "accept" /\ serve'.conn = {}
        <5>1. CASE serve' = [serve EXCEPT !.pc = "ack"]
          BY <4>2, <5>1
        <5>2. CASE serve' = [serve EXCEPT !.pc = "accept", !.conn = {}]
          BY <5>2
        <5> QED BY <4>1, <5>1, <5>2
      <4> QED BY ONLY <4>3, <4>4
    <3>2. sent' \in [Conns -> {"nothing", "hello", "pubkey", "yes", "no"}]
      BY <2>11 DEF ReadPubkey, Reads
    <3>3. reply' \in [Conns -> {"nothing", "spake", "confirm", "error"}]
      BY <2>11 DEF ReadPubkey, Answers, Rejects
    <3>4. failed' \in SUBSET Conns
      BY <2>11 DEF ReadPubkey, Answers, Rejects, Drop
    <3> QED BY <2>11, <3>1, <3>2, <3>3, <3>4 DEF ReadPubkey, parent, firewall
  <2>12. ASSUME NEW a \in Attempts, ReadAck(a) PROVE TypeOK'
    BY <2>12 DEF ReadAck, Reads, End, NoServe, parent
  <2>13. ASSUME NEW a \in Attempts, ReadDecline(a) PROVE TypeOK'
    BY <2>13 DEF ReadDecline, Reads, Drop, parent, firewall
  <2>14. ASSUME NEW a \in Attempts, WriteFails(a) PROVE TypeOK'
    BY <2>14 DEF WriteFails, Reads, Drop, parent, firewall
  <2>15. ASSUME NEW a \in Attempts, NEW n \in Names, StartPairing(a, n) PROVE TypeOK'
    <3>1. client' \in [Attempts -> Client] /\ keyFile' \in [Paths -> SUBSET Attempts]
      BY <2>15, PairingAssumption DEF StartPairing
    <3> QED BY <2>15, <3>1 DEF StartPairing, wire, child, firewall
  <2>goes. ASSUME NEW a \in Attempts, NEW to,
               to \in {"spake", "confirm", "asking", "acked", "over"}, Goes(a, to)
        PROVE  client' \in [Attempts -> Client]
    <3> HIDE DEF Client
    <3> QED BY <2>goes, GoesType
  <2> HIDE DEF Client
  <2>16. ASSUME NEW a \in Attempts, NEW n \in Names, PairResult(a, n) PROVE TypeOK'
    <3>1. client' \in [Attempts -> Client]
      BY <2>16, <2>goes DEF PairResult
    <3>2. [key |-> a, path |-> client[a].path] \in Entry
      BY DEF Entry, Client
    <3> QED BY <2>16, <3>1, <3>2 DEF PairResult, wire, child, firewall
  <2>17. ASSUME NEW a \in Attempts, Connect(a) PROVE TypeOK'
    <3>1. client' \in [Attempts -> Client] /\ a \in Conns
      BY <2>17, <2>goes DEF Connect
    <3>2. sent' \in [Conns -> {"nothing", "hello", "pubkey", "yes", "no"}]
      BY <2>17 DEF Connect
    <3>3. backlog' \in Seq(Conns)
      BY <2>17, <3>1 DEF Connect
    <3> QED BY <2>17, <3>1, <3>2, <3>3 DEF Connect, child, firewall
  <2>18. ASSUME NEW a \in Attempts, ReadSpake(a) PROVE TypeOK'
    BY <2>18, <2>goes DEF ReadSpake, child, firewall
  <2>19. ASSUME NEW a \in Attempts, ReadConfirm(a) PROVE TypeOK'
    BY <2>19, <2>goes DEF ReadConfirm, child, firewall
  <2>20. ASSUME NEW a \in Attempts, Confirm(a) PROVE TypeOK'
    BY <2>20, <2>goes DEF Confirm, Say, child, firewall
  <2>21. ASSUME NEW a \in Attempts, Decline(a) PROVE TypeOK'
    BY <2>21, <2>goes DEF Decline, Say, child, firewall
  <2>22. ASSUME NEW a \in Attempts, AttemptFails(a) PROVE TypeOK'
    BY <2>22, <2>goes DEF AttemptFails, wire, child, firewall
  <2>23. ASSUME NEW a \in Attempts, Abandon(a) PROVE TypeOK'
    BY <2>23, <2>goes DEF Abandon, wire, child, firewall
  <2>24. ASSUME NEW c \in Strays, Stray(c) PROVE TypeOK'
    BY <2>24 DEF Stray, child, parent, firewall
  <2>25. CASE UNCHANGED vars
    BY <2>25 DEF vars, wire, child, parent, firewall
  <2> QED
    BY <2>1, <2>2, <2>3, <2>4, <2>5, <2>6, <2>7, <2>8, <2>9, <2>10, <2>11, <2>12, <2>13, <2>14, <2>15, <2>16, <2>17, <2>18, <2>19, <2>20, <2>21, <2>22, <2>23, <2>24, <2>25, <2>w, <2>z, <2>f DEF Next, HelperStep, ServeStep, ServeAttempt, PairStep
<1> QED BY <1>1, <1>2, PTL DEF Spec

-----------------------------------------------------------------------------
(* What the messages under way, the two sides' places and the parent's     *)
(* verdict have to do with each other.                                     *)
SafeInv ==
  /\ \A a \in Attempts :
       /\ a \in serve.conn \cup Waiting => client[a].pc # "idle"
       /\ a \in serve.conn /\ serve.pc = "ack" => client[a].rightCode
       /\ sent[a] = "yes" => verdict[a] = "yes"
       /\ client[a].pc = "acked" => verdict[a] = "yes"
       /\ client[a].pc \notin {"acked", "over"} => verdict[a] = "none"
  /\ KeyOnlyConfirmed

(* serve talks to attempts of its own window only, and is gone when one    *)
(* has succeeded.                                                          *)
WindowInv ==
  /\ \A a \in Attempts : client[a].sid <= window
  /\ serve.pc \in {"payload", "ack"} =>
       \A a \in serve.conn \cap Attempts : client[a].sid = window
  /\ serve.pc # "none" => \A a \in authorized \ halfway : client[a].sid # window
  /\ OneKeyPerWindow

(* Only its pc changes, and only that of one attempt. *)
LEMMA GoesFrame ==
  ASSUME TypeOK, NEW a \in Attempts, NEW to, Goes(a, to)
  PROVE  /\ client'[a].pc = to
         /\ \A b \in Attempts : /\ client'[b].sid = client[b].sid
                                /\ client'[b].rightCode = client[b].rightCode
                                /\ b # a => client'[b] = client[b]
BY DEF TypeOK, Client, Goes

(* Who waits after one more has come, and after the first was taken.       *)
LEMMA Queueing ==
  ASSUME NEW S, NEW s \in Seq(S)
  PROVE  /\ \A e \in S : {Append(s, e)[i] : i \in DOMAIN Append(s, e)}
                            = {s[i] : i \in DOMAIN s} \cup {e}
         /\ s # <<>> => {Head(s)} \cup {Tail(s)[i] : i \in DOMAIN Tail(s)}
                            = {s[i] : i \in DOMAIN s}
<1>1. ASSUME NEW e \in S
      PROVE  {Append(s, e)[i] : i \in DOMAIN Append(s, e)} = {s[i] : i \in DOMAIN s} \cup {e}
  <2>1. DOMAIN Append(s, e) = 1..(Len(s) + 1) /\ DOMAIN s = 1..Len(s) /\ Len(s) \in Nat
    OBVIOUS
  <2>2. \A i \in 1..Len(s) : Append(s, e)[i] = s[i]
    OBVIOUS
  <2>3. Append(s, e)[Len(s) + 1] = e
    OBVIOUS
  <2> QED BY <2>1, <2>2, <2>3
<1>2. ASSUME s # <<>>
      PROVE  {Head(s)} \cup {Tail(s)[i] : i \in DOMAIN Tail(s)} = {s[i] : i \in DOMAIN s}
  <2>1. Len(s) \in Nat \ {0} /\ DOMAIN s = 1..Len(s) /\ DOMAIN Tail(s) = 1..(Len(s) - 1)
    BY <1>2
  <2>2. Head(s) = s[1] /\ \A i \in 1..(Len(s) - 1) : Tail(s)[i] = s[i + 1]
    BY <1>2
  <2>3. ASSUME NEW i \in 1..Len(s)
        PROVE  s[i] \in {Head(s)} \cup {Tail(s)[j] : j \in DOMAIN Tail(s)}
    <3>1. CASE i = 1
      BY <2>2, <3>1
    <3>2. CASE i # 1
      <4> DEFINE j == i - 1
      <4>1. j \in 1..(Len(s) - 1) /\ j + 1 = i
        BY <2>1, <3>2
      <4>2. Tail(s)[j] = s[i] /\ j \in DOMAIN Tail(s)
        BY <2>1, <2>2, <4>1
      <4> HIDE DEF j
      <4> QED BY <4>2
    <3> QED BY <3>1, <3>2
  <2>4. ASSUME NEW j \in 1..(Len(s) - 1) PROVE \E i \in 1..Len(s) : s[i] = Tail(s)[j]
    <3>1. j + 1 \in 1..Len(s)
      BY <2>1
    <3> QED BY <2>2, <3>1
  <2>5. \E i \in 1..Len(s) : s[i] = Head(s)
    <3>1. 1 \in 1..Len(s)
      BY <2>1
    <3> QED BY <2>2, <3>1
  <2> QED BY <2>1, <2>3, <2>4, <2>5
<1> QED BY <1>1, <1>2

(* A step of one attempt that serve does not see keeps SafeInv, if what    *)
(* the parent has said goes with where the attempt is.                     *)
LEMMA SafeInvGoes ==
  ASSUME TypeOK, SafeInv, NEW a \in Attempts, NEW to, Goes(a, to), to # "idle",
         UNCHANGED <<serve, backlog, authorized>>,
         \A b \in Attempts \ {a} : sent'[b] = sent[b] /\ verdict'[b] = verdict[b],
         verdict[a] = "yes" => verdict'[a] = "yes",
         sent'[a] = "yes" => verdict'[a] = "yes",
         to = "acked" => verdict'[a] = "yes",
         to \notin {"acked", "over"} => verdict'[a] = "none"
  PROVE  SafeInv'
<1>1. Waiting' = Waiting
  BY DEF Waiting
<1>2. /\ client'[a].pc = to
      /\ \A b \in Attempts : /\ client'[b].rightCode = client[b].rightCode
                             /\ b # a => client'[b] = client[b]
  BY GoesFrame
<1> QED BY <1>1, <1>2 DEF SafeInv, KeyOnlyConfirmed, TypeOK

(* SafeInv is preserved by every step. *)
LEMMA SafeInvInductive ==
  ASSUME TypeOK, TypeOK', SafeInv, [Next]_vars
  PROVE  SafeInv'
<1> USE PairingAssumption DEF TypeOK, Serve, Client, Conns, SafeInv, KeyOnlyConfirmed, Waiting
<1>1. ASSUME NEW h \in Helpers, OpenRule(h) PROVE SafeInv'
  BY <1>1 DEF OpenRule, wire, child, parent
<1>2. ASSUME NEW h \in Helpers, Bind(h) PROVE SafeInv'
  BY <1>2 DEF Bind, wire, parent
<1>3. ASSUME NEW h \in Helpers, BindFails(h) PROVE SafeInv'
  BY <1>3 DEF BindFails, wire, child, parent
<1>4. ASSUME NEW h \in Helpers, CloseRule(h) PROVE SafeInv'
  BY <1>4 DEF CloseRule, wire, child, parent
<1>5. ASSUME NEW h \in Helpers, Kill(h) PROVE SafeInv'
  <2>1. UNCHANGED <<client, sent, verdict, authorized>>
    BY <1>5 DEF Kill, parent
  <2>2. \/ serve'.conn = {} /\ backlog' = <<>>
        \/ serve'.conn = serve.conn /\ serve'.pc = serve.pc /\ backlog' = backlog
    BY <1>5 DEF Kill, NoServe
  <2> QED BY <2>1, <2>2
<1>6. CASE Expire
  BY <1>6 DEF Expire, wire, parent, firewall
<1>7. CASE Accept
  BY <1>7, Queueing DEF Accept, parent, firewall
<1>8. CASE TimeOut
  BY <1>8 DEF TimeOut, End, NoServe, parent
<1>w. CASE WouldBlock
  BY <1>w DEF WouldBlock, wire, parent, firewall
<1>z. CASE Sleep
  BY <1>z DEF Sleep, wire, parent, firewall
<1>f. CASE AcceptFails
  BY <1>f DEF AcceptFails, End, NoServe, parent
<1>9. CASE GiveUp
  BY <1>9 DEF GiveUp, Drop, wire, parent, firewall
<1>10. ASSUME NEW a \in Attempts, ReadHello(a) PROVE SafeInv'
  <2>1. CASE serve' = [serve EXCEPT !.pc = "payload"]
    <3>1. serve'.conn = {a} /\ serve'.pc = "payload" /\ serve.conn = {a}
      BY <1>10, <2>1 DEF ReadHello, Reads
    <3> QED BY <1>10, <3>1 DEF ReadHello, Reads, Answers, Rejects, Drop, parent, firewall
  <2>2. CASE serve' = [serve EXCEPT !.pc = "accept", !.conn = {}]
    <3>1. serve'.conn = {} /\ serve'.pc = "accept"
      BY <2>2
    <3> QED BY <1>10, <3>1 DEF ReadHello, Reads, parent, firewall
  <2> QED BY <1>10, <2>1, <2>2 DEF ReadHello, Answers, Rejects, Drop
<1>11. ASSUME NEW a \in Attempts, ReadPubkey(a) PROVE SafeInv'
  <2>1. CASE serve' = [serve EXCEPT !.pc = "ack"]
    <3>0. serve'.conn = {a} /\ serve'.pc = "ack" /\ serve.conn = {a}
      BY <1>11, <2>1 DEF ReadPubkey, Reads
    <3>1. client[a].rightCode
      <4>1. ASSUME Drop PROVE FALSE
        <5>1. serve'.pc = "accept"
          BY <4>1 DEF Drop
        <5> QED BY <3>0, <5>1
      <4> QED BY <1>11, <4>1 DEF ReadPubkey, Rejects
    <3>2. UNCHANGED <<client, backlog, authorized, verdict>>
      BY <1>11 DEF ReadPubkey, parent
    <3>3. \A b \in Attempts : sent'[b] = "yes" => sent[b] = "yes"
      BY <1>11 DEF ReadPubkey, Reads
    <3> QED BY <3>0, <3>1, <3>2, <3>3
  <2>2. CASE serve' = [serve EXCEPT !.pc = "accept", !.conn = {}]
    <3>1. serve'.conn = {} /\ serve'.pc = "accept"
      BY <2>2
    <3> QED BY <1>11, <3>1 DEF ReadPubkey, Reads, parent, firewall
  <2> QED BY <1>11, <2>1, <2>2 DEF ReadPubkey, Answers, Rejects, Drop
<1>12. ASSUME NEW a \in Attempts, ReadAck(a) PROVE SafeInv'
  BY <1>12 DEF ReadAck, Reads, End, NoServe, parent
<1>13. ASSUME NEW a \in Attempts, ReadDecline(a) PROVE SafeInv'
  BY <1>13 DEF ReadDecline, Reads, Drop, parent, firewall
<1>14. ASSUME NEW a \in Attempts, WriteFails(a) PROVE SafeInv'
  BY <1>14 DEF WriteFails, Reads, Drop, parent, firewall
<1>15. ASSUME NEW a \in Attempts, NEW n \in Names, StartPairing(a, n) PROVE SafeInv'
  <2>1. client[a].pc = "idle" /\ client'[a].pc = "connect"
    BY <1>15 DEF StartPairing
  <2>2. \A b \in Attempts \ {a} : client'[b] = client[b]
    BY <1>15 DEF StartPairing
  <2>3. a \notin serve.conn \cup Waiting /\ verdict[a] = "none" /\ a \notin authorized
    BY <2>1
  <2>4. Waiting' = Waiting /\ serve' = serve /\ authorized' = authorized
        /\ sent' = sent /\ verdict' = verdict
    BY <1>15 DEF StartPairing, wire, child
  <2>5. sent[a] # "yes"
    BY <2>3
  <2>6. \A b \in authorized : client'[b].rightCode = client[b].rightCode
    BY <2>2, <2>3
  <2>7. KeyOnlyConfirmed'
    BY <2>4, <2>6
  <2> HIDE DEF Waiting, KeyOnlyConfirmed
  <2>8. ASSUME NEW b \in Attempts
         PROVE  /\ b \in serve'.conn \cup Waiting' => client'[b].pc # "idle"
                /\ b \in serve'.conn /\ serve'.pc = "ack" => client'[b].rightCode
                /\ sent'[b] = "yes" => verdict'[b] = "yes"
                /\ client'[b].pc = "acked" => verdict'[b] = "yes"
                /\ client'[b].pc \notin {"acked", "over"} => verdict'[b] = "none"
    <3>1. CASE b = a
      BY <2>1, <2>3, <2>4, <2>5, <3>1
    <3>2. CASE b # a
      BY <2>2, <2>4, <3>2
    <3> QED BY <3>1, <3>2
  <2> QED BY <2>7, <2>8
<1>16. ASSUME NEW a \in Attempts, NEW n \in Names, PairResult(a, n) PROVE SafeInv'
  <2>1. Goes(a, "over")
    BY <1>16 DEF PairResult
  <2>2. UNCHANGED <<serve, backlog, sent, authorized, verdict>>
    BY <1>16 DEF PairResult, wire, child
  <2>3. verdict[a] = "yes"
    BY <1>16 DEF PairResult
  <2> HIDE DEF SafeInv
  <2> QED BY <2>1, <2>2, <2>3, SafeInvGoes
<1>17. ASSUME NEW a \in Attempts, Connect(a) PROVE SafeInv'
  <2>1. Goes(a, "spake")
    BY <1>17 DEF Connect
  <2> QED BY <1>17, <2>1, GoesFrame, Queueing DEF Connect, child, firewall
<1>18. ASSUME NEW a \in Attempts, ReadSpake(a) PROVE SafeInv'
  <2>1. Goes(a, "confirm")
    BY <1>18 DEF ReadSpake
  <2> QED BY <1>18, <2>1, SafeInvGoes DEF ReadSpake, child, firewall
<1>19. ASSUME NEW a \in Attempts, ReadConfirm(a) PROVE SafeInv'
  <2>1. Goes(a, "asking")
    BY <1>19 DEF ReadConfirm
  <2> QED BY <1>19, <2>1, SafeInvGoes DEF ReadConfirm, child, firewall
<1>20. ASSUME NEW a \in Attempts, Confirm(a) PROVE SafeInv'
  <2>1. Goes(a, "acked")
    BY <1>20 DEF Confirm
  <2>2. UNCHANGED <<serve, backlog, authorized>>
    BY <1>20 DEF Confirm, Say, child
  <2>3. verdict'[a] = "yes"
    BY <1>20 DEF Confirm, Say
  <2>4. \A b \in Attempts \ {a} : sent'[b] = sent[b] /\ verdict'[b] = verdict[b]
    BY <1>20 DEF Confirm, Say
  <2> HIDE DEF SafeInv
  <2> QED BY <2>1, <2>2, <2>3, <2>4, SafeInvGoes
<1>21. ASSUME NEW a \in Attempts, Decline(a) PROVE SafeInv'
  <2>1. Goes(a, "over")
    BY <1>21 DEF Decline
  <2>2. UNCHANGED <<serve, backlog, authorized>>
    BY <1>21 DEF Decline, Say, child
  <2>3. verdict[a] = "none" /\ sent'[a] # "yes"
    BY <1>21 DEF Decline, Say
  <2>4. \A b \in Attempts \ {a} : sent'[b] = sent[b] /\ verdict'[b] = verdict[b]
    BY <1>21 DEF Decline, Say
  <2> HIDE DEF SafeInv
  <2> QED BY <2>1, <2>2, <2>3, <2>4, SafeInvGoes
<1>22. ASSUME NEW a \in Attempts, AttemptFails(a) PROVE SafeInv'
  <2>1. Goes(a, "over")
    BY <1>22 DEF AttemptFails
  <2> QED BY <1>22, <2>1, SafeInvGoes DEF AttemptFails, wire, child, firewall
<1>23. ASSUME NEW a \in Attempts, Abandon(a) PROVE SafeInv'
  <2>1. Goes(a, "over")
    BY <1>23 DEF Abandon
  <2> QED BY <1>23, <2>1, SafeInvGoes DEF Abandon, Running, wire, child, firewall
<1>24. ASSUME NEW c \in Strays, Stray(c) PROVE SafeInv'
  BY <1>24, Queueing DEF Stray, child, parent, firewall
<1>25. CASE UNCHANGED vars
  BY <1>25 DEF vars, wire, child, parent, firewall
<1> QED
  BY <1>1, <1>2, <1>3, <1>4, <1>5, <1>6, <1>7, <1>8, <1>9, <1>10, <1>11, <1>12, <1>13, <1>14, <1>15, <1>16, <1>17, <1>18, <1>19, <1>20, <1>21, <1>22, <1>23, <1>24, <1>25, <1>w, <1>z, <1>f DEF Next, HelperStep, ServeStep, ServeAttempt, PairStep

(* WindowInv, with SafeInv, is preserved by every step. *)
LEMMA WindowInvInductive ==
  ASSUME TypeOK, TypeOK', SafeInv, WindowInv, [Next]_vars
  PROVE  WindowInv'
<1>. DEFINE Safe == \A a \in Attempts :
       client[a].pc = "idle" => a \notin serve.conn /\ a \notin authorized
<1>s. Safe
  BY DEF SafeInv, KeyOnlyConfirmed
<1> USE PairingAssumption, <1>s DEF TypeOK, Serve, Client, Conns, WindowInv, OneKeyPerWindow
<1>1. ASSUME NEW h \in Helpers, OpenRule(h) PROVE WindowInv'
  BY <1>1 DEF OpenRule, wire, child, parent
<1>2. ASSUME NEW h \in Helpers, Bind(h) PROVE WindowInv'
  BY <1>2 DEF Bind, wire, parent
<1>3. ASSUME NEW h \in Helpers, BindFails(h) PROVE WindowInv'
  BY <1>3 DEF BindFails, wire, child, parent
<1>4. ASSUME NEW h \in Helpers, CloseRule(h) PROVE WindowInv'
  BY <1>4 DEF CloseRule, wire, child, parent
<1>5. ASSUME NEW h \in Helpers, Kill(h) PROVE WindowInv'
  BY <1>5 DEF Kill, NoServe, parent
<1>6. CASE Expire
  BY <1>6 DEF Expire, wire, parent, firewall
<1>7. CASE Accept
  BY <1>7, Queueing DEF Accept, parent, firewall
<1>8. CASE TimeOut
  BY <1>8 DEF TimeOut, End, NoServe, parent
<1>w. CASE WouldBlock
  BY <1>w DEF WouldBlock, wire, parent, firewall
<1>z. CASE Sleep
  BY <1>z DEF Sleep, wire, parent, firewall
<1>f. CASE AcceptFails
  BY <1>f DEF AcceptFails, End, NoServe, parent
<1>9. CASE GiveUp
  BY <1>9 DEF GiveUp, Drop, wire, parent, firewall
<1>10. ASSUME NEW a \in Attempts, ReadHello(a) PROVE WindowInv'
  <2>1. CASE serve' = [serve EXCEPT !.pc = "payload"]
    <3>0. serve'.conn = {a} /\ serve'.pc = "payload" /\ serve.conn = {a}
      BY <1>10, <2>1 DEF ReadHello, Reads
    <3>1. client[a].sid = window
      <4>1. ASSUME Drop PROVE FALSE
        <5>1. serve'.pc = "accept"
          BY <4>1 DEF Drop
        <5> QED BY <3>0, <5>1
      <4> QED BY <1>10, <4>1 DEF ReadHello, Rejects
    <3>2. UNCHANGED <<client, window, authorized, halfway>>
      BY <1>10 DEF ReadHello, parent
    <3> QED BY <1>10, <3>0, <3>1, <3>2 DEF ReadHello, Reads
  <2>2. CASE serve' = [serve EXCEPT !.pc = "accept", !.conn = {}]
    <3>1. serve'.conn = {} /\ serve'.pc = "accept"
      BY <2>2
    <3> QED BY <1>10, <3>1 DEF ReadHello, Reads, parent, firewall
  <2> QED BY <1>10, <2>1, <2>2 DEF ReadHello, Answers, Rejects, Drop
<1>11. ASSUME NEW a \in Attempts, ReadPubkey(a) PROVE WindowInv'
  <2>1. CASE serve' = [serve EXCEPT !.pc = "ack"]
    <3>0. serve'.conn = {a} /\ serve'.pc = "ack" /\ serve.conn = {a}
      BY <1>11, <2>1 DEF ReadPubkey, Reads
    <3>1. client[a].sid = window
      BY <1>11, <3>0 DEF ReadPubkey, Reads
    <3>2. UNCHANGED <<client, window, authorized, halfway>>
      BY <1>11 DEF ReadPubkey, parent
    <3> QED BY <1>11, <3>0, <3>1, <3>2 DEF ReadPubkey, Reads
  <2>2. CASE serve' = [serve EXCEPT !.pc = "accept", !.conn = {}]
    <3>1. serve'.conn = {} /\ serve'.pc = "accept"
      BY <2>2
    <3> QED BY <1>11, <3>1 DEF ReadPubkey, Reads, parent, firewall
  <2> QED BY <1>11, <2>1, <2>2 DEF ReadPubkey, Answers, Rejects, Drop
<1>12. ASSUME NEW a \in Attempts, ReadAck(a) PROVE WindowInv'
  BY <1>12 DEF ReadAck, Reads, End, NoServe, parent
<1>13. ASSUME NEW a \in Attempts, ReadDecline(a) PROVE WindowInv'
  BY <1>13 DEF ReadDecline, Reads, Drop, parent, firewall
<1>14. ASSUME NEW a \in Attempts, WriteFails(a) PROVE WindowInv'
  BY <1>14 DEF WriteFails, Reads, Drop, parent, firewall
<1>15. ASSUME NEW a \in Attempts, NEW n \in Names, StartPairing(a, n) PROVE WindowInv'
  BY <1>15 DEF StartPairing, Running, wire, child, firewall
<1>16. ASSUME NEW a \in Attempts, NEW n \in Names, PairResult(a, n) PROVE WindowInv'
  <2>1. Goes(a, "over")
    BY <1>16 DEF PairResult
  <2> QED BY <1>16, <2>1, GoesFrame DEF PairResult, wire, child, firewall
<1>17. ASSUME NEW a \in Attempts, Connect(a) PROVE WindowInv'
  <2>1. Goes(a, "spake")
    BY <1>17 DEF Connect
  <2> QED BY <1>17, <2>1, GoesFrame, Queueing DEF Connect, child, firewall
<1>18. ASSUME NEW a \in Attempts, ReadSpake(a) PROVE WindowInv'
  <2>1. Goes(a, "confirm")
    BY <1>18 DEF ReadSpake
  <2> QED BY <1>18, <2>1, GoesFrame DEF ReadSpake, child, firewall
<1>19. ASSUME NEW a \in Attempts, ReadConfirm(a) PROVE WindowInv'
  <2>1. Goes(a, "asking")
    BY <1>19 DEF ReadConfirm
  <2> QED BY <1>19, <2>1, GoesFrame DEF ReadConfirm, child, firewall
<1>20. ASSUME NEW a \in Attempts, Confirm(a) PROVE WindowInv'
  <2>1. Goes(a, "acked")
    BY <1>20 DEF Confirm
  <2> QED BY <1>20, <2>1, GoesFrame DEF Confirm, Say, child, firewall
<1>21. ASSUME NEW a \in Attempts, Decline(a) PROVE WindowInv'
  <2>1. Goes(a, "over")
    BY <1>21 DEF Decline
  <2> QED BY <1>21, <2>1, GoesFrame DEF Decline, Say, child, firewall
<1>22. ASSUME NEW a \in Attempts, AttemptFails(a) PROVE WindowInv'
  <2>1. Goes(a, "over")
    BY <1>22 DEF AttemptFails
  <2> QED BY <1>22, <2>1, GoesFrame DEF AttemptFails, wire, child, firewall
<1>23. ASSUME NEW a \in Attempts, Abandon(a) PROVE WindowInv'
  <2>1. Goes(a, "over")
    BY <1>23 DEF Abandon
  <2> QED BY <1>23, <2>1, GoesFrame DEF Abandon, Running, wire, child, firewall
<1>24. ASSUME NEW c \in Strays, Stray(c) PROVE WindowInv'
  BY <1>24, Queueing DEF Stray, child, parent, firewall
<1>25. CASE UNCHANGED vars
  BY <1>25 DEF vars, wire, child, parent, firewall
<1> QED
  BY <1>1, <1>2, <1>3, <1>4, <1>5, <1>6, <1>7, <1>8, <1>9, <1>10, <1>11, <1>12, <1>13, <1>14, <1>15, <1>16, <1>17, <1>18, <1>19, <1>20, <1>21, <1>22, <1>23, <1>24, <1>25, <1>w, <1>z, <1>f DEF Next, HelperStep, ServeStep, ServeAttempt, PairStep

(* Both hold before the first window. *)
LEMMA InitSafe == Init => SafeInv /\ WindowInv
<1> SUFFICES ASSUME Init PROVE SafeInv /\ WindowInv
  OBVIOUS
<1>1. serve.pc = "none" /\ serve.conn = {} /\ Waiting = {}
  BY DEF Init, NoServe, Waiting
<1>2. \A a \in Attempts : client[a].pc = "idle" /\ client[a].sid = 0
                           /\ sent[a] = "nothing" /\ verdict[a] = "none"
  BY DEF Init, Conns
<1> QED BY <1>1, <1>2 DEF Init, SafeInv, WindowInv, KeyOnlyConfirmed, OneKeyPerWindow

(* An installed key is one the parent confirmed on an attempt with the     *)
(* right code, and a window installs one, for every instance.              *)
THEOREM SafetyHolds == Spec => [](KeyOnlyConfirmed /\ OneKeyPerWindow)
<1>1. Init => SafeInv /\ WindowInv
  BY InitSafe
<1>2. TypeOK /\ TypeOK' /\ SafeInv /\ WindowInv /\ [Next]_vars => SafeInv' /\ WindowInv'
  BY SafeInvInductive, WindowInvInductive
<1>3. SafeInv /\ WindowInv => KeyOnlyConfirmed /\ OneKeyPerWindow
  BY DEF SafeInv, WindowInv
<1> QED BY <1>1, <1>2, <1>3, TypeCorrect, PTL DEF Spec

(* A window of serve installs one key at most (OneKeyPerWindow).           *)
THEOREM OneKeyPerWindowHolds == Spec => []OneKeyPerWindow
BY SafetyHolds, PTL

-----------------------------------------------------------------------------
(* An attempt the parent has said yes to is settled: installed, reported   *)
(* as failed, or its Ack lies before serve.                                *)
Settled(a) ==
  \/ a \in authorized \cup failed
  \/ serve.conn = {a} /\ serve.pc = "ack" /\ sent[a] = "yes"

(* The parent is asked, or will be once the client reads its reply. *)
Asked(a) ==
  \/ client[a].pc = "asking"
  \/ client[a].pc = "confirm" /\ reply[a] = "confirm"

(* The parent is only asked while serve waits for the answer, or after it  *)
(* has reported the attempt.                                               *)
MatchInv ==
  /\ \A a \in Attempts :
       /\ verdict[a] = "yes" => Settled(a) /\ client[a].pc \in {"acked", "over"}
       /\ client[a].pc = "acked" => verdict[a] = "yes"
       /\ Asked(a) =>
            a \in failed \/ (serve.conn = {a} /\ serve.pc = "ack")
  /\ \A n \in Names : \A e \in registry[n] : verdict[e.key] = "yes"

(* So when serve lets its connection go it has installed the key or        *)
(* reported the attempt.                                                   *)
LEMMA MatchInvLeaves ==
  ASSUME TypeOK, MatchInv, UNCHANGED <<parent, reply>>,
         authorized \subseteq authorized', failed \subseteq failed',
         serve.conn \subseteq authorized' \cup failed',
         \A a \in serve.conn \cap Attempts : a \in failed' \/ verdict[a] = "yes"
  PROVE  MatchInv'
<1>1. UNCHANGED <<client, registry, verdict>>
  BY DEF parent
<1>2. ASSUME NEW a \in Attempts, verdict[a] = "yes" PROVE a \in authorized' \cup failed'
  BY <1>2 DEF MatchInv, Settled, Asked
<1>3. ASSUME NEW a \in Attempts,
             Asked(a)
      PROVE  a \in failed'
  <2>1. verdict[a] # "yes"
    BY <1>3 DEF MatchInv, Asked
  <2>2. a \in failed \/ a \in serve.conn
    BY <1>3 DEF MatchInv, Asked
  <2> QED BY <2>1, <2>2
<1>4. \A a \in Attempts : verdict[a] = "yes" => client[a].pc \in {"acked", "over"}
  BY DEF MatchInv, Asked
<1>5. \A a \in Attempts : client[a].pc = "acked" => verdict[a] = "yes"
  BY DEF MatchInv, Asked
<1>6. \A n \in Names : \A e \in registry[n] : verdict[e.key] = "yes"
  BY DEF MatchInv, Asked
<1> QED BY <1>1, <1>2, <1>3, <1>4, <1>5, <1>6 DEF MatchInv, Settled, Asked

(* MatchInv, with SafeInv, is preserved by every step. *)
LEMMA MatchInvInductive ==
  ASSUME TypeOK, TypeOK', SafeInv, MatchInv, [Next]_vars
  PROVE  MatchInv'
<1> USE DEF TypeOK, Serve, Client, Entry, Conns, MatchInv, Settled, Asked
<1>1. ASSUME NEW h \in Helpers, OpenRule(h) PROVE MatchInv'
  BY <1>1 DEF OpenRule, wire, child, parent
<1>2. ASSUME NEW h \in Helpers, Bind(h) PROVE MatchInv'
  BY <1>2 DEF Bind, wire, parent
<1>3. ASSUME NEW h \in Helpers, BindFails(h) PROVE MatchInv'
  BY <1>3 DEF BindFails, wire, child, parent
<1>4. ASSUME NEW h \in Helpers, CloseRule(h) PROVE MatchInv'
  BY <1>4 DEF CloseRule, wire, child, parent
<1>5. ASSUME NEW h \in Helpers, Kill(h) PROVE MatchInv'
  <2>1. CASE serve' = NoServe /\ failed' = failed \cup serve.conn
    BY <1>5, <2>1, MatchInvLeaves DEF Kill
  <2>2. CASE serve' = [serve EXCEPT !.owner = serve.owner \ {h}] /\ failed' = failed
    <3>1. serve'.conn = serve.conn /\ serve'.pc = serve.pc
      BY <2>2
    <3> QED BY <1>5, <2>2, <3>1 DEF Kill, parent
  <2> QED BY <1>5, <2>1, <2>2 DEF Kill
<1>6. CASE Expire
  BY <1>6 DEF Expire, wire, parent, firewall
<1>7. CASE Accept
  BY <1>7 DEF Accept, parent, firewall
<1>8. CASE TimeOut
  BY <1>8 DEF TimeOut, End, NoServe, parent
<1>w. CASE WouldBlock
  BY <1>w DEF WouldBlock, wire, parent, firewall
<1>z. CASE Sleep
  BY <1>z DEF Sleep, wire, parent, firewall
<1>f. CASE AcceptFails
  BY <1>f DEF AcceptFails, End, NoServe, parent
<1>9. CASE GiveUp
  BY <1>9, MatchInvLeaves DEF GiveUp, Drop, wire
<1>10. ASSUME NEW a \in Attempts, ReadHello(a) PROVE MatchInv'
  BY <1>10 DEF ReadHello, Reads, Answers, Rejects, Drop, parent, firewall
<1>11. ASSUME NEW a \in Attempts, ReadPubkey(a) PROVE MatchInv'
  <2>1. serve.conn = {a} /\ serve.pc = "payload" /\ serve'.pc \in {"ack", "accept"}
        /\ (serve'.pc = "ack" => serve'.conn = {a} /\ failed' = failed)
        /\ failed \subseteq failed'
    <3>1. \/ serve' = [serve EXCEPT !.pc = "ack"] /\ failed' = failed
          \/ serve' = [serve EXCEPT !.pc = "accept", !.conn = {}] /\ failed' = failed \cup serve.conn
      BY <1>11 DEF ReadPubkey, Answers, Rejects, Drop
    <3>2. serve.conn = {a} /\ serve.pc = "payload"
      BY <1>11 DEF ReadPubkey, Reads
    <3>3. CASE serve' = [serve EXCEPT !.pc = "ack"] /\ failed' = failed
      BY <3>2, <3>3
    <3>4. CASE serve' = [serve EXCEPT !.pc = "accept", !.conn = {}] /\ failed' = failed \cup serve.conn
      <4>1. serve'.pc = "accept"
        BY <3>4
      <4> QED BY <3>2, <3>4, <4>1
    <3> QED BY <3>1, <3>3, <3>4
  <2>2. UNCHANGED <<authorized, client, verdict, registry>>
    BY <1>11 DEF ReadPubkey, parent
  <2>3. \A b \in Attempts \ {a} : reply'[b] = reply[b]
    BY <1>11 DEF ReadPubkey, Answers, Rejects
  <2>4. reply'[a] = "confirm" => serve'.pc = "ack"
    BY <1>11 DEF ReadPubkey, Answers, Rejects
  <2>5. \A b \in Attempts :
          /\ Asked(b) => b \in failed
          /\ verdict[b] = "yes" => b \in authorized \cup failed
    BY <1>11 DEF ReadPubkey, Reads
  <2>6. ASSUME NEW b \in Attempts,
               client[b].pc = "asking" \/ (client[b].pc = "confirm" /\ reply'[b] = "confirm")
        PROVE  b \in failed' \/ (serve'.conn = {b} /\ serve'.pc = "ack")
    BY <2>1, <2>3, <2>4, <2>5, <2>6
  <2> QED BY <2>1, <2>2, <2>5, <2>6
<1>12. ASSUME NEW a \in Attempts, ReadAck(a) PROVE MatchInv'
  <2>1. verdict[a] = "yes"
    BY <1>12 DEF ReadAck, Reads, SafeInv
  <2> QED BY <1>12, <2>1, MatchInvLeaves DEF ReadAck, Reads
<1>13. ASSUME NEW a \in Attempts, ReadDecline(a) PROVE MatchInv'
  BY <1>13, MatchInvLeaves DEF ReadDecline, Reads, Drop
<1>14. ASSUME NEW a \in Attempts, WriteFails(a) PROVE MatchInv'
  BY <1>14, MatchInvLeaves DEF WriteFails, Reads, Drop
<1>15. ASSUME NEW a \in Attempts, NEW n \in Names, StartPairing(a, n) PROVE MatchInv'
  BY <1>15 DEF StartPairing, Running, wire, child, firewall
<1>16. ASSUME NEW a \in Attempts, NEW n \in Names, PairResult(a, n) PROVE MatchInv'
  BY <1>16 DEF PairResult, Goes, wire, child, firewall
<1>17. ASSUME NEW a \in Attempts, Connect(a) PROVE MatchInv'
  BY <1>17 DEF Connect, Goes, child, firewall
<1>18. ASSUME NEW a \in Attempts, ReadSpake(a) PROVE MatchInv'
  BY <1>18 DEF ReadSpake, Goes, child, firewall
<1>19. ASSUME NEW a \in Attempts, ReadConfirm(a) PROVE MatchInv'
  BY <1>19 DEF ReadConfirm, Goes, child, firewall
<1>20. ASSUME NEW a \in Attempts, Confirm(a) PROVE MatchInv'
  <2>1. Goes(a, "acked") /\ verdict'[a] = "yes" /\ client[a].pc = "asking"
    BY <1>20 DEF Confirm, Say
  <2>2. UNCHANGED <<serve, authorized, failed, reply, registry>>
    BY <1>20 DEF Confirm, Say, child
  <2>3. \A b \in Attempts \ {a} : sent'[b] = sent[b] /\ verdict'[b] = verdict[b]
    BY <1>20 DEF Confirm, Say
  <2>4. a \in failed \/ (serve.conn = {a} /\ serve.pc = "ack" /\ sent'[a] = "yes")
    <3>1. a \in failed \/ (serve.conn = {a} /\ serve.pc = "ack")
      BY <2>1
    <3>2. serve.conn = {a} => sent'[a] = "yes"
      BY <1>20 DEF Confirm, Say, Gone
    <3> QED BY <3>1, <3>2
  <2>5. /\ client'[a].pc = "acked"
        /\ \A b \in Attempts \ {a} : client'[b] = client[b]
    BY <2>1, GoesFrame
  <2>6. \A b \in Attempts : verdict[b] = "yes" => b # a /\ verdict'[b] = "yes"
    BY <2>1, <2>3
  <2>7. \A n \in Names : \A e \in registry'[n] : verdict'[e.key] = "yes"
    BY <2>2, <2>6
  <2>8. Settled(a)'
    BY <2>2, <2>4
  <2>9. \A b \in Attempts \ {a} : verdict'[b] = "yes" => Settled(b)'
    BY <2>2, <2>3
  <2>10. Asked(a)' = FALSE
    BY <2>5
  <2>11. \A b \in Attempts \ {a} :
           /\ Asked(b)' = Asked(b)
           /\ verdict'[b] = "yes" => client'[b].pc \in {"acked", "over"}
           /\ client'[b].pc = "acked" => verdict'[b] = "yes"
    BY <2>2, <2>3, <2>5
  <2>12. \A b \in Attempts \ {a} : Asked(b) => b \in failed \/ (serve.conn = {b} /\ serve.pc = "ack")
    OBVIOUS
  <2> HIDE DEF Settled, Asked
  <2> QED BY <2>1, <2>2, <2>5, <2>7, <2>8, <2>9, <2>10, <2>11, <2>12
<1>21. ASSUME NEW a \in Attempts, Decline(a) PROVE MatchInv'
  BY <1>21 DEF Decline, Say, Goes, child, firewall
<1>22. ASSUME NEW a \in Attempts, AttemptFails(a) PROVE MatchInv'
  BY <1>22 DEF AttemptFails, Goes, wire, child, firewall
<1>23. ASSUME NEW a \in Attempts, Abandon(a) PROVE MatchInv'
  BY <1>23 DEF Abandon, Goes, Running, wire, child, firewall
<1>24. ASSUME NEW c \in Strays, Stray(c) PROVE MatchInv'
  BY <1>24 DEF Stray, child, parent, firewall
<1>25. CASE UNCHANGED vars
  BY <1>25 DEF vars, wire, child, parent, firewall
<1> QED
  BY <1>1, <1>2, <1>3, <1>4, <1>5, <1>6, <1>7, <1>8, <1>9, <1>10, <1>11, <1>12, <1>13, <1>14, <1>15, <1>16, <1>17, <1>18, <1>19, <1>20, <1>21, <1>22, <1>23, <1>24, <1>25, <1>w, <1>z, <1>f DEF Next, HelperStep, ServeStep, ServeAttempt, PairStep

(* The two computers agree about every registered key, for every instance. *)
THEOREM RegistryAgrees == Spec => []RegistryMatchesChild
<1>1. Init => SafeInv /\ MatchInv
  <2> SUFFICES ASSUME Init PROVE SafeInv /\ MatchInv
    OBVIOUS
  <2>1. \A a \in Attempts : client[a].pc = "idle" /\ verdict[a] = "none"
    BY DEF Init
  <2>2. \A n \in Names : registry[n] = {}
    BY DEF Init
  <2> QED BY <2>1, <2>2, InitSafe DEF MatchInv, Asked
<1>2. TypeOK /\ TypeOK' /\ SafeInv /\ MatchInv /\ [Next]_vars => SafeInv' /\ MatchInv'
  BY SafeInvInductive, MatchInvInductive
<1>3. TypeOK /\ MatchInv => RegistryMatchesChild
  BY DEF TypeOK, Entry, MatchInv, Settled, RegistryMatchesChild
<1> QED BY <1>1, <1>2, <1>3, TypeCorrect, PTL DEF Spec

(* The firewall rule goes with the last helper, for every instance. *)
THEOREM FirewallCloses == Spec => []RuleScoped
<1>1. Init => RuleScoped
  BY DEF Init, RuleScoped
<1>2. TypeOK /\ RuleScoped /\ [Next]_vars => RuleScoped'
  <2> SUFFICES ASSUME TypeOK, RuleScoped, [Next]_vars PROVE RuleScoped'
    OBVIOUS
  <2> USE DEF TypeOK, RuleScoped
  <2>1. ASSUME NEW h \in Helpers, HelperStep(h) PROVE RuleScoped'
    BY <2>1 DEF HelperStep, OpenRule, Bind, BindFails, CloseRule, Kill
  <2>2. ASSUME End, UNCHANGED <<rule, leaked>> PROVE RuleScoped'
    BY <2>2 DEF End
  <2>3. ASSUME UNCHANGED firewall PROVE RuleScoped'
    BY <2>3 DEF firewall
  <2>4. CASE ServeStep
    BY <2>2, <2>3, <2>4 DEF ServeStep, ServeAttempt, Accept, WouldBlock, TimeOut, Sleep, GiveUp, ReadHello,
       ReadPubkey, ReadAck, ReadDecline, WriteFails
  <2>5. ASSUME NEW a \in Attempts, PairStep(a) PROVE RuleScoped'
    BY <2>3, <2>5 DEF PairStep, StartPairing, PairResult, Connect, ReadSpake, ReadConfirm,
       Confirm, Decline, Say, AttemptFails, Abandon
  <2> QED BY <2>1, <2>2, <2>3, <2>4, <2>5 DEF Next, Expire, AcceptFails, Stray, vars
<1> QED BY <1>1, <1>2, TypeCorrect, PTL DEF Spec

-----------------------------------------------------------------------------
(* Every step of the two computers and the parent is a step of the promise *)
(* or leaves what it speaks of alone.                                      *)
LEMMA StepKeepsPromise ==
  ASSUME TypeOK, SafeInv, [Next]_vars
  PROVE  [Promise!Next]_(Promise!promise)
<1> DEFINE Same == UNCHANGED <<verdict, authorized, registry>>
<1>s. Same => UNCHANGED Promise!promise
  BY DEF Promise!promise
<1> SUFFICES ASSUME ~Same PROVE Promise!Next
  BY <1>s
<1>1. ASSUME NEW h \in Helpers, HelperStep(h) PROVE FALSE
  BY <1>1 DEF HelperStep, OpenRule, Bind, BindFails, CloseRule, Kill, child, parent
<1>2. ASSUME NEW a \in Attempts, ReadAck(a) \/ WriteFails(a) PROVE Promise!Next
  <2>1. verdict[a] = "yes" /\ authorized' = authorized \cup {a} /\ UNCHANGED <<verdict, registry>>
    BY <1>2 DEF SafeInv, ReadAck, WriteFails, Reads, parent
  <2> QED BY <2>1 DEF Promise!Next, Promise!Install
<1>3. CASE ServeStep
  <2>1. PICK a \in Attempts : ReadAck(a) \/ WriteFails(a)
    BY <1>3 DEF ServeStep, ServeAttempt, Accept, WouldBlock, TimeOut, Sleep, GiveUp, ReadHello, ReadPubkey,
       ReadDecline, parent
  <2> QED BY <1>2, <2>1
<1>4. ASSUME NEW a \in Attempts, NEW answer \in {"yes", "no"}, Say(a, answer) PROVE Promise!Next
  <2>1. verdict[a] = "none" /\ verdict' = [verdict EXCEPT ![a] = answer]
        /\ UNCHANGED <<authorized, registry>>
    BY <1>4 DEF SafeInv, Say, child
  <2> QED BY <2>1 DEF Promise!Next, Promise!Decide
<1>5. ASSUME NEW a \in Attempts, NEW n \in Names, PairResult(a, n) PROVE Promise!Next
  <2> DEFINE e == [key |-> a, path |-> client[a].path]
             Known(r) == {f.key : f \in UNION {r[m] : m \in Names}}
  <2>1. verdict[a] = "yes" /\ UNCHANGED <<verdict, authorized>>
    BY <1>5 DEF SafeInv, PairResult, child
  <2>2. registry' = [registry EXCEPT ![n] = {e}]
    BY <1>5 DEF PairResult
  <2>3. a \in Known(registry')
    <3>1. e \in UNION {registry'[m] : m \in Names} /\ e.key = a
      BY <2>2 DEF TypeOK
    <3> QED BY <3>1
  <2>4. Known(registry') \subseteq Known(registry) \cup {a}
    <3>1. \A f \in UNION {registry'[m] : m \in Names} :
            f = e \/ f \in UNION {registry[m] : m \in Names}
      BY <2>2 DEF TypeOK
    <3>2. e.key = a
      OBVIOUS
    <3> QED BY <3>1, <3>2
  <2> QED BY <2>1, <2>3, <2>4 DEF Promise!Next, Promise!Register
<1>6. ASSUME NEW a \in Attempts, PairStep(a) PROVE Promise!Next
  BY <1>4, <1>5, <1>6 DEF PairStep, StartPairing, Connect, ReadSpake, ReadConfirm, Confirm,
     Decline, AttemptFails, Abandon, child
<1> QED BY <1>1, <1>3, <1>6 DEF Next, Expire, AcceptFails, Stray, child, parent, vars

(* Pairing implements its promise, for every instance. *)
THEOREM KeepsPromise == Spec => PromiseKept
<1>1. Init => Promise!Init
  BY DEF Init, Promise!Init
<1>2. Init => SafeInv
  BY InitSafe
<1>3. TypeOK /\ TypeOK' /\ SafeInv /\ [Next]_vars => SafeInv'
  BY SafeInvInductive
<1>4. TypeOK /\ SafeInv /\ [Next]_vars => [Promise!Next]_(Promise!promise)
  BY StepKeepsPromise
<1> QED BY <1>1, <1>2, <1>3, <1>4, TypeCorrect, PTL DEF Spec, PromiseKept, Promise!Spec

-----------------------------------------------------------------------------
(* An attempt is once in line, at most, and has a key only when it has     *)
(* left it.                                                                *)
LineInv ==
  \A a \in Attempts :
    /\ \A i, j \in DOMAIN backlog : backlog[i] = a /\ backlog[j] = a => i = j
    /\ a \in serve.conn => a \notin Waiting
    /\ a \in authorized => a \notin serve.conn \cup Waiting
    /\ client[a].pc \in {"idle", "connect"} => a \notin serve.conn \cup Waiting \cup authorized

(* One more in line, and the first taken from it.                          *)
LEMMA LineOnce ==
  ASSUME NEW S, NEW s \in Seq(S), NEW a,
         \A i, j \in DOMAIN s : s[i] = a /\ s[j] = a => i = j
  PROVE  /\ \A e \in S : (e = a => a \notin {s[i] : i \in DOMAIN s}) =>
              \A i, j \in DOMAIN Append(s, e) :
                Append(s, e)[i] = a /\ Append(s, e)[j] = a => i = j
         /\ s # <<>> =>
              /\ Head(s) = a => a \notin {Tail(s)[i] : i \in DOMAIN Tail(s)}
              /\ \A i, j \in DOMAIN Tail(s) : Tail(s)[i] = a /\ Tail(s)[j] = a => i = j
<1>1. ASSUME NEW e \in S, e = a => a \notin {s[i] : i \in DOMAIN s},
             NEW i \in DOMAIN Append(s, e), NEW j \in DOMAIN Append(s, e),
             Append(s, e)[i] = a, Append(s, e)[j] = a
      PROVE  i = j
  <2>1. DOMAIN s = 1..Len(s) /\ DOMAIN Append(s, e) = 1..(Len(s) + 1) /\ Len(s) \in Nat
    OBVIOUS
  <2>2. \A k \in 1..(Len(s) + 1) :
          Append(s, e)[k] = IF k = Len(s) + 1 THEN e ELSE s[k]
    OBVIOUS
  <2> QED BY <1>1, <2>1, <2>2
<1>2. ASSUME s # <<>>
      PROVE  /\ Head(s) = a => a \notin {Tail(s)[i] : i \in DOMAIN Tail(s)}
             /\ \A i, j \in DOMAIN Tail(s) : Tail(s)[i] = a /\ Tail(s)[j] = a => i = j
  <2>1. DOMAIN s = 1..Len(s) /\ DOMAIN Tail(s) = 1..(Len(s) - 1) /\ Len(s) \in Nat \ {0}
    BY <1>2
  <2>2. Head(s) = s[1] /\ \A k \in 1..(Len(s) - 1) : Tail(s)[k] = s[k + 1]
    BY <1>2
  <2>3. \A k \in 1..(Len(s) - 1) : k + 1 \in DOMAIN s /\ k + 1 # 1
    BY <2>1
  <2>4. 1 \in DOMAIN s
    BY <2>1
  <2>5. ASSUME NEW k \in DOMAIN Tail(s), Head(s) = a, Tail(s)[k] = a PROVE FALSE
    BY <2>1, <2>2, <2>3, <2>4, <2>5
  <2>6. ASSUME NEW i \in DOMAIN Tail(s), NEW j \in DOMAIN Tail(s), Tail(s)[i] = a, Tail(s)[j] = a
        PROVE  i = j
    <3>1. i + 1 = j + 1
      BY <2>1, <2>2, <2>3, <2>6
    <3> QED BY <2>1, <3>1
  <2> QED BY <2>5, <2>6
<1> QED BY <1>1, <1>2

(* The same of the connections that wait. *)
LEMMA InLine ==
  ASSUME backlog \in Seq(Conns)
  PROVE  /\ \A e \in Conns : backlog' = Append(backlog, e) => Waiting' = Waiting \cup {e}
         /\ backlog # <<>> /\ backlog' = Tail(backlog) => Waiting = {Head(backlog)} \cup Waiting'
<1>1. ASSUME NEW e \in Conns, backlog' = Append(backlog, e) PROVE Waiting' = Waiting \cup {e}
  <2>1. \A f \in Conns : {Append(backlog, f)[i] : i \in DOMAIN Append(backlog, f)}
                            = {backlog[i] : i \in DOMAIN backlog} \cup {f}
    BY Queueing, Z3
  <2> QED BY ONLY <1>1, <2>1 DEF Waiting
<1>2. ASSUME backlog # <<>>, backlog' = Tail(backlog) PROVE Waiting = {Head(backlog)} \cup Waiting'
  <2>1. {Head(backlog)} \cup {Tail(backlog)[i] : i \in DOMAIN Tail(backlog)}
          = {backlog[i] : i \in DOMAIN backlog}
    BY <1>2, Queueing
  <2> QED BY ONLY <1>2, <2>1 DEF Waiting
<1> QED BY <1>1, <1>2

(* Whoever leaves serve's hands leaves it for good. *)
LEMMA LineInvInductive ==
  ASSUME TypeOK, LineInv, [Next]_vars
  PROVE  LineInv'
<1> USE DEF TypeOK, Serve, Client, Conns, LineInv
<1>1. ASSUME backlog' = backlog, serve'.conn \subseteq serve.conn,
             authorized' \ authorized \subseteq serve.conn \ serve'.conn,
             \A a \in Attempts :
               client'[a].pc \in {"idle", "connect"} => client[a].pc \in {"idle", "connect"}
      PROVE  LineInv'
  BY <1>1 DEF Waiting
<1>2. ASSUME backlog' = <<>>, serve'.conn = {}, client' = client,
             \A a \in authorized' \ authorized : client[a].pc \notin {"idle", "connect"}
      PROVE  LineInv'
  BY <1>2 DEF Waiting
<1>3. ASSUME NEW h \in Helpers, HelperStep(h) PROVE LineInv'
  <2>1. CASE Kill(h)
    <3>1. UNCHANGED <<client, authorized>>
      BY <2>1 DEF Kill, parent
    <3>2. \/ backlog' = <<>> /\ serve'.conn = {}
          \/ backlog' = backlog /\ serve'.conn = serve.conn
      BY <2>1 DEF Kill, NoServe
    <3> QED BY <1>1, <1>2, <3>1, <3>2
  <2>2. CASE OpenRule(h) \/ Bind(h) \/ BindFails(h) \/ CloseRule(h)
    BY <1>1, <2>2 DEF OpenRule, Bind, BindFails, CloseRule, wire, child, parent
  <2> QED BY <1>3, <2>1, <2>2 DEF HelperStep
<1>4. CASE Expire
  BY <1>1, <1>4 DEF Expire, wire, parent
<1>5. CASE Accept
  <2>1. /\ serve'.conn = {Head(backlog)} /\ backlog' = Tail(backlog) /\ backlog # <<>>
        /\ authorized' = authorized /\ client' = client
    BY <1>5 DEF Accept, parent
  <2>2. Waiting = {Head(backlog)} \cup Waiting'
    BY <2>1, InLine
  <2>3. ASSUME NEW a \in Attempts
        PROVE  /\ \A i, j \in DOMAIN backlog' : backlog'[i] = a /\ backlog'[j] = a => i = j
               /\ Head(backlog) = a => a \notin Waiting'
    <3>1. backlog \in Seq(Conns) /\ \A i, j \in DOMAIN backlog : backlog[i] = a /\ backlog[j] = a => i = j
      OBVIOUS
    <3>2. Waiting' = {Tail(backlog)[i] : i \in DOMAIN Tail(backlog)}
      BY <2>1 DEF Waiting
    <3> QED BY ONLY <2>1, <3>1, <3>2, LineOnce
  <2> QED BY <2>1, <2>2, <2>3
<1>6. CASE TimeOut
  BY <1>2, <1>6 DEF TimeOut, End, NoServe, parent
<1>w. CASE WouldBlock
  BY <1>1, <1>w DEF WouldBlock, wire, parent, firewall
<1>z. CASE Sleep
  BY <1>1, <1>z DEF Sleep, wire, parent, firewall
<1>f. CASE AcceptFails
  BY <1>2, <1>f DEF AcceptFails, End, NoServe, parent
<1>7. CASE GiveUp
  BY <1>1, <1>7 DEF GiveUp, Drop, wire, parent
<1>8. ASSUME NEW a \in Attempts, ReadHello(a) \/ ReadPubkey(a) \/ ReadDecline(a) \/ WriteFails(a)
      PROVE  LineInv'
  <2>1. CASE ReadHello(a) \/ ReadPubkey(a)
    <3>1. UNCHANGED <<backlog, authorized, client>>
      BY <2>1 DEF ReadHello, ReadPubkey, parent
    <3>2. serve'.conn \in {serve.conn, {}}
      <4>1. \/ \E pc \in {"payload", "ack"} : serve' = [serve EXCEPT !.pc = pc]
            \/ serve' = [serve EXCEPT !.pc = "accept", !.conn = {}]
        BY <2>1 DEF ReadHello, ReadPubkey, Answers, Rejects, Drop
      <4> QED BY <4>1
    <3> QED BY <1>1, <3>1, <3>2
  <2>2. CASE ReadDecline(a)
    BY <1>1, <2>2 DEF ReadDecline, Drop, parent
  <2>3. CASE WriteFails(a)
    BY <1>1, <2>3 DEF WriteFails, Reads, Drop, parent
  <2> QED BY <1>8, <2>1, <2>2, <2>3
<1>9. ASSUME NEW a \in Attempts, ReadAck(a) PROVE LineInv'
  BY <1>2, <1>9 DEF ReadAck, Reads, End, NoServe, parent
<1>10. ASSUME NEW a \in Attempts, NEW n \in Names, StartPairing(a, n) PROVE LineInv'
  BY <1>1, <1>10 DEF StartPairing, wire, child
<1>11. ASSUME NEW a \in Attempts, Connect(a) PROVE LineInv'
  <2>1. /\ backlog' = Append(backlog, a) /\ serve' = serve /\ authorized' = authorized
        /\ client[a].pc = "connect" /\ client'[a].pc = "spake"
        /\ \A b \in Attempts \ {a} : client'[b] = client[b]
    BY <1>11 DEF Connect, Goes, child
  <2>2. Waiting' = Waiting \cup {a}
    BY <2>1, InLine
  <2>3. ASSUME NEW b \in Attempts
        PROVE  \A i, j \in DOMAIN backlog' : backlog'[i] = b /\ backlog'[j] = b => i = j
    BY <2>1, LineOnce DEF Waiting
  <2> QED BY <2>1, <2>2, <2>3
<1>12. ASSUME NEW c \in Strays, Stray(c) PROVE LineInv'
  <2>1. /\ backlog' = Append(backlog, c) /\ serve' = serve /\ authorized' = authorized
        /\ client' = client /\ c \notin Attempts
    BY <1>12, PairingAssumption DEF Stray, child, parent
  <2>2. Waiting' = Waiting \cup {c}
    BY <2>1, InLine
  <2>3. ASSUME NEW b \in Attempts
        PROVE  \A i, j \in DOMAIN backlog' : backlog'[i] = b /\ backlog'[j] = b => i = j
    BY <2>1, LineOnce
  <2> QED BY <2>1, <2>2, <2>3
<1>13. ASSUME NEW a \in Attempts, NEW to \in {"confirm", "asking", "acked", "over"},
              Goes(a, to), UNCHANGED <<backlog, child>>
       PROVE  LineInv'
  BY <1>1, <1>13 DEF Goes, child
<1>14. ASSUME client' = client, UNCHANGED <<backlog, child>> PROVE LineInv'
  BY <1>1, <1>14 DEF child
<1>15. ASSUME NEW a \in Attempts, PairStep(a) PROVE LineInv'
  BY <1>10, <1>11, <1>13, <1>14, <1>15 DEF PairStep, PairResult, ReadSpake, ReadConfirm,
     Confirm, Decline, Say, AttemptFails, Abandon, wire
<1>16. CASE UNCHANGED vars
  BY <1>14, <1>16 DEF vars, wire, parent, child
<1> QED
  BY <1>3, <1>4, <1>5, <1>6, <1>7, <1>8, <1>9, <1>12, <1>15, <1>16, <1>w, <1>z, <1>f
     DEF Next, ServeStep, ServeAttempt

(* Nobody in line is passed over or sent away because of another's         *)
(* exchange, for every instance (issue #37): what could go wrong is the    *)
(* end of a window whose success installs nothing new, and LineInv says    *)
(* that there is none.                                                     *)
THEOREM TurnKeptHolds == Spec => TurnKept
<1> DEFINE Turn(c) == \/ c \in Waiting' \/ serve'.conn = {c}
                      \/ authorized' # authorized
                      \/ AcceptFails
                      \/ serve.pc = "empty" /\ serve.expired
                      \/ \E h \in serve.owner : helper'[h] = "idle"
<1>1. Init => LineInv
  BY InitSafe DEF Init, NoServe, Waiting, LineInv
<1>2. TypeOK /\ LineInv /\ [Next]_vars => LineInv'
  BY LineInvInductive
<1>3. TypeOK /\ LineInv /\ [Next]_vars => [\A c \in Waiting : Turn(c)]_vars
  <2> SUFFICES ASSUME TypeOK, LineInv, Next, NEW c \in Waiting PROVE Turn(c)
    OBVIOUS
  <2>1. backlog' = backlog => Turn(c)
    BY DEF Waiting
  <2>2. ASSUME NEW e \in Conns, backlog' = Append(backlog, e) PROVE Turn(c)
    BY <2>2, InLine DEF TypeOK
  <2>3. CASE Accept
    <3>1. serve'.conn = {Head(backlog)} /\ backlog' = Tail(backlog) /\ backlog # <<>>
      BY <2>3 DEF Accept, TypeOK, Serve
    <3>2. Waiting = {Head(backlog)} \cup Waiting'
      BY <3>1, InLine DEF TypeOK
    <3> QED BY <3>1, <3>2
  <2>4. CASE TimeOut
    BY <2>4 DEF TimeOut
  <2>5. ASSUME NEW a \in Attempts, ReadAck(a) PROVE Turn(c)
    BY <2>5 DEF ReadAck, Reads, LineInv
  <2>6. ASSUME NEW h \in Helpers, Kill(h) PROVE Turn(c)
    BY <2>1, <2>6 DEF Kill, TypeOK
  <2>7. ASSUME NEW h \in Helpers, HelperStep(h) PROVE Turn(c)
    BY <2>1, <2>6, <2>7 DEF HelperStep, OpenRule, Bind, BindFails, CloseRule, wire
  <2>8. CASE ServeStep
    BY <2>1, <2>3, <2>4, <2>5, <2>8 DEF ServeStep, ServeAttempt, WouldBlock, Sleep, GiveUp, ReadHello, ReadPubkey,
       ReadDecline, WriteFails, wire
  <2>9. ASSUME NEW a \in Attempts, PairStep(a) PROVE Turn(c)
    BY <2>1, <2>2, <2>9 DEF PairStep, StartPairing, PairResult, Connect, ReadSpake, ReadConfirm,
       Confirm, Decline, Say, AttemptFails, Abandon, wire, Conns
  <2>10. ASSUME NEW s \in Strays, Stray(s) PROVE Turn(c)
    BY <2>2, <2>10 DEF Stray, Conns
  <2>11. AcceptFails => Turn(c)
    OBVIOUS
  <2> HIDE DEF Turn
  <2> QED BY <2>1, <2>11, <2>7, <2>8, <2>9, <2>10 DEF Next, Expire, wire
<1> QED BY <1>1, <1>2, <1>3, TypeCorrect, PTL DEF Spec, TurnKept
=============================================================================
