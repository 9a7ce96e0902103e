------------------------------- MODULE Pairing -------------------------------
(***************************************************************************)
(* How a parent's computer becomes trusted: the repair helper opens the    *)
(* firewall and runs `serve`, which shows a session id and a code and      *)
(* takes one connection after another; the Control Center's dialog runs    *)
(* `pair`, which makes a key and offers it; the parent compares the        *)
(* fingerprint; serve installs the key and the dialog registers the host.  *)
(*                                                                         *)
(* The two sides alternate, so a connection holds at most one message each *)
(* way.  SPAKE2 and the cipher are what their outcome is: a payload opens  *)
(* on the other side exactly if both used the same code.  A connection     *)
(* that is no pair process (a stray) sends nothing of use and ends, or     *)
(* stays silent until serve's read times out.                              *)
(***************************************************************************)
EXTENDS Integers, Sequences, FiniteSets

CONSTANTS
  Attempts,    \* runs of `pair`, each with the key pair it generates
  Strays,      \* other connections to the port
  Helpers,     \* runs of the repair helper that may exist at once
  Names,       \* names the parent may type for the child
  Paths,       \* key files on the parent's computer
  PathOf,      \* computeKeyPath: names may share one
  MaxWindows,  \* bound: pairing windows in a behaviour
  Faults       \* any of "kill", "disk", "ufw", "net"

Conns == Attempts \cup Strays

ASSUME PairingAssumption ==
  /\ Attempts \cap Strays = {}
  /\ PathOf \in [Names -> Paths]
  /\ MaxWindows \in Nat
  /\ Faults \subseteq {"kill", "disk", "ufw", "net"}

VARIABLES
  helper,      \* per repair helper: where it is
  rule,        \* the firewall lets the pairing port through
  serve,       \* the listening process: what it waits for, for whom
  window,      \* windows opened so far: the newest one's session id
  backlog,     \* connections the listener has not accepted yet
  sent,        \* per connection: the message serve has not read yet
  reply,       \* per connection: the message the client has not read yet
  client,      \* per attempt: where pair is, and what the parent typed
  keyFile,     \* per path: the key that lies there, if any
  authorized,  \* keys in the child's authorized_keys
  registry,    \* HostRegistry: per name at most one host, its key and path
  failed,      \* connections serve has reported as failed
  (* history, read by properties only *)
  verdict,     \* what the parent said to each attempt
  halfway,     \* keys written although the attempt failed
  leaked       \* the rule outlived its helper

wire == <<backlog, sent, reply>>
child == <<serve, window, authorized, failed, halfway>>
parent == <<client, keyFile, registry, verdict>>
firewall == <<helper, rule, leaked>>
vars == <<wire, child, parent, firewall>>

Entry == [key : Attempts, path : Paths]
Serve == [pc : {"none", "accept", "empty", "hello", "payload", "ack"},
          conn : SUBSET Conns, expired : BOOLEAN, owner : SUBSET Helpers]
Client == [pc : {"idle", "connect", "spake", "confirm", "asking", "acked", "over"},
           sid : Nat, rightCode : BOOLEAN, path : Paths]

TypeOK ==
  /\ helper \in [Helpers -> {"idle", "opened", "serving", "served"}]
  /\ rule \in BOOLEAN
  /\ serve \in Serve
  /\ window \in Nat
  /\ backlog \in Seq(Conns)
  /\ sent \in [Conns -> {"nothing", "hello", "pubkey", "yes", "no"}]
  /\ reply \in [Conns -> {"nothing", "spake", "confirm", "error"}]
  /\ client \in [Attempts -> Client]
  /\ keyFile \in [Paths -> SUBSET Attempts]
  /\ authorized \in SUBSET Attempts
  /\ registry \in [Names -> SUBSET Entry]
  /\ failed \in SUBSET Conns
  /\ verdict \in [Attempts -> {"none", "yes", "no"}]
  /\ halfway \in SUBSET Attempts
  /\ leaked \in BOOLEAN
  /\ serve.pc \in {"none", "accept", "empty"} <=> serve.conn = {}

NoServe == [pc |-> "none", conn |-> {}, expired |-> FALSE, owner |-> {}]

Init ==
  /\ helper = [h \in Helpers |-> "idle"]
  /\ rule = FALSE
  /\ serve = NoServe
  /\ window = 0
  /\ backlog = <<>>
  /\ sent = [c \in Conns |-> "nothing"]
  /\ reply = [c \in Conns |-> "nothing"]
  /\ \E p \in Paths : client = [a \in Attempts |->
       [pc |-> "idle", sid |-> 0, rightCode |-> FALSE, path |-> p]]
  /\ keyFile = [p \in Paths |-> {}]
  /\ authorized = {}
  /\ registry = [n \in Names |-> {}]
  /\ failed = {}
  /\ verdict = [a \in Attempts |-> "none"]
  /\ halfway = {}
  /\ leaked = FALSE

Waiting == {backlog[i] : i \in DOMAIN backlog}

(* serve has closed the connection, or died. *)
Gone(c) == c \notin serve.conn /\ c \notin Waiting

-----------------------------------------------------------------------------
(* The repair helper and the firewall. *)

(* open_pairing_ufw_rule; if it fails the helper ends, nothing opened. *)
OpenRule(h) ==
  /\ helper[h] = "idle"
  /\ window < MaxWindows
  /\ helper' = [helper EXCEPT ![h] = "opened"]
  /\ rule' = TRUE
  /\ UNCHANGED <<leaked, wire, child, parent>>

(* serve binds the port: the window is open. *)
Bind(h) ==
  /\ helper[h] = "opened"
  /\ serve.pc = "none"
  /\ window < MaxWindows
  /\ helper' = [helper EXCEPT ![h] = "serving"]
  /\ serve' = [pc |-> "accept", conn |-> {}, expired |-> FALSE, owner |-> {h}]
  /\ window' = window + 1
  /\ UNCHANGED <<rule, leaked, wire, authorized, failed, halfway, parent>>

(* serve fails before it listens; always when the port is taken. *)
BindFails(h) ==
  /\ helper[h] = "opened"
  /\ helper' = [helper EXCEPT ![h] = "served"]
  /\ UNCHANGED <<rule, leaked, wire, child, parent>>

(* Mutant of CloseRule: the rule is left when serve ended with an error. *)
CloseRuleOnSuccess(h) ==
  /\ helper[h] = "served"
  /\ helper' = [helper EXCEPT ![h] = "idle"]
  /\ IF authorized # {} THEN rule' = FALSE ELSE rule' = rule
  /\ leaked' = (leaked /\ rule')
  /\ UNCHANGED <<wire, child, parent>>

(* close_pairing_ufw_rule deletes the rule of the port, whoever added it. *)
CloseRule(h) ==
  /\ helper[h] = "served"
  /\ helper' = [helper EXCEPT ![h] = "idle"]
  /\ \/ rule' = FALSE /\ leaked' = FALSE
     \/ "ufw" \in Faults /\ rule' = rule /\ leaked' = rule
  /\ UNCHANGED <<wire, child, parent>>

-----------------------------------------------------------------------------
(* serve. *)

(* The process ends: its listener and its connections close, the helper    *)
(* that waits for it goes on.                                              *)
End ==
  /\ serve' = NoServe
  /\ backlog' = <<>>
  /\ helper' = [h \in Helpers |-> IF h \in serve.owner THEN "served" ELSE helper[h]]

(* Mutant of Drop: the connection is not closed. *)
DropKeeps ==
  /\ serve' = [serve EXCEPT !.pc = "accept"]
  /\ failed' = failed \cup serve.conn

(* The attempt failed, the window stays open. *)
Drop ==
  /\ serve' = [serve EXCEPT !.pc = "accept", !.conn = {}]
  /\ failed' = failed \cup serve.conn

Expire ==
  /\ serve.pc # "none"
  /\ ~serve.expired
  /\ serve' = [serve EXCEPT !.expired = TRUE]
  /\ UNCHANGED <<window, authorized, failed, halfway, wire, parent, firewall>>

(* accept_until takes a waiting connection without a look at the deadline. *)
Accept ==
  /\ serve.pc = "accept"
  /\ backlog # <<>>
  /\ serve' = [serve EXCEPT !.pc = "hello", !.conn = {Head(backlog)}]
  /\ backlog' = Tail(backlog)
  /\ UNCHANGED <<sent, reply, window, authorized, failed, halfway, parent, firewall>>

(* accept returns WouldBlock: only now is the deadline looked at. *)
WouldBlock ==
  /\ serve.pc = "accept"
  /\ backlog = <<>>
  /\ serve' = [serve EXCEPT !.pc = "empty"]
  /\ UNCHANGED <<window, authorized, failed, halfway, wire, parent, firewall>>

TimeOut ==
  /\ serve.pc = "empty"
  /\ serve.expired
  /\ End
  /\ UNCHANGED <<sent, reply, window, authorized, failed, halfway, parent, rule, leaked>>

(* There is time left: accept is tried again after 200 ms. *)
Sleep ==
  /\ serve.pc = "empty"
  /\ ~serve.expired
  /\ serve' = [serve EXCEPT !.pc = "accept"]
  /\ UNCHANGED <<window, authorized, failed, halfway, wire, parent, firewall>>

(* accept, or a setting of the connection it took, fails: serve ends with  *)
(* the error, whoever waits.                                               *)
AcceptFails ==
  /\ "net" \in Faults
  /\ serve.pc = "accept"
  /\ End
  /\ UNCHANGED <<sent, reply, window, authorized, failed, halfway, parent, rule, leaked>>

(* One message of handle_connection is read and answered. *)
Reads(c, expects, message) ==
  /\ serve.pc = expects
  /\ serve.conn = {c}
  /\ sent[c] = message
  /\ sent' = [sent EXCEPT ![c] = "nothing"]

Answers(c, next, message) ==
  /\ serve' = [serve EXCEPT !.pc = next]
  /\ reply' = [reply EXCEPT ![c] = message]
  /\ failed' = failed

Rejects(c) ==
  /\ Drop
  /\ reply' = [reply EXCEPT ![c] = "error"]

ReadHello(a) ==
  /\ Reads(a, "hello", "hello")
  /\ IF client[a].sid = window THEN Answers(a, "payload", "spake") ELSE Rejects(a)
  /\ UNCHANGED <<backlog, window, authorized, halfway, parent, firewall>>

(* Mutant of ReadPubkey: the code is not tried. *)
ReadPubkeyOfAnyone(a) ==
  /\ Reads(a, "payload", "pubkey")
  /\ Answers(a, "ack", "confirm")
  /\ UNCHANGED <<backlog, window, authorized, halfway, parent, firewall>>

(* Only the right code decrypts; nothing is installed yet. *)
ReadPubkey(a) ==
  /\ Reads(a, "payload", "pubkey")
  /\ IF client[a].rightCode THEN Answers(a, "ack", "confirm") ELSE Rejects(a)
  /\ UNCHANGED <<backlog, window, authorized, halfway, parent, firewall>>

(* Mutants of ReadAck: serve goes on after its success; it installs        *)
(* nothing; it takes any answer for a yes.                                 *)
ReadAckAgain(a) ==
  /\ Reads(a, "ack", "yes")
  /\ authorized' = authorized \cup {a}
  /\ serve' = [serve EXCEPT !.pc = "accept", !.conn = {}]
  /\ UNCHANGED <<backlog, reply, helper, window, failed, halfway, parent, rule, leaked>>

ReadAckUnwritten(a) ==
  /\ Reads(a, "ack", "yes")
  /\ End
  /\ UNCHANGED <<authorized, reply, window, failed, halfway, parent, rule, leaked>>

ReadAckAnswered(a) ==
  /\ \E answer \in {"yes", "no"} : Reads(a, "ack", answer)
  /\ authorized' = authorized \cup {a}
  /\ End
  /\ UNCHANGED <<reply, window, failed, halfway, parent, rule, leaked>>

(* A confirmed Ack: write_to_authorized_keys, and serve has succeeded. *)
ReadAck(a) ==
  /\ Reads(a, "ack", "yes")
  /\ authorized' = authorized \cup {a}
  /\ End
  /\ UNCHANGED <<reply, window, failed, halfway, parent, rule, leaked>>

ReadDecline(a) ==
  /\ Reads(a, "ack", "no")
  /\ Drop
  /\ UNCHANGED <<backlog, reply, window, authorized, halfway, parent, firewall>>

(* The file cannot be written, or only its mode cannot be set. *)
WriteFails(a) ==
  /\ "disk" \in Faults
  /\ Reads(a, "ack", "yes")
  /\ Drop
  /\ \/ UNCHANGED <<authorized, halfway>>
     \/ authorized' = authorized \cup {a} /\ halfway' = halfway \cup {a}
  /\ UNCHANGED <<backlog, reply, window, parent, firewall>>

(* Mutants of GiveUp: a connection that fails ends the window; a silent    *)
(* one is waited for without a timeout.                                    *)
GiveUpWindow ==
  /\ \E c \in serve.conn : sent[c] = "nothing"
  /\ failed' = failed \cup serve.conn
  /\ End
  /\ UNCHANGED <<sent, reply, window, authorized, halfway, parent, rule, leaked>>

GiveUpOnClients ==
  /\ \E c \in serve.conn \cap Attempts : sent[c] = "nothing"
  /\ Drop
  /\ UNCHANGED <<wire, window, authorized, halfway, parent, firewall>>

(* Nothing readable arrives: the peer is gone, sends garbage, or lets the  *)
(* 30 seconds of the read pass.                                            *)
GiveUp ==
  /\ \E c \in serve.conn : sent[c] = "nothing"
  /\ Drop
  /\ UNCHANGED <<wire, window, authorized, halfway, parent, firewall>>

(* The helper is killed; serve dies with it or goes on alone. *)
Kill(h) ==
  /\ "kill" \in Faults
  /\ helper[h] # "idle"
  /\ leaked' = rule
  /\ \/ /\ h \in serve.owner
        /\ serve' = NoServe
        /\ backlog' = <<>>
        /\ failed' = failed \cup serve.conn
     \/ /\ serve' = [serve EXCEPT !.owner = @ \ {h}]
        /\ UNCHANGED <<backlog, failed>>
  /\ helper' = [helper EXCEPT ![h] = "idle"]
  /\ UNCHANGED <<rule, sent, reply, window, authorized, halfway, parent>>

-----------------------------------------------------------------------------
(* pair, the dialog that runs it, and its parent. *)

Goes(a, to) == client' = [client EXCEPT ![a].pc = to]

Running(a) == client[a].pc \notin {"idle", "over"}

(* startPairing: no other attempt runs on, the key file of that name is    *)
(* cleared, pair makes a new one.  The parent may type an old session id   *)
(* or a wrong code.                                                        *)
StartPairing(a, n) ==
  /\ client[a].pc = "idle"
  /\ \A b \in Attempts : ~Running(b)
  /\ \E sid \in 1..window, right \in BOOLEAN :
       client' = [client EXCEPT ![a] = [pc |-> "connect", sid |-> sid,
                                        rightCode |-> right, path |-> PathOf[n]]]
  /\ keyFile' = [keyFile EXCEPT ![PathOf[n]] = {a}]
  /\ UNCHANGED <<registry, verdict, wire, child, firewall>>

Reachable == serve.pc # "none" /\ rule

Connect(a) ==
  /\ client[a].pc = "connect"
  /\ Reachable
  /\ Goes(a, "spake")
  /\ sent' = [sent EXCEPT ![a] = "hello"]
  /\ backlog' = Append(backlog, a)
  /\ UNCHANGED <<reply, keyFile, registry, verdict, child, firewall>>

(* A stray may come again and again, one connection at a time. *)
Stray(c) ==
  /\ Reachable
  /\ Gone(c)
  /\ backlog' = Append(backlog, c)
  /\ UNCHANGED <<sent, reply, child, parent, firewall>>

(* The server's SpakeMsg: the public key goes out encrypted. *)
ReadSpake(a) ==
  /\ client[a].pc = "spake"
  /\ reply[a] = "spake"
  /\ Goes(a, "confirm")
  /\ reply' = [reply EXCEPT ![a] = "nothing"]
  /\ sent' = [sent EXCEPT ![a] = "pubkey"]
  /\ UNCHANGED <<backlog, keyFile, registry, verdict, child, firewall>>

(* The fingerprint is shown and the parent asked. *)
ReadConfirm(a) ==
  /\ client[a].pc = "confirm"
  /\ reply[a] = "confirm"
  /\ Goes(a, "asking")
  /\ reply' = [reply EXCEPT ![a] = "nothing"]
  /\ UNCHANGED <<backlog, sent, keyFile, registry, verdict, child, firewall>>

(* An Error message or a closed connection; no connection at all. *)
AttemptFails(a) ==
  /\ \/ client[a].pc = "connect" /\ ~Reachable
     \/ client[a].pc \in {"spake", "confirm"} /\ reply[a] = "error"
     \/ client[a].pc \in {"spake", "confirm"} /\ reply[a] = "nothing" /\ Gone(a)
  /\ Goes(a, "over")
  /\ UNCHANGED <<keyFile, registry, verdict, wire, child, firewall>>

(* The Ack of a client whose connection serve has closed is lost, and the  *)
(* client does not notice: nothing answers an Ack.                         *)
Say(a, answer) ==
  /\ client[a].pc = "asking"
  /\ verdict' = [verdict EXCEPT ![a] = answer]
  /\ sent' = IF Gone(a) THEN sent ELSE [sent EXCEPT ![a] = answer]
  /\ UNCHANGED <<backlog, reply, keyFile, registry, child, firewall>>

Confirm(a) == Say(a, "yes") /\ Goes(a, "acked")

Decline(a) == Say(a, "no") /\ Goes(a, "over")

(* PAIR_RESULT reaches the dialog, which registers the host under the name *)
(* that is in its field now.                                               *)
PairResult(a, n) ==
  /\ client[a].pc = "acked"
  /\ Goes(a, "over")
  /\ registry' = [registry EXCEPT ![n] = {[key |-> a, path |-> client[a].path]}]
  /\ UNCHANGED <<keyFile, verdict, wire, child, firewall>>

(* The parent closes the dialog, or pair fails on its own side; what was   *)
(* sent stays sent.                                                        *)
Abandon(a) ==
  /\ Running(a)
  /\ Goes(a, "over")
  /\ UNCHANGED <<keyFile, registry, verdict, wire, child, firewall>>

-----------------------------------------------------------------------------
HelperStep(h) == OpenRule(h) \/ Bind(h) \/ BindFails(h) \/ CloseRule(h) \/ Kill(h)

ServeAttempt(a) ==
  \/ ReadHello(a) \/ ReadPubkey(a)
  \/ ReadAck(a) \/ ReadDecline(a) \/ WriteFails(a)

ServeStep ==
  \/ Accept \/ WouldBlock \/ TimeOut \/ Sleep \/ GiveUp
  \/ \E a \in Attempts : ServeAttempt(a)

PairStep(a) ==
  \/ \E n \in Names : StartPairing(a, n) \/ PairResult(a, n)
  \/ Connect(a) \/ ReadSpake(a) \/ ReadConfirm(a)
  \/ Confirm(a) \/ Decline(a)
  \/ AttemptFails(a) \/ Abandon(a)

Next ==
  \/ \E h \in Helpers : HelperStep(h)
  \/ Expire
  \/ ServeStep
  \/ AcceptFails
  \/ \E a \in Attempts : PairStep(a)
  \/ \E c \in Strays : Stray(c)

Spec == Init /\ [][Next]_vars

(* The deadline passes, serve's loop runs and each of its reads ends, by a *)
(* message or by its timeout; the helper runs to its end.  Nobody need     *)
(* pair, answer or connect.                                                *)
FairSpec ==
  /\ Spec
  /\ WF_vars(Expire)
  /\ WF_vars(ServeStep)
  /\ \A h \in Helpers : WF_vars(Bind(h) \/ BindFails(h) \/ CloseRule(h))

-----------------------------------------------------------------------------
(* A key is installed only for an attempt with this window's code and the  *)
(* parent's yes: a decline, a wrong code or a connection that ends before  *)
(* the Ack leaves no trace (issue #34).                                    *)
KeyOnlyConfirmed ==
  \A a \in authorized : verdict[a] = "yes" /\ client[a].rightCode

(* A window installs one key (main.rs: "only a *successful* pairing or the *)
(* overall timeout ends `serve`"), also if another attempt with its code   *)
(* waits in line - unless the file's mode could not be set.                *)
OneKeyPerWindow ==
  \A a, b \in authorized \ halfway :
    client[a].sid = client[b].sid => a = b

(* The two computers agree: a registered key is installed, or its Ack is   *)
(* under way, or serve has reported the attempt as failed.                 *)
RegistryMatchesChild ==
  \A n \in Names : \A e \in registry[n] :
    \/ e.key \in authorized \cup failed
    \/ serve.conn = {e.key} /\ sent[e.key] = "yes"

(* The firewall rule is there for no longer than a helper, success or not, *)
(* unless one was killed or ufw failed.                                    *)
RuleScoped == rule => leaked \/ \E h \in Helpers : helper[h] # "idle"

(* A connection that waits gets its turn whatever the exchanges before it  *)
(* come to (issue #37).  It loses its place only to a successful pairing,  *)
(* to an error of the listener, to the deadline if it came after accept    *)
(* had found nobody, or when serve is killed with its helper.              *)
TurnKept ==
  [][\A c \in Waiting :
       \/ c \in Waiting' \/ serve'.conn = {c}
       \/ authorized' # authorized
       \/ AcceptFails
       \/ serve.pc = "empty" /\ serve.expired
       \/ \E h \in serve.owner : helper'[h] = "idle"]_vars

(* A window whose time is over ends, and its helper with it, once nobody   *)
(* connects any more, though peers be silent: the deadline is only looked  *)
(* at while no connection waits.                                           *)
WindowEnds ==
  \A h \in Helpers :
    <>[][Waiting' \subseteq Waiting]_vars =>
      (serve.expired /\ h \in serve.owner) ~> helper[h] = "idle"

(* Pairing as the two computers and the parent carry it out keeps the      *)
(* promise.                                                                *)
Promise == INSTANCE PairingPromise WITH
  installed <- authorized,
  known <- {e.key : e \in UNION {registry[n] : n \in Names}}

PromiseKept == Promise!Spec

(* pairing_dialog.cpp says of the key file it clears that "nothing outside *)
(* this dialog can be depending on that half-written key": the file of a   *)
(* registered host is kept.                                                *)
RegisteredKeyKept ==
  \A n \in Names : \A e \in registry[n] : keyFile[e.path] = {e.key}
=============================================================================
