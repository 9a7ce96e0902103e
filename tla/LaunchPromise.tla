---------------------------- MODULE LaunchPromise ----------------------------
(***************************************************************************)
(* What agentd's launch policy promises, without handlers, failures or a   *)
(* mutex: the policy in force changes by a grant, by the parent's choice   *)
(* of a tier or by time alone, or falls back to what was kept; what is     *)
(* kept and what the child is shown are only ever the policy in force; and *)
(* a grant is answered only when all three are the same.                   *)
(***************************************************************************)
EXTENDS Integers

CONSTANTS
  Apps,     \* desktop ids
  Minutes   \* lengths of grants

VARIABLES
  now,
  policy,   \* in force: what is read when agentd asks itself, or starts next
  kept,     \* what a restart brings back
  shown,    \* the child's tiles
  promised  \* unlocks answered ok and not asked for again since

launch == <<now, policy, kept, shown, promised>>

Tiles(p) == p.base \cup {u.app : u \in p.unlocked}

Init ==
  /\ now = 0
  /\ policy = [base |-> {}, unlocked |-> {}]
  /\ kept = policy
  /\ shown = {}
  /\ promised = {}

Pass == now' = now + 1 /\ UNCHANGED <<policy, kept, shown, promised>>

(* A grant takes the place of the app's last one, and of its promise. *)
Grant(app, minutes, override) ==
  /\ LET e == [app |-> app, expires |-> now + minutes, override |-> override]
     IN  policy' = [policy EXCEPT !.unlocked = {u \in @ : u.app # app} \cup {e}]
  /\ promised' = {u \in promised : u.app # app}
  /\ UNCHANGED <<now, kept, shown>>

SetBase(base) ==
  /\ policy' = [policy EXCEPT !.base = base]
  /\ UNCHANGED <<now, kept, shown, promised>>

Expire ==
  /\ policy' = [policy EXCEPT !.unlocked = {u \in @ : u.expires > now}]
  /\ UNCHANGED <<now, kept, shown, promised>>

(* What was not kept before a crash is not in force after it. *)
FallBack == policy' = kept /\ UNCHANGED <<now, kept, shown, promised>>

Keep == kept' = policy /\ UNCHANGED <<now, policy, shown, promised>>

Show == shown' = Tiles(policy) /\ UNCHANGED <<now, policy, kept, promised>>

(* The parent is told "ok": the unlock is in force, kept and shown. *)
Answer ==
  /\ kept = policy
  /\ shown' = Tiles(policy)
  /\ \E e \in policy.unlocked : promised' = promised \cup {e}
  /\ UNCHANGED <<now, policy, kept>>

Next ==
  \/ Pass \/ Expire \/ FallBack \/ Keep \/ Show \/ Answer
  \/ \E app \in Apps, m \in Minutes, override \in BOOLEAN : Grant(app, m, override)
  \/ \E base \in SUBSET Apps : SetBase(base)

Spec == Init /\ [][Next]_launch

(* So what was answered is in force and kept until it expires. *)
Held ==
  \A e \in promised :
    e.expires > now => e \in policy.unlocked /\ e \in kept.unlocked
=============================================================================
