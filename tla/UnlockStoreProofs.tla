-------------------------- MODULE UnlockStoreProofs --------------------------
(***************************************************************************)
(* Safety of UnlockStore for every set of apps, every grant length, every  *)
(* set of faults and every bound.                                          *)
(***************************************************************************)
EXTENDS UnlockStore, TLAPS


(* The entry and the audit row of a grant have their types. *)
LEMMA EntryOfType == \A g \in Grant : EntryOf(g) \in Entry /\ RowOf(g) \in Row
<1> SUFFICES ASSUME NEW g \in Grant PROVE EntryOf(g) \in Entry /\ RowOf(g) \in Row
  OBVIOUS
<1>1. g.app \in Apps /\ g.minutes \in Nat /\ g.minutes \in Minutes /\ g.at \in Nat /\ g.override \in BOOLEAN
  BY StoreAssumption DEF Grant
<1> QED BY <1>1 DEF EntryOf, RowOf, Entry, Row

(* Every variable keeps its type. *)
THEOREM TypeCorrect == Spec => []TypeOK
<1>1. Init => TypeOK
  <2>1. DefaultPolicy \in Policy
    BY DEF DefaultPolicy, Policy
  <2>2. Init => now \in Nat
    BY DEF Init
  <2>3. Init => up \in BOOLEAN
    BY Zenon DEF Init
  <2> QED BY <2>1, <2>2, <2>3 DEF Init, TypeOK
<1>2. TypeOK /\ [Next]_vars => TypeOK'
  <2> SUFFICES ASSUME TypeOK, [Next]_vars PROVE TypeOK'
    OBVIOUS
  <2> USE DEF TypeOK
  <2>1. CASE Start
    BY <2>1 DEF Start, handler, EffectiveTiles, Policy, Entry
  <2>2. CASE Crash
    BY <2>2 DEF Crash, Done, DefaultPolicy, Policy, history
  <2>3. CASE Advance
    BY <2>3 DEF Advance, store, handler, history
  <2>4. CASE EditAllowlist
    BY <2>4 DEF EditAllowlist, store, handler, history
  <2>5. ASSUME NEW r \in Request, CheckUnlock(r) PROVE TypeOK'
    BY <2>5 DEF CheckUnlock, store, handler, history
  <2>6. ASSUME NEW r \in Request, BeginUnlock(r) PROVE TypeOK'
    <3> DEFINE g == [app |-> r.app, minutes |-> r.minutes, at |-> now, override |-> r.override]
    <3>1. g \in Grant
      BY DEF Request, Grant
    <3>2. EntryOf(g) \in Entry
      BY <3>1, EntryOfType
    <3>3. mem' \in Policy
      BY <2>6, <3>2 DEF BeginUnlock, WithUnlock, Policy
    <3> QED BY <2>6, <3>1, <3>3 DEF BeginUnlock
  <2>7. ASSUME NEW base \in SUBSET Apps, BeginSetTier(base) PROVE TypeOK'
    BY <2>7 DEF BeginSetTier, Policy, history
  <2>8. CASE Prune
    BY <2>8 DEF Prune, Unexpired, Policy, history
  <2>9. CASE Handle
    <3>1. CASE Save
      BY <3>1 DEF Save
    <3>2. CASE SaveFails
      BY <3>2 DEF SaveFails, Done, store
    <3>3. CASE Render
      BY <3>3 DEF Render, Done, EffectiveTiles, Policy, Entry
    <3>4. CASE RenderFails
      BY <3>4 DEF RenderFails, Done, store
    <3>5. CASE LogOverride
      BY <3>5, EntryOfType DEF LogOverride, Done
    <3>6. CASE LogFails
      BY <3>6 DEF LogFails, Done, store
    <3> QED BY <2>9, <3>1, <3>2, <3>3, <3>4, <3>5, <3>6 DEF Handle
  <2>10. CASE UNCHANGED vars
    BY <2>10 DEF vars, store, handler, history
  <2> QED BY <2>1, <2>2, <2>3, <2>4, <2>5, <2>6, <2>7, <2>8, <2>9, <2>10 DEF Next
<1> QED BY <1>1, <1>2, PTL DEF Spec

-----------------------------------------------------------------------------
(* HandlerInv, CopiesAgree and AckedGrantDurable together are preserved by *)
(* every step: no one of them is alone.                                    *)
LEMMA IInvInductive ==
  ASSUME TypeOK, TypeOK', HandlerInv, CopiesAgree, AckedGrantDurable, [Next]_vars
  PROVE  HandlerInv' /\ CopiesAgree' /\ AckedGrantDurable'
<1> USE DEF HandlerInv, CopiesAgree, AckedGrantDurable, Idle
<1>1. CASE Start
  BY <1>1 DEF Start, handler, EffectiveTiles, EntryOf
<1>2. CASE Crash
  BY <1>2 DEF Crash, Done, history, EntryOf
<1>3. CASE Advance
  <2>1. \A g \in acked : g.at + g.minutes > now' => g.at + g.minutes > now
    <3>1. ASSUME NEW g \in acked PROVE g.at \in Nat /\ g.minutes \in Nat
      BY StoreAssumption DEF TypeOK, Grant
    <3> QED BY <1>3, <3>1 DEF Advance, TypeOK
  <2> QED BY <1>3, <2>1 DEF Advance, store, handler, history, EffectiveTiles, EntryOf
<1>4. CASE EditAllowlist
  BY <1>4 DEF EditAllowlist, store, handler, history, EffectiveTiles, EntryOf
<1>5. ASSUME NEW r \in Request, CheckUnlock(r)
      PROVE  HandlerInv' /\ CopiesAgree' /\ AckedGrantDurable'
  BY <1>5 DEF CheckUnlock, store, handler, history, EffectiveTiles, EntryOf
<1>6. ASSUME NEW r \in Request, BeginUnlock(r)
      PROVE  HandlerInv' /\ CopiesAgree' /\ AckedGrantDurable'
  <2> DEFINE n == [app |-> r.app, minutes |-> r.minutes, at |-> now, override |-> r.override]
  <2>1. mem' = WithUnlock(mem, EntryOf(n)) /\ grant' = {n}
    BY <1>6 DEF BeginUnlock
  <2>2. EntryOf(n) \in mem'.unlocked
    BY <2>1 DEF WithUnlock, TypeOK, Policy
  <2>3. \A g \in acked' : g \in acked /\ EntryOf(g).app # EntryOf(n).app
    BY <1>6 DEF BeginUnlock, EntryOf
  <2>4. \A g \in acked' : g.at + g.minutes > now => EntryOf(g) \in mem'.unlocked
    BY <1>6, <2>1, <2>3 DEF BeginUnlock, WithUnlock, TypeOK, Policy
  <2> QED BY <1>6, <2>1, <2>2, <2>3, <2>4 DEF BeginUnlock, EntryOf
<1>7. ASSUME NEW base \in SUBSET Apps, BeginSetTier(base)
      PROVE  HandlerInv' /\ CopiesAgree' /\ AckedGrantDurable'
  <2>1. mem'.unlocked = mem.unlocked
    BY <1>7 DEF BeginSetTier, TypeOK, Policy
  <2> QED BY <1>7, <2>1 DEF BeginSetTier, history, EntryOf
<1>8. CASE Prune
  <2>1. \A u \in mem.unlocked : u.expires > now => u \in mem'.unlocked
    BY <1>8 DEF Prune, Unexpired, TypeOK, Policy
  <2>2. \A g \in acked : EntryOf(g).expires = g.at + g.minutes
    BY DEF EntryOf
  <2> QED BY <1>8, <2>1, <2>2 DEF Prune, history, EntryOf
<1>9. CASE Handle
  <2>1. step # "idle" /\ up
    BY <1>9 DEF Handle, Save, SaveFails, Render, RenderFails, LogOverride, LogFails
  <2>2. CASE Save
    BY <2>1, <2>2 DEF Save, EffectiveTiles, EntryOf
  <2>3. CASE SaveFails
    BY <2>1, <2>3 DEF SaveFails, Done, store, EffectiveTiles, EntryOf
  <2>4. CASE Render
    <3>1. CASE \E g \in grant : g.override
      <4>1. kind = "request" /\ disk = mem
        BY <2>4, <3>1 DEF Render, TypeOK
      <4> QED BY <2>1, <2>4, <3>1, <4>1 DEF Render, EffectiveTiles, EntryOf
    <3>2. CASE ~ \E g \in grant : g.override
      <4>1. kind = "request" => disk = mem
        BY <2>4 DEF Render
      <4>2. \A g \in grant : EntryOf(g) \in disk.unlocked
        BY <2>1, <4>1 DEF TypeOK
      <4> QED BY <2>1, <2>4, <3>2, <4>1, <4>2 DEF Render, Done, EffectiveTiles, EntryOf
    <3> QED BY <3>1, <3>2
  <2>5. CASE RenderFails
    BY <2>1, <2>5 DEF RenderFails, Done, store, EffectiveTiles, EntryOf
  <2>6. CASE LogOverride
    BY <2>1, <2>6 DEF LogOverride, Done, EffectiveTiles, EntryOf
  <2>7. CASE LogFails
    BY <2>1, <2>7 DEF LogFails, Done, store, EffectiveTiles, EntryOf
  <2> QED BY <1>9, <2>2, <2>3, <2>4, <2>5, <2>6, <2>7 DEF Handle
<1>10. CASE UNCHANGED vars
  BY <1>10 DEF vars, store, handler, history, EffectiveTiles, EntryOf
<1> QED BY <1>1, <1>2, <1>3, <1>4, <1>5, <1>6, <1>7, <1>8, <1>9, <1>10 DEF Next

(* The steps of a handler, and with them both properties they serve, hold  *)
(* throughout (HandlerInv).                                                *)
THEOREM HandlerInvHolds == Spec => [](HandlerInv /\ CopiesAgree /\ AckedGrantDurable)
<1>1. Init => HandlerInv /\ CopiesAgree /\ AckedGrantDurable
  BY DEF Init, HandlerInv, CopiesAgree, AckedGrantDurable, Idle
<1>2. TypeOK /\ TypeOK' /\ HandlerInv /\ CopiesAgree /\ AckedGrantDurable /\ [Next]_vars
      => HandlerInv' /\ CopiesAgree' /\ AckedGrantDurable'
  BY IInvInductive
<1> QED BY <1>1, <1>2, TypeCorrect, PTL DEF Spec

(* The three copies agree whenever no handler runs (CopiesAgree).          *)
THEOREM CopiesAgreeHolds == Spec => []CopiesAgree
BY HandlerInvHolds, PTL

(* An unlock answered ok is in config.toml until it expires or is asked    *)
(* for again (AckedGrantDurable), whatever crashes and faults occur.       *)
THEOREM AckedGrantDurableHolds == Spec => []AckedGrantDurable
BY HandlerInvHolds, PTL

(* An app never has two unlocks (OneEntryPerApp).                          *)
THEOREM OneEntryPerAppHolds == Spec => []OneEntryPerApp
<1>1. Init => OneEntryPerApp
  BY DEF Init, OneEntryPerApp, DefaultPolicy
<1>2. TypeOK /\ OneEntryPerApp /\ [Next]_vars => OneEntryPerApp'
  <2> SUFFICES ASSUME TypeOK, OneEntryPerApp, [Next]_vars PROVE OneEntryPerApp'
    OBVIOUS
  <2> USE DEF OneEntryPerApp
  <2>1. CASE mem' = mem /\ disk' = disk
    BY <2>1
  <2>2. CASE mem' = disk /\ disk' = disk
    BY <2>2
  <2>3. CASE mem' = mem /\ disk' = mem
    BY <2>3
  <2>4. CASE mem' = DefaultPolicy /\ disk' = disk
    BY <2>4 DEF DefaultPolicy
  <2>5. ASSUME NEW r \in Request, BeginUnlock(r) PROVE OneEntryPerApp'
    <3>1. PICK e : mem' = WithUnlock(mem, e)
      BY <2>5 DEF BeginUnlock
    <3>2. mem'.unlocked = {u \in mem.unlocked : u.app # e.app} \cup {e}
      BY <3>1 DEF WithUnlock, TypeOK, Policy
    <3> QED BY <2>5, <3>2 DEF BeginUnlock
  <2>6. ASSUME NEW base \in SUBSET Apps, BeginSetTier(base) PROVE OneEntryPerApp'
    BY <2>6 DEF BeginSetTier, TypeOK, Policy
  <2>7. CASE Prune
    BY <2>7 DEF Prune, Unexpired, TypeOK, Policy
  <2>8. CASE Handle
    BY <2>8, <2>1, <2>3
       DEF Handle, Save, SaveFails, Render, RenderFails, LogOverride, LogFails, store
  <2> QED
    BY <2>1, <2>2, <2>4, <2>5, <2>6, <2>7, <2>8
       DEF Next, Start, Crash, Advance, EditAllowlist, CheckUnlock, vars, store
<1> QED BY <1>1, <1>2, TypeCorrect, PTL DEF Spec

(* Until an insert fails, no override is answered ok without its row       *)
(* (OverrideAccounted).                                                    *)
THEOREM OverrideAccountedHolds == Spec => []OverrideAccounted
<1>1. Init => OverrideAccounted
  BY DEF Init, OverrideAccounted
<1>2. OverrideAccounted /\ [Next]_vars => OverrideAccounted'
  <2> SUFFICES ASSUME OverrideAccounted, [Next]_vars PROVE OverrideAccounted'
    OBVIOUS
  <2> USE DEF OverrideAccounted
  <2>1. CASE acked' \subseteq acked /\ pinOverrides' = pinOverrides
                /\ ("log" \in stale => "log" \in stale')
    BY <2>1 DEF RowOf
  <2>2. CASE Render
    BY <2>2 DEF Render, RowOf
  <2>3. CASE LogOverride
    BY <2>3 DEF LogOverride, RowOf
  <2>4. CASE LogFails
    BY <2>4 DEF LogFails
  <2>5. ASSUME NEW r \in Request, BeginUnlock(r) PROVE OverrideAccounted'
    BY <2>5, <2>1 DEF BeginUnlock
  <2>6. CASE SaveFails
    BY <2>6, <2>1 DEF SaveFails, store
  <2>7. CASE Start
    BY <2>7, <2>1 DEF Start
  <2> QED
    BY <2>1, <2>2, <2>3, <2>4, <2>5, <2>6, <2>7
       DEF Next, Handle, Crash, Advance, EditAllowlist, CheckUnlock, BeginSetTier,
           Prune, Save, RenderFails, vars, store, history
<1> QED BY <1>1, <1>2, PTL DEF Spec

-----------------------------------------------------------------------------
(* The policy in force, and the unlocks that were promised. *)
InForce == IF up THEN mem ELSE disk

Promised == {EntryOf(g) : g \in acked}

(* A request makes one grant at most. *)
OneGrant == \A g, h \in grant : g = h

LEMMA OneGrantStep == OneGrant /\ [Next]_vars => OneGrant'
BY DEF OneGrant, Next, Start, Crash, Advance, EditAllowlist, CheckUnlock, BeginUnlock,
   BeginSetTier, Prune, Handle, Save, SaveFails, Render, RenderFails, LogOverride, LogFails,
   Done, handler, vars

(* Every step of a handler, of the ticker and of the process is a step of  *)
(* the promise or changes nothing of it.                                   *)
LEMMA StepKeepsPromise ==
  ASSUME TypeOK, HandlerInv, OneGrant, [Next]_vars
  PROVE  [Promise!Next]_(Promise!launch)
<1> DEFINE Same == UNCHANGED <<now, InForce, disk, tiles, Promised>>
<1>s. Same => UNCHANGED Promise!launch
  BY DEF Promise!launch, InForce, Promised
<1>a. acked' = acked => Promised' = Promised
  BY DEF Promised, EntryOf
<1>t. \A p \in Policy : Promise!Tiles(p) = EffectiveTiles(p)
  BY DEF Promise!Tiles, EffectiveTiles
<1>p. mem \in Policy /\ disk \in Policy /\ InForce \in Policy
  BY DEF TypeOK, InForce
<1>1. CASE Start
  <2>1. InForce' = InForce /\ tiles' = Promise!Tiles(InForce) /\ UNCHANGED <<now, disk, Promised>>
    BY <1>1, <1>a, <1>t, <1>p DEF Start, InForce
  <2> QED BY <2>1 DEF Promise!Next, Promise!Show, InForce, Promised
<1>2. CASE Crash
  <2>1. InForce' = disk /\ UNCHANGED <<now, disk, tiles, Promised>>
    BY <1>2, <1>a DEF Crash, InForce, history
  <2> QED BY <2>1 DEF Promise!Next, Promise!FallBack, InForce, Promised
<1>3. CASE Advance
  <2>1. now' = now + 1 /\ UNCHANGED <<InForce, disk, tiles, Promised>>
    BY <1>3, <1>a DEF Advance, InForce, store, history
  <2> QED BY <2>1 DEF Promise!Next, Promise!Pass, InForce, Promised
<1>4. CASE EditAllowlist
  <2>1. Same
    BY <1>4, <1>a DEF EditAllowlist, InForce, store, history
  <2> QED BY <2>1, <1>s
<1>5. ASSUME NEW r \in Request, CheckUnlock(r) PROVE Same
  BY <1>5, <1>a DEF CheckUnlock, InForce, store, history
<1>6. ASSUME NEW r \in Request, BeginUnlock(r) PROVE Promise!Next
  <2> DEFINE e == [app |-> r.app, expires |-> now + r.minutes, override |-> r.override]
  <2>1. r.app \in Apps /\ r.minutes \in Minutes /\ r.override \in BOOLEAN
    BY DEF Request
  <2>2. InForce' = [InForce EXCEPT !.unlocked = {u \in @ : u.app # r.app} \cup {e}]
    BY <1>6, <1>p DEF BeginUnlock, Idle, InForce, WithUnlock, EntryOf, Policy
  <2>3. Promised' = {u \in Promised : u.app # r.app}
    <3>1. acked' = {g \in acked : g.app # r.app}
      BY <1>6 DEF BeginUnlock
    <3>2. \A g \in acked : EntryOf(g).app = g.app
      BY DEF EntryOf
    <3> QED BY <3>1, <3>2 DEF Promised, EntryOf
  <2>4. UNCHANGED <<now, disk, tiles>>
    BY <1>6 DEF BeginUnlock
  <2>5. Promise!Grant(r.app, r.minutes, r.override)
    BY <2>2, <2>3, <2>4 DEF Promise!Grant, InForce, Promised
  <2> QED BY <2>1, <2>5 DEF Promise!Next
<1>7. ASSUME NEW base \in SUBSET Apps, BeginSetTier(base) PROVE Promise!Next
  <2>1. InForce' = [InForce EXCEPT !.base = base] /\ UNCHANGED <<now, disk, tiles, Promised>>
    BY <1>7, <1>a DEF BeginSetTier, Idle, InForce, history
  <2> QED BY <2>1 DEF Promise!Next, Promise!SetBase, InForce, Promised
<1>8. CASE Prune
  <2>1. InForce' = [InForce EXCEPT !.unlocked = {u \in @ : u.expires > now}]
    BY <1>8, <1>p DEF Prune, Idle, InForce, Unexpired, Policy
  <2>2. UNCHANGED <<now, disk, tiles, Promised>>
    BY <1>8, <1>a DEF Prune, history
  <2> QED BY <2>1, <2>2 DEF Promise!Next, Promise!Expire, InForce, Promised
<1>9. CASE Handle
  <2>1. up /\ up' = up /\ mem' = mem /\ InForce' = InForce /\ now' = now /\ InForce = mem
    BY <1>9 DEF Handle, Save, SaveFails, Render, RenderFails, LogOverride, LogFails,
       HandlerInv, InForce, store
  <2>2. CASE Save
    <3>1. disk' = InForce /\ UNCHANGED <<tiles, Promised>>
      BY <2>1, <2>2, <1>a DEF Save
    <3> QED BY <2>1, <3>1 DEF Promise!Next, Promise!Keep, InForce, Promised
  <2>3. CASE SaveFails \/ RenderFails
    <3>1. Same
      BY <2>1, <2>3, <1>a DEF SaveFails, RenderFails, store
    <3> QED BY <3>1, <1>s
  <2>4. ASSUME NEW g \in grant, disk = mem, tiles' = EffectiveTiles(mem), disk' = disk,
               acked' = acked \cup grant
        PROVE  Promise!Next
    <3>1. Promised' = Promised \cup {EntryOf(g)}
      <4>1. grant = {g}
        BY DEF OneGrant
      <4> QED BY <2>4, <4>1 DEF Promised, EntryOf
    <3>2. EntryOf(g) \in InForce.unlocked
      BY <2>1 DEF HandlerInv
    <3>3. tiles' = Promise!Tiles(InForce) /\ disk = InForce
      BY <2>1, <2>4, <1>t, <1>p
    <3> QED BY <2>1, <2>4, <3>1, <3>2, <3>3 DEF Promise!Next, Promise!Answer, InForce, Promised
  <2>6. CASE Render
    <3>1. tiles' = Promise!Tiles(InForce) /\ disk' = disk
      BY <2>1, <2>6, <1>t, <1>p DEF Render
    <3>2. CASE acked' = acked
      BY <2>1, <3>1, <3>2, <1>a DEF Promise!Next, Promise!Show, InForce, Promised
    <3>3. CASE acked' # acked
      <4>1. PICK g \in grant : acked' = acked \cup grant
        BY <2>6, <3>3 DEF Render
      <4>2. disk = mem
        BY <2>6, <4>1 DEF Render, HandlerInv, TypeOK
      <4> QED BY <2>4, <2>6, <3>1, <4>1, <4>2 DEF Render
    <3> QED BY <3>2, <3>3
  <2>5. CASE LogOverride \/ LogFails
    <3>1. acked' = acked \cup grant /\ tiles' = EffectiveTiles(mem) /\ disk' = disk /\ disk = mem
      BY <2>5 DEF LogOverride, LogFails, HandlerInv, store
    <3>2. CASE grant = {}
      <4>1. Same
        BY <2>1, <2>5, <3>1, <3>2, <1>a DEF LogOverride, LogFails, store
      <4> QED BY <4>1, <1>s
    <3> QED BY <2>4, <3>1, <3>2
  <2> QED BY <1>9, <2>2, <2>3, <2>5, <2>6 DEF Handle
<1>10. CASE UNCHANGED vars
  <2>1. Same
    BY <1>10, <1>a DEF vars, InForce, store, history
  <2> QED BY <2>1, <1>s
<1> QED BY <1>s, <1>1, <1>2, <1>3, <1>4, <1>5, <1>6, <1>7, <1>8, <1>9, <1>10 DEF Next

(* The store implements its promise (PromiseKept): no unlock comes, goes   *)
(* or is prolonged but by a grant, its expiry or a crash before it was     *)
(* saved, and an answered one is in memory, on disk and among the tiles.   *)
THEOREM KeepsPromise == Spec => PromiseKept
<1>1. Init => Promise!Init /\ OneGrant
  BY DEF Init, Promise!Init, DefaultPolicy, OneGrant
<1>2. OneGrant /\ [Next]_vars => OneGrant'
  BY OneGrantStep
<1>3. TypeOK /\ HandlerInv /\ OneGrant /\ [Next]_vars => [Promise!Next]_(Promise!launch)
  BY StepKeepsPromise
<1> QED BY <1>1, <1>2, <1>3, TypeCorrect, HandlerInvHolds, PTL
        DEF Spec, PromiseKept, Promise!Spec

(* What the promise is worth: whoever keeps it forgets no answered unlock  *)
(* before its time.                                                        *)
THEOREM PromiseHolds == Promise!Spec => []Promise!Held
<1> DEFINE Unlocks == [app : Apps, expires : Nat, override : BOOLEAN]
           Policies == [base : SUBSET Apps, unlocked : SUBSET Unlocks]
           Inv == /\ now \in Nat /\ InForce \in Policies /\ disk \in Policies
                  /\ Promised \subseteq Unlocks
                  /\ \A e \in Promised :
                       e.expires > now => e \in InForce.unlocked /\ e \in disk.unlocked
<1>1. Promise!Init => Inv
  BY DEF Promise!Init, InForce, Promised
<1>2. Inv /\ [Promise!Next]_(Promise!launch) => Inv'
  <2> SUFFICES ASSUME Inv, [Promise!Next]_(Promise!launch) PROVE Inv'
    OBVIOUS
  <2>1. CASE Promise!Pass
    <3>1. now' = now + 1 /\ UNCHANGED <<InForce, disk, Promised>>
      BY <2>1 DEF Promise!Pass, InForce, Promised
    <3> QED BY <3>1
  <2>2. ASSUME NEW app \in Apps, NEW m \in Minutes, NEW override \in BOOLEAN,
               Promise!Grant(app, m, override)
        PROVE  Inv'
    <3> DEFINE e == [app |-> app, expires |-> now + m, override |-> override]
    <3>1. InForce' = [InForce EXCEPT !.unlocked = {u \in @ : u.app # app} \cup {e}]
          /\ Promised' = {u \in Promised : u.app # app} /\ UNCHANGED <<now, disk>>
      BY <2>2 DEF Promise!Grant, InForce, Promised
    <3>2. e \in Unlocks
      BY StoreAssumption
    <3> HIDE DEF e
    <3>3. InForce' \in Policies /\ InForce'.unlocked = {u \in InForce.unlocked : u.app # app} \cup {e}
      BY <3>1, <3>2
    <3> QED BY <3>1, <3>3
  <2>3. ASSUME NEW base \in SUBSET Apps, Promise!SetBase(base) PROVE Inv'
    <3>1. InForce' = [InForce EXCEPT !.base = base] /\ UNCHANGED <<now, disk, Promised>>
      BY <2>3 DEF Promise!SetBase, InForce, Promised
    <3> QED BY <3>1
  <2>4. CASE Promise!Expire
    <3>1. InForce' = [InForce EXCEPT !.unlocked = {u \in @ : u.expires > now}]
          /\ UNCHANGED <<now, disk, Promised>>
      BY <2>4 DEF Promise!Expire, InForce, Promised
    <3> QED BY <3>1
  <2>5. CASE Promise!FallBack
    <3>1. InForce' = disk /\ UNCHANGED <<now, disk, Promised>>
      BY <2>5 DEF Promise!FallBack, InForce, Promised
    <3> QED BY <3>1
  <2>6. CASE Promise!Keep
    <3>1. disk' = InForce /\ UNCHANGED <<now, InForce, Promised>>
      BY <2>6 DEF Promise!Keep, InForce, Promised
    <3> QED BY <3>1
  <2>7. CASE Promise!Answer
    <3>1. PICK e \in InForce.unlocked : Promised' = Promised \cup {e}
      BY <2>7 DEF Promise!Answer, InForce, Promised
    <3>2. disk = InForce /\ UNCHANGED <<now, InForce, disk>>
      BY <2>7 DEF Promise!Answer, InForce
    <3> QED BY <3>1, <3>2
  <2>8. ASSUME UNCHANGED <<now, InForce, disk, Promised>> PROVE Inv'
    BY <2>8
  <2> QED BY <2>1, <2>2, <2>3, <2>4, <2>5, <2>6, <2>7, <2>8
          DEF Promise!Next, Promise!Show, Promise!launch, InForce, Promised
<1>3. Inv => Promise!Held
  BY DEF Promise!Held, InForce, Promised
<1> QED BY <1>1, <1>2, <1>3, PTL DEF Promise!Spec

=============================================================================
