----------------------------- MODULE UnlockStore -----------------------------
(***************************************************************************)
(* The launch policy that agentd owns, and its three copies: the Config in *)
(* memory behind the state mutex, config.toml on disk, and the rendered    *)
(* launcher-apps.json the kiosk launcher watches; beside them the          *)
(* pin_overrides audit table.                                              *)
(*                                                                         *)
(* A handler holds the mutex from its first write to memory until its      *)
(* reply, so handlers never interleave with one another.  They are still   *)
(* several steps here, because the disk, the launcher and a crash do see   *)
(* the states between "memory changed", "saved", "rendered" and "logged".  *)
(*                                                                         *)
(* Abstracted: a tile is its desktop id (label, icon and swatch follow     *)
(* it), tile order is not kept, time is in minutes, and an absent          *)
(* config.toml is the default Config that load_or_init writes in its       *)
(* place.                                                                  *)
(***************************************************************************)
EXTENDS Integers, FiniteSets

CONSTANTS
  Apps,       \* desktop ids
  Installed,  \* those that resolve to a .desktop file
  Minutes,    \* grant lengths a request may carry
  MaxTime,    \* bound: the clock stops here
  MaxWaiting, \* bound: requests that wait for the mutex at once
  MaxRows,    \* bound: rows of pin_overrides
  Faults      \* what may go wrong: any of "save", "render", "log", "crash"

ASSUME StoreAssumption ==
  /\ Installed \subseteq Apps
  /\ Minutes \subseteq Nat
  /\ MaxTime \in Nat
  /\ MaxWaiting \in Nat
  /\ MaxRows \in Nat
  /\ Faults \subseteq {"save", "render", "log", "crash"}

VARIABLES
  now,           \* Utc::now()
  up,            \* agentd is running and has bound its socket
  mem,           \* State.config.apps, meaningful while up
  disk,          \* config.toml
  tiles,         \* launcher-apps.json
  pinOverrides,  \* rows of pin_overrides
  allowlist,     \* the parent-curated unlockable-apps file
  requests,      \* Unlock / Override requests past the allow-list check that
                 \* still wait for the mutex
  step,          \* what the handler that holds the mutex does next
  kind,          \* who holds it: a request, or the ticker
  grant,         \* the grant that request is making, at most one
  (* history, read by properties only *)
  acked,         \* grants answered ok and not asked for again since
  stale          \* the copies a failed step left behind, until they are
                 \* written again, which a row never is ("log")

store == <<mem, disk, tiles, pinOverrides>>
handler == <<step, kind, grant>>
history == <<acked, stale>>
vars == <<now, up, store, allowlist, requests, handler, history>>

Entry  == [app : Apps, expires : Nat, override : BOOLEAN]
Policy == [base : SUBSET Apps, unlocked : SUBSET Entry]
Row    == [app : Apps, minutes : Minutes, at : Nat]
Request == [app : Apps, minutes : Minutes, override : BOOLEAN]
(* An entry with the moment and the length it was granted for. *)
Grant  == [app : Apps, minutes : Minutes, at : Nat, override : BOOLEAN]

TypeOK ==
  /\ now \in Nat
  /\ up \in BOOLEAN
  /\ mem \in Policy
  /\ disk \in Policy
  /\ tiles \in SUBSET Apps
  /\ pinOverrides \in SUBSET Row
  /\ allowlist \in SUBSET Apps
  /\ requests \in SUBSET Request
  /\ step \in {"idle", "save", "render", "log"}
  /\ kind \in {"request", "ticker"}
  /\ grant \in SUBSET Grant
  /\ acked \in SUBSET Grant
  /\ stale \in SUBSET {"disk", "tiles", "log"}

DefaultPolicy == [base |-> {}, unlocked |-> {}]

(* is_app_allowed: the expiry is not looked at, the ticker is what removes. *)
IsAppAllowed(p, app) == app \in p.base \/ \E u \in p.unlocked : u.app = app

(* effective_launcher_tiles: base, then unlocked, each id once. *)
EffectiveTiles(p) == p.base \cup {u.app : u \in p.unlocked}

(* Mutant of EntryOf: the expiry on the wrong side of the grant. *)
EntryOfBefore(g) == [app |-> g.app, expires |-> g.at - g.minutes, override |-> g.override]
EntryOf(g) == [app |-> g.app, expires |-> g.at + g.minutes, override |-> g.override]
RowOf(g)   == [app |-> g.app, minutes |-> g.minutes, at |-> g.at]

(* unlock_is_permitted: Override is exempt from the allow-list. *)
UnlockIsPermitted(app, override) == override \/ app \in allowlist

(* Mutant of WithUnlock: push alone. *)
WithUnlockPushed(p, e) == [p EXCEPT !.unlocked = p.unlocked \cup {e}]

(* retain(desktop_id != app), then push. *)
WithUnlock(p, e) ==
  [p EXCEPT !.unlocked = {u \in p.unlocked : u.app # e.app} \cup {e}]

(* prune_expired_unlocks: what retain(expires_at > now) keeps. *)
Unexpired(entries) == {u \in entries : u.expires > now}

-----------------------------------------------------------------------------
Init ==
  /\ now = 0
  /\ up = FALSE
  /\ mem = DefaultPolicy
  /\ disk = DefaultPolicy
  /\ tiles = {}
  /\ pinOverrides = {}
  /\ allowlist \in SUBSET Apps
  /\ requests = {}
  /\ step = "idle"
  /\ kind = "request"
  /\ grant = {}
  /\ acked = {}
  /\ stale = {}

Idle == up /\ step = "idle"

(* The handler returns: it drops the mutex and forgets what it was doing. *)
Done == step' = "idle" /\ kind' = "request" /\ grant' = {}

(* Mutants of Start: one that begins with the default config, one that     *)
(* leaves the launcher as it is.                                           *)
StartFresh ==
  /\ ~up
  /\ up' = TRUE
  /\ mem' = DefaultPolicy
  /\ tiles' = {}
  /\ stale' = stale \cap {"log"}
  /\ UNCHANGED <<now, disk, pinOverrides, allowlist, requests, handler, acked>>

StartUnrendered ==
  /\ ~up
  /\ up' = TRUE
  /\ mem' = disk
  /\ stale' = stale \cap {"log"}
  /\ UNCHANGED <<now, disk, tiles, pinOverrides, allowlist, requests, handler, acked>>

(* main: load the config, render the launcher, bind the socket.  A failure *)
(* before the render changes nothing, one after it is a Start and a Crash; *)
(* systemd tries again.                                                    *)
Start ==
  /\ ~up
  /\ up' = TRUE
  /\ mem' = disk
  /\ tiles' = EffectiveTiles(disk)
  /\ stale' = stale \cap {"log"}
  /\ UNCHANGED <<now, disk, pinOverrides, allowlist, requests, handler, acked>>

(* The process dies at any point; only the files are left. *)
Crash ==
  /\ "crash" \in Faults
  /\ up
  /\ up' = FALSE
  /\ mem' = DefaultPolicy
  /\ requests' = {}
  /\ Done
  /\ UNCHANGED <<now, disk, tiles, pinOverrides, allowlist, history>>

Advance ==
  /\ now < MaxTime
  /\ now' = now + 1
  /\ UNCHANGED <<up, store, allowlist, requests, handler, history>>

(* The parent edits the list; {} is also an absent or a malformed file. *)
EditAllowlist ==
  /\ allowlist' \in SUBSET Apps
  /\ UNCHANGED <<now, up, store, requests, handler, history>>

-----------------------------------------------------------------------------
(* handle_unlock reads the allow-list before it takes the mutex; a refused *)
(* request changes nothing.                                                *)
CheckUnlock(r) ==
  /\ up
  /\ UnlockIsPermitted(r.app, r.override)
  /\ Cardinality(requests) < MaxWaiting
  /\ requests' = requests \cup {r}
  /\ UNCHANGED <<now, up, store, allowlist, handler, history>>

(* handle_unlock from lock() to the end of its change to memory. *)
BeginUnlock(r) ==
  /\ Idle
  /\ r \in requests
  /\ r.override => Cardinality(pinOverrides) < MaxRows
  /\ requests' = requests \ {r}
  /\ LET g == [app |-> r.app, minutes |-> r.minutes, at |-> now, override |-> r.override]
     IN  /\ mem' = WithUnlock(mem, EntryOf(g))
         /\ grant' = {g}
  /\ step' = "save"
  /\ kind' = "request"
  /\ acked' = {g \in acked : g.app # r.app}
  /\ UNCHANGED <<now, up, disk, tiles, pinOverrides, allowlist, stale>>

(* handle_set_tier past its checks: every tile of the new base resolves.   *)
(* A request without apps is the one whose base is the present one.        *)
BeginSetTier(base) ==
  /\ Idle
  /\ base \subseteq Installed \/ base = mem.base
  /\ mem' = [mem EXCEPT !.base = base]
  /\ step' = "save"
  /\ UNCHANGED <<now, up, disk, tiles, pinOverrides, allowlist, requests, kind,
                 grant, history>>

(* Mutant of Prune: the ticker renders without saving. *)
PruneUnsaved ==
  /\ Idle
  /\ mem.unlocked # Unexpired(mem.unlocked)
  /\ mem' = [mem EXCEPT !.unlocked = Unexpired(mem.unlocked)]
  /\ step' = "render"
  /\ kind' = "ticker"
  /\ UNCHANGED <<now, up, disk, tiles, pinOverrides, allowlist, requests, grant,
                 history>>

(* The ticker's part that touches the policy: it saves and renders only if *)
(* it removed something.                                                   *)
Prune ==
  /\ Idle
  /\ mem.unlocked # Unexpired(mem.unlocked)
  /\ mem' = [mem EXCEPT !.unlocked = Unexpired(mem.unlocked)]
  /\ step' = "save"
  /\ kind' = "ticker"
  /\ UNCHANGED <<now, up, disk, tiles, pinOverrides, allowlist, requests, grant,
                 history>>

(* config.save: written beside the file and renamed over it. *)
Save ==
  /\ step = "save"
  /\ disk' = mem
  /\ step' = "render"
  /\ stale' = stale \ {"disk"}
  /\ UNCHANGED <<now, up, mem, tiles, pinOverrides, allowlist, requests, kind,
                 grant, acked>>

(* Mutant of SaveFails: a request goes on too. *)
SaveFailsIgnored ==
  /\ "save" \in Faults
  /\ step = "save"
  /\ step' = "render"
  /\ stale' = stale \cup {"disk"}
  /\ UNCHANGED <<now, up, store, allowlist, requests, kind, grant, acked>>

(* A request returns its error at once, the ticker logs it and goes on. *)
SaveFails ==
  /\ "save" \in Faults
  /\ step = "save"
  /\ \/ kind = "ticker" /\ step' = "render" /\ UNCHANGED <<kind, grant>>
        /\ stale' = stale \cup {"disk"}
     \/ kind = "request" /\ Done /\ stale' = stale \cup {"disk", "tiles"}
  /\ UNCHANGED <<now, up, store, allowlist, requests, acked>>

(* Mutant of Render: an override is answered before its row is written. *)
RenderAnswers ==
  /\ step = "render"
  /\ tiles' = EffectiveTiles(mem)
  /\ stale' = stale \ {"tiles"}
  /\ acked' = acked \cup grant
  /\ IF \E g \in grant : g.override THEN step' = "log" /\ UNCHANGED <<kind, grant>> ELSE Done
  /\ UNCHANGED <<now, up, mem, disk, pinOverrides, allowlist, requests>>

(* launcher::render, renamed into place too.  An override still has its    *)
(* row to write, everything else is answered ok.                           *)
Render ==
  /\ step = "render"
  /\ tiles' = EffectiveTiles(mem)
  /\ stale' = stale \ {"tiles"}
  /\ IF \E g \in grant : g.override
       THEN step' = "log" /\ UNCHANGED <<kind, grant, acked>>
       ELSE Done /\ acked' = acked \cup grant
  /\ UNCHANGED <<now, up, mem, disk, pinOverrides, allowlist, requests>>

RenderFails ==
  /\ "render" \in Faults
  /\ step = "render"
  /\ stale' = stale \cup {"tiles"}
  /\ Done
  /\ UNCHANGED <<now, up, store, allowlist, requests, acked>>

(* insert_pin_override; the request is answered ok. *)
LogOverride ==
  /\ step = "log"
  /\ pinOverrides' = pinOverrides \cup {RowOf(g) : g \in grant}
  /\ acked' = acked \cup grant
  /\ Done
  /\ UNCHANGED <<now, up, mem, disk, tiles, allowlist, requests, stale>>

(* Its failure is printed, and the request is answered ok all the same. *)
LogFails ==
  /\ "log" \in Faults
  /\ step = "log"
  /\ acked' = acked \cup grant
  /\ stale' = stale \cup {"log"}
  /\ Done
  /\ UNCHANGED <<now, up, store, allowlist, requests>>

Handle ==
  \/ Save \/ SaveFails
  \/ Render \/ RenderFails
  \/ LogOverride \/ LogFails

Next ==
  \/ Start
  \/ Crash
  \/ Advance
  \/ EditAllowlist
  \/ \E r \in Request : CheckUnlock(r)
  \/ \E r \in Request : BeginUnlock(r)
  \/ \E base \in SUBSET Apps : BeginSetTier(base)
  \/ Prune
  \/ Handle

Spec == Init /\ [][Next]_vars

(***************************************************************************)
(* Fairness.  systemd restarts agentd, the ticker thread wakes every 20    *)
(* seconds and is given the mutex sooner or later although requests keep   *)
(* taking it (strong fairness), a handler that has begun runs to its       *)
(* reply, and time passes.  Nothing is assumed of requests or faults.      *)
(***************************************************************************)
FairSpec ==
  /\ Spec
  /\ WF_vars(Start)
  /\ WF_vars(Advance)
  /\ WF_vars(Handle)
  /\ SF_vars(Prune)

-----------------------------------------------------------------------------
(* Whenever no handler runs, config.toml and the launcher's tiles are what *)
(* memory says, unless the last attempt to write that copy failed: a       *)
(* handler never skips a write on a path that succeeds (handlers.rs,       *)
(* ticker.rs).                                                             *)
CopiesAgree ==
  Idle => /\ "disk" \notin stale => disk = mem
          /\ "tiles" \notin stale => tiles = EffectiveTiles(mem)

(* An unlock that was answered ok stays in config.toml until it expires or *)
(* the same app is asked for again, whatever else is saved, refused,       *)
(* pruned or lost to a crash meanwhile.                                    *)
AckedGrantDurable ==
  \A g \in acked : g.at + g.minutes > now => EntryOf(g) \in disk.unlocked

(* A new grant replaces the app's earlier one (the retain in               *)
(* handle_unlock), in memory and so on disk: two expiries never compete.   *)
OneEntryPerApp ==
  \A p \in {mem, disk} : \A u, v \in p.unlocked : u.app = v.app => u = v

(* Every override answered ok has its pin_overrides row, unless an insert  *)
(* has failed.                                                             *)
OverrideAccounted ==
  "log" \notin stale =>
    \A g \in acked : g.override => RowOf(g) \in pinOverrides

(* What each step of a handler may rely on: past the save disk and memory  *)
(* agree for a request, past the render the tiles do too; the grant being  *)
(* made is in memory, and so is every answered one that has not expired.   *)
(* With CopiesAgree and AckedGrantDurable it is inductive.                 *)
HandlerInv ==
  /\ ~up => step = "idle"
  /\ step = "idle" => grant = {} /\ kind = "request"
  /\ kind = "ticker" => grant = {}
  /\ step = "render" /\ (kind = "request" \/ "disk" \notin stale) => disk = mem
  /\ step = "log" => kind = "request" /\ disk = mem /\ tiles = EffectiveTiles(mem)
  /\ up => \A g \in grant : EntryOf(g) \in mem.unlocked
  /\ up => \A g \in acked : g.at + g.minutes > now => EntryOf(g) \in mem.unlocked

(* Handlers that stop half-way, crashes and retries included, the store    *)
(* does what LaunchPromise promises: no unlock comes, goes or is prolonged *)
(* but by a grant, its expiry or a crash before it was saved, and "ok" is  *)
(* answered only when memory, config.toml and tiles agree.  While agentd   *)
(* is down the policy in force is the one its start will read.             *)
Promise == INSTANCE LaunchPromise WITH
  policy <- IF up THEN mem ELSE disk, kept <- disk, shown <- tiles,
  promised <- {EntryOf(g) : g \in acked}

PromiseKept == Promise!Spec

(* protocol.rs says of Override that it is "Logged separately in the usage *)
(* log's pin_overrides table for transparency": whenever no handler runs,  *)
(* every override in force has its row.                                    *)
OverrideLogged ==
  Idle => \A u \in mem.unlocked : u.override =>
            \E r \in pinOverrides : r.app = u.app /\ r.at + r.minutes = u.expires

(* Once agentd stays up and no file is left behind by a failed write, an   *)
(* expired unlock does not stay in config.toml: the ticker removes and     *)
(* saves it, also one that a restart read back.                            *)
ExpiredForgotten ==
  \A app \in Apps, t \in 0..MaxTime :
    LET Expired == /\ t <= now
                   /\ \E u \in disk.unlocked : u.app = app /\ u.expires = t
    IN  <>[](up /\ stale \subseteq {"log"}) => (Expired ~> ~Expired)

(* Then also the tile of an app that is allowed no more leaves the         *)
(* launcher, or the app is allowed again: crashes between the save and the *)
(* render included, because start-up renders too.                          *)
TileWithdrawn ==
  \A app \in Apps :
    LET Lingers == app \in tiles /\ ~IsAppAllowed(mem, app)
    IN  <>[](up /\ stale \subseteq {"log"}) => (Lingers ~> ~Lingers)
=============================================================================
