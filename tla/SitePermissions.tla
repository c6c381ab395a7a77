---------------------------- MODULE SitePermissions ----------------------------
(***************************************************************************)
(* What a site may do, as the three editions remember it: PermissionStore  *)
(* of the desktop shell, SecurityPolicy of the Android app, SiteSettings   *)
(* of the engine.  They share no state: a behaviour is of one of them.     *)
(***************************************************************************)
EXTENDS Integers, FiniteSets

CONSTANTS Origin, Name,     \* sites and permissions (capabilities)
          MaxTime           \* bound: the clock, and the times at which grants lapse

VARIABLES edition, now,
          grants, locked,   \* PermissionStore.grants, adminLocked
          slot,             \* SecurityPolicy.grants
          perms,            \* SiteSettings.perms, of one site
          said,             \* history: what the last call allowed
          highest           \* history: the highest layer since the last revoke

siteVars == <<edition, now, grants, locked, slot, perms, said, highest>>

Forever == MaxTime + 1
Time == 0 .. MaxTime
None == [state |-> "none", expiresAt |-> Forever, layer |-> -1]
Nothing == {}

Init == /\ edition \in {"desktop", "android", "engine"} /\ now = 0
        /\ grants = [q \in Origin \X Name |-> None] /\ locked = [n \in Name |-> "none"]
        /\ slot = [n \in Name |-> None] /\ perms = [n \in Name |-> "Ask"]
        /\ said = Nothing /\ highest = [n \in Name |-> -1]

-------------------------------------------------------------------------------
(* Faulty variant of Lapsed: a grant holds from the time at which it should lapse. *)
LapsedBefore(g) == g.expiresAt # Forever /\ now < g.expiresAt

(* expiresAt is set and now >= expiresAt *)
Lapsed(g) == g.expiresAt # Forever /\ now >= g.expiresAt

(* PermissionStore.query: lock, then grant, then denied. *)
Query(o, n) == IF locked[n] # "none" THEN locked[n]
               ELSE IF grants[<<o, n>>] = None \/ Lapsed(grants[<<o, n>>]) THEN "denied"
               ELSE grants[<<o, n>>].state

(* SecurityPolicy.isAllowed *)
IsAllowed(n) == slot[n].state = "granted" /\ ~Lapsed(slot[n])

(* SiteSettings.is_granted *)
IsGranted(n) == perms[n] \in {"Allow", "OneTime"}

Permitted == CASE edition = "desktop" -> {q \in Origin \X Name : Query(q[1], q[2]) = "granted"}
               [] edition = "android" -> {q \in Origin \X Name : IsAllowed(q[2])}
               [] edition = "engine" -> {q \in Origin \X Name : IsGranted(q[2])}

-------------------------------------------------------------------------------
On(e) == edition = e /\ UNCHANGED edition
Saying(allows, qs) == said' = IF allows THEN qs ELSE Nothing

Set(o, n, state, at) ==
  /\ On("desktop") /\ Saying(state = "granted", {<<o, n>>})
  /\ grants' = [grants EXCEPT ![<<o, n>>] = [state |-> state, expiresAt |-> at, layer |-> -1]]
  /\ UNCHANGED <<now, locked, slot, perms, highest>>

Lock(n, state) ==
  /\ On("desktop") /\ Saying(state = "granted", Origin \X {n})
  /\ locked' = [locked EXCEPT ![n] = state]
  /\ UNCHANGED <<now, grants, slot, perms, highest>>

Revoke(o, n) ==
  /\ On("desktop") /\ Saying(FALSE, {}) /\ grants' = [grants EXCEPT ![<<o, n>>] = None]
  /\ UNCHANGED <<now, locked, slot, perms, highest>>

(* Faulty variant of Binding: a grant that has lapsed no longer binds. *)
BindingUntilLapsed(old, layer) == old = None \/ Lapsed(old) \/ layer >= old.layer

(* A grant is recorded if nothing is, or nothing of a higher layer. *)
Binding(old, layer) == old = None \/ layer >= old.layer

(* SecurityPolicy.set and revoke *)
PolicySet(n, state, layer, at) ==
  /\ On("android") /\ Saying(state = "granted", Origin \X {n})
  /\ slot' = IF Binding(slot[n], layer)
             THEN [slot EXCEPT ![n] = [state |-> state, expiresAt |-> at, layer |-> layer]]
             ELSE slot
  /\ highest' = [highest EXCEPT ![n] = IF layer > @ THEN layer ELSE @]
  /\ UNCHANGED <<now, grants, locked, perms>>

PolicyRevoke(n) ==
  /\ On("android") /\ Saying(FALSE, {})
  /\ slot' = [slot EXCEPT ![n] = None] /\ highest' = [highest EXCEPT ![n] = -1]
  /\ UNCHANGED <<now, grants, locked, perms>>

(* SiteSettings.set *)
SiteSet(n, state) ==
  /\ On("engine") /\ Saying(state \in {"Allow", "OneTime"}, Origin \X {n})
  /\ perms' = [perms EXCEPT ![n] = state]
  /\ UNCHANGED <<now, grants, locked, slot, highest>>

Tick == /\ now < MaxTime /\ now' = now + 1 /\ said' = Nothing
        /\ UNCHANGED <<edition, grants, locked, slot, perms, highest>>

(* The clock is the caller's or the system's: somebody may set it back. *)
SetBack == /\ \E t \in Time : t < now /\ now' = t
           /\ said' = Nothing /\ UNCHANGED <<edition, grants, locked, slot, perms, highest>>

Next ==
  \/ Tick \/ SetBack
  \/ \E n \in Name :
       \/ \E o \in Origin : Revoke(o, n)
       \/ \E o \in Origin, s \in {"granted", "denied", "prompt"}, at \in Time \cup {Forever} :
            Set(o, n, s, at)
       \/ \E s \in {"granted", "denied", "prompt"} : Lock(n, s)
       \/ \E s \in {"granted", "denied"}, l \in 0 .. 3, at \in Time \cup {Forever} :
            PolicySet(n, s, l, at)
       \/ PolicyRevoke(n)
       \/ \E s \in {"Allow", "Block", "OneTime", "Ask"} : SiteSet(n, s)

Spec == Init /\ [][Next]_siteVars

-------------------------------------------------------------------------------
(* "The user (or admin policy) must explicitly grant it" (permissions.ts), "must
   explicitly grant a capability" (SecurityPolicy.kt): what becomes permitted was
   allowed by the very call that changed it, never by time, revocation, another
   site's answer or a denial.  Only a clock that is set back revives what lapsed:
   no edition forgets a grant when it lapses. *)
PermittedOnlyOnWord == [][now' >= now => Permitted' \subseteq Permitted \cup said']_siteVars

(* "only if it comes from an equal-or-higher layer" (SecurityPolicy.kt): until it
   is revoked, the word of the highest layer that spoke is the one that counts,
   also after it has lapsed. *)
LowerLayerCannotLift == \A n \in Name : slot[n].layer = highest[n]
===============================================================================
