------------------------- MODULE CapabilityAuthority -------------------------
(***************************************************************************)
(* What the capability subsystem promises, without ids in a registry, a    *)
(* clock, or threads: a process can use an authority only because a grant  *)
(* gave it that authority, or because a process that could use it passed   *)
(* it on; authority is lost at any time (expiry) and a revoked grant is    *)
(* lost by everybody at once and never comes back.                         *)
(*                                                                         *)
(* The promise is the object-capability principle of                       *)
(* docs/00-architecture.md and of the header of engine/ipc/src/lib.rs;     *)
(* CapabilityBroker implements it.                                         *)
(***************************************************************************)
CONSTANTS Process,     \* the processes that hold and present capabilities
          Grant,       \* names of grants
          Origin,
          Authority

VARIABLES usable,      \* usable[p]: the uses <<grant, origin, authority>> p gets accepted
          granted,     \* grants made so far
          revoked      \* grants revoked so far

vars == <<usable, granted, revoked>>

Use == Grant \X Origin \X Authority

Init ==
  /\ usable = [p \in Process |-> {}]
  /\ granted = {}
  /\ revoked = {}

(* A fresh grant gives one process some authorities on one origin. *)
MakeGrant(g, p, o, A) ==
  /\ g \notin granted
  /\ granted' = granted \cup {g}
  /\ usable' = [usable EXCEPT ![p] = @ \cup ({g} \X {o} \X A)]
  /\ UNCHANGED revoked

(* p passes q some of what p can use. *)
Delegate(p, q, U) ==
  /\ U \subseteq usable[p]
  /\ usable' = [usable EXCEPT ![q] = @ \cup U]
  /\ UNCHANGED <<granted, revoked>>

(* Time takes authority away, from any number of processes. *)
Lapse ==
  /\ usable' \in [Process -> SUBSET Use]
  /\ \A p \in Process : usable'[p] \subseteq usable[p]
  /\ UNCHANGED <<granted, revoked>>

(* Revoking a grant removes every use of it, whoever holds it. *)
Revoke(g) ==
  /\ g \in granted
  /\ usable' = [p \in Process |-> {u \in usable[p] : u[1] # g}]
  /\ revoked' = revoked \cup {g}
  /\ UNCHANGED granted

Next ==
  \/ \E g \in Grant, p \in Process, o \in Origin, A \in SUBSET Authority :
        MakeGrant(g, p, o, A)
  \/ \E p, q \in Process : \E U \in SUBSET usable[p] : Delegate(p, q, U)
  \/ Lapse
  \/ \E g \in Grant : Revoke(g)

Spec == Init /\ [][Next]_vars
=============================================================================
