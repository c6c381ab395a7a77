--------------------------- MODULE CapabilityBroker ---------------------------
(***************************************************************************)
(* The capability broker of engine/ipc/src/lib.rs: threads that mint at    *)
(* the same time, processes that attenuate and pass on what they hold,     *)
(* revocation, and the wall clock that expiry is compared with.            *)
(*                                                                         *)
(* Broker::mint is three steps, because only the id counter (an atomic)    *)
(* and the registry (a mutex) are synchronised, each for itself: take an   *)
(* id, register it, read the clock and build the token.  Broker::verify    *)
(* and Broker::revoke hold the registry's lock for the whole call, so      *)
(* each is one step; verify changes nothing and is the operator Verify.    *)
(***************************************************************************)
EXTENDS Naturals, FiniteSets

CONSTANTS Process,      \* holders of capabilities
          Thread,       \* threads of the broker's process that call mint
          Origin, Authority, NoOrigin,
          Ttl,          \* the ttl_secs that callers pass
          Width,        \* times are u64: 0 .. Width - 1
          MaxTime,      \* bound: the last second the clock reaches
          MaxId,        \* bound: the last id handed out
          MaxHeld       \* bound: capabilities one process collects

Id == 1..MaxId
Time == 0..(Width - 1)
Capability == [id : Id, origin : Origin, authorities : SUBSET Authority,
               expires_at : Time]

ASSUME BrokerAssumption ==
  /\ NoOrigin \notin Origin
  /\ Width \in Nat \ {0} /\ MaxTime \in Time
  /\ Ttl \subseteq Time
  /\ MaxId \in Nat /\ MaxHeld \in Nat

VARIABLES next_id, issued,   \* the Broker: id counter, and registry id -> origin
          job,               \* job[t]: the mint call thread t is inside of
          held,              \* held[p]: capabilities process p holds
          now,               \* now_secs()
          grants,            \* history: every capability as mint returned it
          revoked            \* history: ids given to revoke

vars == <<next_id, issued, job, held, now, grants, revoked>>

Idle == [stage |-> "idle"]
MintCall == [stage : {"numbered", "registered"}, id : Id, holder : Process,
             origin : Origin, authorities : SUBSET Authority, ttl : Ttl]

TypeOK ==
  /\ next_id \in 1..(MaxId + 1)
  /\ issued \in [Id -> Origin \cup {NoOrigin}]
  /\ job \in [Thread -> MintCall \cup {Idle}]
  /\ held \in [Process -> SUBSET Capability]
  /\ now \in Time
  /\ grants \subseteq Capability
  /\ revoked \subseteq Id

Init ==
  /\ next_id = 1
  /\ issued = [i \in Id |-> NoOrigin]
  /\ job = [t \in Thread |-> Idle]
  /\ held = [p \in Process |-> {}]
  /\ now = 0
  /\ grants = {}
  /\ revoked = {}

-------------------------------------------------------------------------------
(* Faulty variant of MintTakeId: load and store instead of fetch_add, so that
   another thread's increment can be lost. *)
MintTakeIdRacy(t, p, o, A, ttl) ==
  /\ job[t] = Idle
  /\ next_id <= MaxId
  /\ job' = [job EXCEPT ![t] = [stage |-> "numbered", id |-> next_id, holder |-> p,
                                origin |-> o, authorities |-> A, ttl |-> ttl]]
  /\ next_id' \in {next_id, next_id + 1}
  /\ UNCHANGED <<issued, held, now, grants, revoked>>

(* mint: the atomic fetch_add. *)
MintTakeId(t, p, o, A, ttl) ==
  /\ job[t] = Idle
  /\ next_id <= MaxId
  /\ job' = [job EXCEPT ![t] = [stage |-> "numbered", id |-> next_id, holder |-> p,
                                origin |-> o, authorities |-> A, ttl |-> ttl]]
  /\ next_id' = next_id + 1
  /\ UNCHANGED <<issued, held, now, grants, revoked>>

(* mint: insert under the registry's lock. *)
MintRegister(t) ==
  /\ job[t] # Idle /\ job[t].stage = "numbered"
  /\ issued' = [issued EXCEPT ![job[t].id] = job[t].origin]
  /\ job' = [job EXCEPT ![t].stage = "registered"]
  /\ UNCHANGED <<next_id, held, now, grants, revoked>>

(* u64 addition of a build without overflow checks. *)
ExpiryFrom(start, ttl) ==
  IF start + ttl < Width THEN start + ttl ELSE start + ttl - Width

Minted(j) == [id |-> j.id, origin |-> j.origin, authorities |-> j.authorities,
              expires_at |-> ExpiryFrom(now, j.ttl)]

Receives(p, c) == Cardinality(held[p] \cup {c}) <= MaxHeld

(* mint: read the clock, build the token, hand it to its holder. *)
MintStamp(t) ==
  /\ job[t] # Idle /\ job[t].stage = "registered"
  /\ Receives(job[t].holder, Minted(job[t]))
  /\ held' = [held EXCEPT ![job[t].holder] = @ \cup {Minted(job[t])}]
  /\ grants' = grants \cup {Minted(job[t])}
  /\ job' = [job EXCEPT ![t] = Idle]
  /\ UNCHANGED <<next_id, issued, now, revoked>>

(* mint: a build with overflow checks panics in the addition; the id stays
   registered and nobody ever holds a token for it. *)
MintPanic(t) ==
  /\ job[t] # Idle /\ job[t].stage = "registered"
  /\ now + job[t].ttl >= Width
  /\ job' = [job EXCEPT ![t] = Idle]
  /\ UNCHANGED <<next_id, issued, held, now, grants, revoked>>

(* Faulty variants of Narrows: one of the two comparisons is forgotten. *)
NarrowsExpiryOnly(c, S, e) == e <= c.expires_at
NarrowsAuthorityOnly(c, S, e) == S \subseteq c.authorities

(* Capability::attenuate succeeds only for a narrower token, of the same id. *)
Narrows(c, S, e) == e <= c.expires_at /\ S \subseteq c.authorities

Narrowed(c, S, e) ==
  [id |-> c.id, origin |-> c.origin, authorities |-> S, expires_at |-> e]

Attenuate(p, c, S, e) ==
  /\ c \in held[p]
  /\ Narrows(c, S, e)
  /\ Receives(p, Narrowed(c, S, e))
  /\ held' = [held EXCEPT ![p] = @ \cup {Narrowed(c, S, e)}]
  /\ UNCHANGED <<next_id, issued, job, now, grants, revoked>>

(* A Capability is Clone: a copy of it goes to another process with a message. *)
Pass(p, q, c) ==
  /\ c \in held[p]
  /\ Receives(q, c)
  /\ held' = [held EXCEPT ![q] = @ \cup {c}]
  /\ UNCHANGED <<next_id, issued, job, now, grants, revoked>>

(* Faulty variant of Revoke: a revoked id is given back for reuse. *)
RevokeRecyclesId(p, c) ==
  /\ c \in held[p]
  /\ issued' = [issued EXCEPT ![c.id] = NoOrigin]
  /\ revoked' = revoked \cup {c.id}
  /\ next_id' = c.id
  /\ UNCHANGED <<job, held, now, grants>>

(* Broker::revoke removes the id, whichever copy of the token names it. *)
Revoke(p, c) ==
  /\ c \in held[p]
  /\ issued' = [issued EXCEPT ![c.id] = NoOrigin]
  /\ revoked' = revoked \cup {c.id}
  /\ UNCHANGED <<next_id, job, held, now, grants>>

Tick ==
  /\ now < MaxTime
  /\ now' = now + 1
  /\ UNCHANGED <<next_id, issued, job, held, grants, revoked>>

(* SystemTime is not monotonic: it can be set back, and reads 0 before 1970. *)
StepBack ==
  /\ now' \in 0..now
  /\ UNCHANGED <<next_id, issued, job, held, grants, revoked>>

Mint(t) ==
  \/ \E p \in Process, o \in Origin, A \in SUBSET Authority, ttl \in Ttl :
        MintTakeId(t, p, o, A, ttl)
  \/ MintRegister(t)
  \/ MintStamp(t)
  \/ MintPanic(t)

Hold(p) ==
  \E c \in held[p] :
    \/ \E S \in SUBSET Authority, e \in Time : Attenuate(p, c, S, e)
    \/ \E q \in Process : Pass(p, q, c)
    \/ Revoke(p, c)

Next ==
  \/ \E t \in Thread : Mint(t)
  \/ \E p \in Process : Hold(p)
  \/ Tick

Spec == Init /\ [][Next]_vars

(* The same system under a clock that may be set back. *)
SkewNext == Next \/ StepBack
SkewSpec == Init /\ [][SkewNext]_vars

-------------------------------------------------------------------------------
(* Faulty variant of Verify: expiry excludes the second it names. *)
VerifyInclusive(c, o, a) ==
  IF issued[c.id] # c.origin THEN "Forged"
  ELSE IF now > c.expires_at THEN "Expired"
  ELSE IF c.origin # o THEN "OriginMismatch"
  ELSE IF a \notin c.authorities THEN "Unauthorized"
  ELSE "Ok"

(* Broker::verify, in the order of its checks. *)
Verify(c, o, a) ==
  IF issued[c.id] # c.origin THEN "Forged"
  ELSE IF now >= c.expires_at THEN "Expired"
  ELSE IF c.origin # o THEN "OriginMismatch"
  ELSE IF a \notin c.authorities THEN "Unauthorized"
  ELSE "Ok"

Covers(g, c) ==
  /\ c.id = g.id /\ c.origin = g.origin
  /\ c.authorities \subseteq g.authorities
  /\ c.expires_at <= g.expires_at

(* However often it is narrowed and passed on, no token anywhere allows more
   than mint granted under its id ("can never amplify it", header of lib.rs). *)
NoAmplification ==
  \A p \in Process : \A c \in held[p] : \E g \in grants : Covers(g, c)

(* What verify accepts was granted by mint for that origin and authority, has
   not run out, and has not been revoked through any copy of the token. *)
AcceptedIsGranted ==
  \A p \in Process : \A c \in held[p] : \A o \in Origin, a \in Authority :
    Verify(c, o, a) = "Ok" =>
      \E g \in grants : /\ g.id = c.id /\ g.id \notin revoked
                        /\ g.origin = o /\ a \in g.authorities
                        /\ now < g.expires_at

(* Minting concurrently, the broker keeps grants apart: an id is granted once,
   and the registry knows it exactly until it is itself revoked; revoking one
   grant never takes down another. *)
RegistryTracksGrants ==
  /\ \A g, h \in grants : g.id = h.id => g = h
  /\ \A g \in grants : issued[g.id] = IF g.id \in revoked THEN NoOrigin ELSE g.origin

(* An id not handed out yet is unknown everywhere. *)
UnusedIdsAreFresh ==
  \A i \in Id : i >= next_id =>
    /\ issued[i] = NoOrigin /\ i \notin revoked
    /\ \A g \in grants : g.id # i
    /\ \A t \in Thread : job[t] # Idle => job[t].id # i

(* The id of a mint call in progress belongs to that call alone. *)
JobsOwnTheirIds ==
  \A t \in Thread : job[t] # Idle =>
    /\ job[t].id \notin revoked
    /\ \A g \in grants : g.id # job[t].id
    /\ \A u \in Thread \ {t} : job[u] # Idle => job[u].id # job[t].id
    /\ job[t].stage = "registered" => issued[job[t].id] = job[t].origin

(* The inductive invariant that RegistryTracksGrants and NoAmplification need. *)
IInv == TypeOK /\ UnusedIdsAreFresh /\ JobsOwnTheirIds
          /\ RegistryTracksGrants /\ NoAmplification

(* Once verify has refused a token as forged (revoked) or expired, no later
   mint, registration or clock tick makes it acceptable again. *)
RefusalIsFinal ==
  [][\A p \in Process : \A c \in held[p] : \A o \in Origin, a \in Authority :
        Verify(c, o, a) \in {"Forged", "Expired"} => Verify(c, o, a)' # "Ok"]_vars

(* The uses of its capabilities that each process gets accepted. *)
Accepted == [p \in Process |->
  {u \in Id \X Origin \X Authority :
     \E c \in held[p] : c.id = u[1] /\ Verify(c, u[2], u[3]) = "Ok"}]

Abstract == INSTANCE CapabilityAuthority
  WITH Grant <- Id, usable <- Accepted, granted <- {g.id : g \in grants},
       revoked <- revoked

(* The broker implements the promise of CapabilityAuthority. *)
ImplementsAuthority == Abstract!Spec
===============================================================================
