------------------------- MODULE CapabilityBrokerProofs -------------------------
(* Proofs about CapabilityBroker, for any number of processes, threads and ids. *)
EXTENDS CapabilityBroker, TLAPS

LEMMA InitIInv == Init => IInv
BY BrokerAssumption
   DEF Init, IInv, TypeOK, UnusedIdsAreFresh, JobsOwnTheirIds,
       RegistryTracksGrants, NoAmplification, Id, Time, Idle

(* A minted token has a legal expiry: the u64 sum stays below Width. *)
LEMMA MintedType ==
  ASSUME TypeOK, NEW t \in Thread, job[t] # Idle
  PROVE  Minted(job[t]) \in Capability
<1>1. job[t] \in MintCall
  BY DEF TypeOK
<1>2. ASSUME NEW ttl \in Time
      PROVE  ExpiryFrom(now, ttl) \in Time
  <2>1. Width \in Nat /\ now \in Nat /\ now < Width /\ ttl \in Nat /\ ttl < Width
    BY BrokerAssumption DEF TypeOK, Time
  <2>2. QED
    BY <2>1 DEF ExpiryFrom, Time
<1>3. job[t].ttl \in Time
  BY <1>1, BrokerAssumption DEF MintCall
<1>4. QED
  BY <1>1, <1>2, <1>3 DEF Minted, MintCall, Capability

(* Each operation of the broker, its holders and the clock keeps the types. *)
LEMMA StepTypeOK == TypeOK /\ [SkewNext]_vars => TypeOK'
<1> SUFFICES ASSUME TypeOK, [SkewNext]_vars PROVE TypeOK'
  OBVIOUS
<1> USE BrokerAssumption
<1>1. ASSUME NEW t \in Thread, NEW p \in Process, NEW o \in Origin,
             NEW A \in SUBSET Authority, NEW ttl \in Ttl, MintTakeId(t, p, o, A, ttl)
      PROVE  TypeOK'
  BY <1>1 DEF TypeOK, MintTakeId, MintCall, Id
<1>2. ASSUME NEW t \in Thread, MintRegister(t)
      PROVE  TypeOK'
  BY <1>2 DEF TypeOK, MintRegister, MintCall
<1>3. ASSUME NEW t \in Thread, MintStamp(t)
      PROVE  TypeOK'
  BY <1>3, MintedType DEF TypeOK, MintStamp, MintCall
<1>4. ASSUME NEW t \in Thread, MintPanic(t)
      PROVE  TypeOK'
  BY <1>4 DEF TypeOK, MintPanic
<1>5. ASSUME NEW p \in Process, NEW c \in held[p],
             NEW S \in SUBSET Authority, NEW e \in Time, Attenuate(p, c, S, e)
      PROVE  TypeOK'
  <2>1. c \in Capability
    BY DEF TypeOK
  <2>2. Narrowed(c, S, e) \in Capability
    BY <2>1 DEF Narrowed, Capability
  <2>3. QED
    BY <1>5, <2>2 DEF TypeOK, Attenuate
<1>6. ASSUME NEW p \in Process, NEW q \in Process, NEW c \in held[p], Pass(p, q, c)
      PROVE  TypeOK'
  BY <1>6 DEF TypeOK, Pass
<1>7. ASSUME NEW p \in Process, NEW c \in held[p], Revoke(p, c)
      PROVE  TypeOK'
  BY <1>7 DEF TypeOK, Revoke, Capability
<1>8. CASE Tick
  BY <1>8 DEF TypeOK, Tick, Time
<1>9. CASE StepBack
  BY <1>9 DEF TypeOK, StepBack, Time
<1>10. CASE UNCHANGED vars
  BY <1>10 DEF TypeOK, vars
<1>11. QED
  BY <1>1, <1>2, <1>3, <1>4, <1>5, <1>6, <1>7, <1>8, <1>9, <1>10
     DEF SkewNext, Next, Mint, Hold

(* The strengthened invariant is inductive: one step per operation, and one
   below it for each conjunct that the operation can disturb. *)
LEMMA StepIInv == IInv /\ [SkewNext]_vars => IInv'
<1> SUFFICES ASSUME IInv, [SkewNext]_vars PROVE IInv'
  OBVIOUS
<1>0. TypeOK /\ TypeOK'
  BY StepTypeOK DEF IInv
<1> DEFINE Rest == /\ UnusedIdsAreFresh /\ JobsOwnTheirIds
                   /\ RegistryTracksGrants /\ NoAmplification
<1>1. ASSUME NEW t \in Thread, NEW p \in Process, NEW o \in Origin,
             NEW A \in SUBSET Authority, NEW ttl \in Ttl, MintTakeId(t, p, o, A, ttl)
      PROVE  Rest'
  <2>1. /\ next_id \in Id /\ next_id \in Nat /\ next_id' = next_id + 1
        /\ \A u \in Thread : job'[u] = IF u = t THEN job'[t] ELSE job[u]
        /\ job'[t].id = next_id /\ job'[t].stage = "numbered"
        /\ UNCHANGED <<issued, held, now, grants, revoked>>
    BY <1>0, <1>1 DEF TypeOK, MintTakeId, Id
  <2>2. UnusedIdsAreFresh'
    BY <2>1 DEF IInv, UnusedIdsAreFresh, Id
  <2>3. JobsOwnTheirIds'
    BY <2>1 DEF IInv, UnusedIdsAreFresh, JobsOwnTheirIds, Id
  <2>4. QED
    BY <2>1, <2>2, <2>3 DEF IInv, RegistryTracksGrants, NoAmplification
<1>2. ASSUME NEW t \in Thread, MintRegister(t)
      PROVE  Rest'
  <2>1. /\ job[t] # Idle /\ job[t].id \in Id
        /\ \A u \in Thread : job'[u] = IF u = t THEN job'[t] ELSE job[u]
        /\ job'[t].id = job[t].id /\ job'[t].origin = job[t].origin
        /\ issued' = [issued EXCEPT ![job[t].id] = job[t].origin]
        /\ UNCHANGED <<next_id, held, now, grants, revoked>>
    BY <1>0, <1>2 DEF TypeOK, MintRegister, MintCall
  <2>2. UnusedIdsAreFresh'
    BY <1>0, <2>1 DEF IInv, TypeOK, UnusedIdsAreFresh
  <2>3. JobsOwnTheirIds'
    BY <1>0, <2>1 DEF IInv, TypeOK, JobsOwnTheirIds
  <2>4. RegistryTracksGrants'
    BY <1>0, <2>1 DEF IInv, TypeOK, JobsOwnTheirIds, RegistryTracksGrants, Capability
  <2>5. QED
    BY <2>1, <2>2, <2>3, <2>4 DEF IInv, NoAmplification
<1>3. ASSUME NEW t \in Thread, MintStamp(t)
      PROVE  Rest'
  <2> DEFINE m == Minted(job[t])
  <2>1. /\ job[t] # Idle /\ job[t].id \in Id /\ job[t].stage = "registered"
        /\ m \in Capability /\ m.id = job[t].id /\ m.origin = job[t].origin
        /\ \A u \in Thread : job'[u] = IF u = t THEN Idle ELSE job[u]
        /\ grants' = grants \cup {m}
        /\ \A q \in Process : held'[q] \subseteq held[q] \cup {m}
        /\ UNCHANGED <<next_id, issued, now, revoked>>
    BY <1>0, <1>3, MintedType DEF TypeOK, MintStamp, Minted, MintCall
  <2> HIDE DEF m
  <2>2. UnusedIdsAreFresh'
    BY <2>1 DEF IInv, UnusedIdsAreFresh
  <2>3. JobsOwnTheirIds'
    BY <2>1 DEF IInv, JobsOwnTheirIds
  <2>4. RegistryTracksGrants'
    BY <2>1 DEF IInv, JobsOwnTheirIds, RegistryTracksGrants
  <2>5. Covers(m, m)
    BY <2>1 DEF Covers, Capability, Time
  <2>6. NoAmplification'
    BY <2>1, <2>5 DEF IInv, NoAmplification
  <2>7. QED
    BY <2>2, <2>3, <2>4, <2>6
<1>4. ASSUME NEW t \in Thread, MintPanic(t)
      PROVE  Rest'
  <2>1. /\ \A u \in Thread : job'[u] = IF u = t THEN Idle ELSE job[u]
        /\ UNCHANGED <<next_id, issued, held, now, grants, revoked>>
    BY <1>0, <1>4 DEF TypeOK, MintPanic
  <2>2. UnusedIdsAreFresh' /\ JobsOwnTheirIds'
    BY <2>1 DEF IInv, UnusedIdsAreFresh, JobsOwnTheirIds
  <2>3. QED
    BY <2>1, <2>2 DEF IInv, RegistryTracksGrants, NoAmplification
<1>5. ASSUME NEW p \in Process, NEW c \in held[p],
             NEW S \in SUBSET Authority, NEW e \in Time, Attenuate(p, c, S, e)
      PROVE  Rest'
  <2> DEFINE n == Narrowed(c, S, e)
  <2>1. c \in Capability
    BY <1>0 DEF TypeOK
  <2>2. /\ n.id = c.id /\ n.origin = c.origin
        /\ n.authorities \subseteq c.authorities /\ n.expires_at <= c.expires_at
        /\ n \in Capability
    BY <1>5, <2>1 DEF Attenuate, Narrows, Narrowed, Capability
  <2>3. /\ \A q \in Process : held'[q] \subseteq held[q] \cup {n}
        /\ UNCHANGED <<next_id, issued, job, now, grants, revoked>>
    BY <1>0, <1>5 DEF TypeOK, Attenuate
  <2> HIDE DEF n
  <2>4. PICK g \in grants : Covers(g, c)
    BY DEF IInv, NoAmplification
  <2>5. Covers(g, n)
    BY <1>0, <2>1, <2>2, <2>4 DEF TypeOK, Covers, Capability, Time
  <2>6. NoAmplification'
    BY <2>3, <2>5 DEF IInv, NoAmplification
  <2>7. QED
    BY <2>3, <2>6 DEF IInv, UnusedIdsAreFresh, JobsOwnTheirIds, RegistryTracksGrants
<1>6. ASSUME NEW p \in Process, NEW q \in Process, NEW c \in held[p], Pass(p, q, c)
      PROVE  Rest'
  <2>1. /\ \A r \in Process : held'[r] \subseteq held[r] \cup {c}
        /\ UNCHANGED <<next_id, issued, job, now, grants, revoked>>
    BY <1>0, <1>6 DEF TypeOK, Pass
  <2>2. NoAmplification'
    BY <2>1 DEF IInv, NoAmplification
  <2>3. QED
    BY <2>1, <2>2 DEF IInv, UnusedIdsAreFresh, JobsOwnTheirIds, RegistryTracksGrants
<1>7. ASSUME NEW p \in Process, NEW c \in held[p], Revoke(p, c)
      PROVE  Rest'
  <2>1. /\ c.id \in Id
        /\ issued' = [issued EXCEPT ![c.id] = NoOrigin]
        /\ revoked' = revoked \cup {c.id}
        /\ UNCHANGED <<next_id, job, held, now, grants>>
    BY <1>0, <1>7 DEF TypeOK, Revoke, Capability
  <2>2. PICK g \in grants : g.id = c.id
    BY DEF IInv, NoAmplification, Covers
  <2>3. UnusedIdsAreFresh'
    BY <1>0, <2>1, <2>2 DEF IInv, TypeOK, UnusedIdsAreFresh
  <2>4. JobsOwnTheirIds'
    <3>1. \A t \in Thread : job[t] # Idle => job[t].id # c.id
      BY <2>2 DEF IInv, JobsOwnTheirIds
    <3>2. QED
      BY <1>0, <2>1, <3>1 DEF IInv, TypeOK, JobsOwnTheirIds
  <2>5. RegistryTracksGrants'
    BY <1>0, <2>1 DEF IInv, TypeOK, RegistryTracksGrants, Capability
  <2>6. QED
    BY <2>1, <2>3, <2>4, <2>5 DEF IInv, NoAmplification
<1>8. ASSUME Tick \/ StepBack \/ UNCHANGED vars
      PROVE  Rest'
  BY <1>8 DEF Tick, StepBack, vars, IInv, UnusedIdsAreFresh, JobsOwnTheirIds,
              RegistryTracksGrants, NoAmplification
<1>9. Rest'
  BY <1>1, <1>2, <1>3, <1>4, <1>5, <1>6, <1>7, <1>8 DEF SkewNext, Next, Mint, Hold
<1>10. QED
  BY <1>0, <1>9 DEF IInv

LEMMA Invariance == SkewSpec => []IInv
BY InitIInv, StepIInv, PTL DEF SkewSpec

(* Type correctness, even under a clock that is set back. *)
THEOREM TypeCorrect == SkewSpec => []TypeOK
BY Invariance, PTL DEF IInv

(* No chain of narrowing and passing widens what mint granted. *)
THEOREM NeverAmplified == SkewSpec => []NoAmplification
BY Invariance, PTL DEF IInv

(* Concurrent mints never share an id, and revocation is exact. *)
THEOREM RegistryIsExact == SkewSpec => []RegistryTracksGrants
BY Invariance, PTL DEF IInv

(* Whatever verify accepts is granted, live and not revoked. *)
THEOREM VerifyIsSound == SkewSpec => []AcceptedIsGranted
<1>1. IInv => AcceptedIsGranted
  <2> SUFFICES ASSUME IInv, NEW p \in Process, NEW c \in held[p],
                      NEW o \in Origin, NEW a \in Authority, Verify(c, o, a) = "Ok"
               PROVE  \E g \in grants : /\ g.id = c.id /\ g.id \notin revoked
                                        /\ g.origin = o /\ a \in g.authorities
                                        /\ now < g.expires_at
    BY DEF AcceptedIsGranted
  <2>1. c \in Capability /\ grants \subseteq Capability /\ now \in Time
    BY DEF IInv, TypeOK
  <2>2. PICK g \in grants : Covers(g, c)
    BY DEF IInv, NoAmplification
  <2>3. /\ issued[c.id] = c.origin /\ ~(now >= c.expires_at)
        /\ c.origin = o /\ a \in c.authorities
    BY DEF Verify
  <2>4. g.id \notin revoked
    BY <2>1, <2>2, <2>3, BrokerAssumption
       DEF IInv, RegistryTracksGrants, Covers, Capability
  <2>5. now < g.expires_at
    BY <2>1, <2>2, <2>3, BrokerAssumption DEF Covers, Capability, Time
  <2>6. QED
    BY <2>2, <2>3, <2>4, <2>5 DEF Covers
<1>2. QED
  BY <1>1, Invariance, PTL

-------------------------------------------------------------------------------
(* Under a clock that only goes forward, a refused token stays refused. *)
LEMMA StepRefusal ==
  ASSUME IInv, IInv', [Next]_vars,
         NEW p \in Process, NEW c \in held[p], NEW o \in Origin, NEW a \in Authority,
         Verify(c, o, a) \in {"Forged", "Expired"}
  PROVE  Verify(c, o, a)' # "Ok"
<1>1. c \in Capability /\ now \in Time /\ now' \in Time
  BY DEF IInv, TypeOK
<1>2. PICK g \in grants : Covers(g, c)
  BY DEF IInv, NoAmplification
<1>3. /\ now' >= now
      /\ grants \subseteq grants' /\ revoked \subseteq revoked'
  <2>1. CASE \E t \in Thread : Mint(t)
    BY <1>1, <2>1 DEF Mint, MintTakeId, MintRegister, MintStamp, MintPanic, Time
  <2>2. CASE \E q \in Process : Hold(q)
    <3>1. now' = now /\ grants' = grants
      BY <2>2 DEF Hold, Attenuate, Pass, Revoke
    <3>2. revoked \subseteq revoked'
      BY <2>2 DEF Hold, Attenuate, Pass, Revoke
    <3>3. QED
      BY <1>1, <3>1, <3>2 DEF Time
  <2>3. CASE Tick
    BY <1>1, <2>3 DEF Tick, Time
  <2>4. CASE UNCHANGED vars
    BY <1>1, <2>4 DEF vars, Time
  <2>5. QED
    BY <2>1, <2>2, <2>3, <2>4 DEF Next
<1>4. CASE issued[c.id] # c.origin
  <2>1. g.id = c.id /\ g.id \in revoked
    BY <1>2, <1>4 DEF IInv, RegistryTracksGrants, Covers
  <2>2. issued'[c.id] = NoOrigin
    BY <1>2, <1>3, <2>1 DEF IInv, RegistryTracksGrants
  <2>3. QED
    BY <1>1, <2>2, BrokerAssumption DEF Verify, Capability
<1>5. CASE issued[c.id] = c.origin /\ now >= c.expires_at
  <2>1. now' >= c.expires_at
    BY <1>1, <1>3, <1>5 DEF Capability, Time
  <2>2. QED
    BY <2>1 DEF Verify
<1>6. QED
  BY <1>4, <1>5 DEF Verify

(* A refusal by verify is final: ids are never reused, revocation is never
   undone, and time only passes. *)
THEOREM RefusalStands == Spec => RefusalIsFinal
<1>1. IInv /\ IInv' /\ [Next]_vars =>
        [\A p \in Process : \A c \in held[p] : \A o \in Origin, a \in Authority :
          Verify(c, o, a) \in {"Forged", "Expired"} => Verify(c, o, a)' # "Ok"]_vars
  BY StepRefusal
<1>2. IInv /\ [Next]_vars => IInv'
  BY StepIInv DEF SkewNext
<1>3. QED
  BY <1>1, <1>2, InitIInv, PTL DEF Spec, RefusalIsFinal

-------------------------------------------------------------------------------
(* CapabilityBroker implements CapabilityAuthority, as long as the clock only
   goes forward. *)

(* What one token gets accepted. *)
Opens(c, u) == /\ c.id = u[1] /\ issued[c.id] = c.origin /\ now < c.expires_at
               /\ c.origin = u[2] /\ u[3] \in c.authorities

LEMMA VerifyOk ==
  ASSUME TypeOK, NEW p \in Process, NEW c \in held[p], NEW u \in Abstract!Use
  PROVE  (c.id = u[1] /\ Verify(c, u[2], u[3]) = "Ok") <=> Opens(c, u)
BY BrokerAssumption DEF TypeOK, Verify, Opens, Capability, Time

(* The refinement mapping, one use at a time. *)
LEMMA AcceptedUse ==
  ASSUME TypeOK
  PROVE  /\ Accepted \in [Process -> SUBSET Abstract!Use]
         /\ \A p \in Process : \A u \in Abstract!Use :
              u \in Accepted[p] <=> \E c \in held[p] : Opens(c, u)
BY VerifyOk DEF Accepted, Abstract!Use

LEMMA AcceptedUseNext ==
  ASSUME TypeOK'
  PROVE  /\ Accepted' \in [Process -> SUBSET Abstract!Use]
         /\ \A p \in Process : \A u \in Abstract!Use :
              u \in Accepted'[p] <=> \E c \in held'[p] : Opens(c, u)'
<1>1. ASSUME NEW p \in Process, NEW c \in held'[p], NEW u \in Abstract!Use
      PROVE  (c.id = u[1] /\ Verify(c, u[2], u[3])' = "Ok") <=> Opens(c, u)'
  BY BrokerAssumption DEF TypeOK, Verify, Opens, Capability, Time
<1>2. QED
  BY <1>1 DEF Accepted, Abstract!Use

(* What every process can use is the same before and after. *)
LEMMA SameUses ==
  ASSUME TypeOK, TypeOK',
         \A p \in Process : \A u \in Abstract!Use :
           (\E c \in held'[p] : Opens(c, u)') <=> (\E c \in held[p] : Opens(c, u))
  PROVE  Accepted' = Accepted
<1>1. \A p \in Process : Accepted'[p] = Accepted[p]
  BY AcceptedUse, AcceptedUseNext
<1>2. QED
  BY <1>1, AcceptedUse, AcceptedUseNext

(* An id that is being minted is not in anybody's hands yet. *)
LEMMA HeldIdsAreGranted ==
  ASSUME IInv, NEW p \in Process, NEW c \in held[p]
  PROVE  c \in Capability /\ \E g \in grants : g.id = c.id
BY DEF IInv, TypeOK, NoAmplification, Covers

AbstractStep == Abstract!Next \/ UNCHANGED Abstract!vars

(* Taking an id, registering it, and a panic are invisible. *)
LEMMA QuietMint ==
  ASSUME IInv, IInv', NEW t \in Thread,
         \/ \E p \in Process, o \in Origin, A \in SUBSET Authority, ttl \in Ttl :
               MintTakeId(t, p, o, A, ttl)
         \/ MintRegister(t)
         \/ MintPanic(t)
  PROVE  UNCHANGED Abstract!vars
<1>1. UNCHANGED <<held, now, grants, revoked>>
  BY DEF MintTakeId, MintRegister, MintPanic
<1>2. ASSUME NEW p \in Process, NEW c \in held[p] PROVE issued'[c.id] = issued[c.id]
  <2>1. c.id \in Id /\ \E g \in grants : g.id = c.id
    BY HeldIdsAreGranted DEF Capability
  <2>2. CASE MintRegister(t)
    <3>1. job[t] # Idle /\ issued' = [issued EXCEPT ![job[t].id] = job[t].origin]
      BY <2>2 DEF MintRegister
    <3>2. c.id # job[t].id
      BY <2>1, <3>1 DEF IInv, JobsOwnTheirIds
    <3>3. QED
      BY <2>1, <3>1, <3>2 DEF IInv, TypeOK
  <2>3. CASE ~MintRegister(t)
    BY <2>3 DEF MintTakeId, MintPanic
  <2>4. QED
    BY <2>2, <2>3
<1>3. Accepted' = Accepted
  BY <1>1, <1>2, SameUses DEF IInv, Opens
<1>4. QED
  BY <1>1, <1>3 DEF Abstract!vars

(* Returning a token from mint is a grant. *)
LEMMA StampGrants ==
  ASSUME IInv, IInv', NEW t \in Thread, MintStamp(t)
  PROVE  AbstractStep
<1> DEFINE m == Minted(job[t])
<1> DEFINE A == IF now < m.expires_at THEN m.authorities ELSE {}
<1> DEFINE h == job[t].holder
<1>0. TypeOK /\ TypeOK'
  BY DEF IInv
<1>1. /\ job[t] # Idle /\ job[t] \in MintCall /\ job[t].stage = "registered"
      /\ m \in Capability /\ m.id = job[t].id /\ m.origin = job[t].origin
      /\ h \in Process
      /\ held' = [held EXCEPT ![h] = @ \cup {m}]
      /\ grants' = grants \cup {m}
      /\ UNCHANGED <<issued, now, revoked>>
  BY <1>0, MintedType DEF TypeOK, MintStamp, Minted, MintCall
<1> HIDE DEF m, h
<1>2. issued[m.id] = m.origin /\ m.id \notin {g.id : g \in grants}
  BY <1>1 DEF IInv, JobsOwnTheirIds
<1>3. ASSUME NEW p \in Process, NEW u \in Abstract!Use
      PROVE  u \in Accepted'[p] <=>
               u \in Accepted[p] \/ (p = h /\ u \in {m.id} \X {m.origin} \X A)
  <2>1. \A c : Opens(c, u)' <=> Opens(c, u)
    BY <1>1 DEF Opens
  <2>2. held'[p] = IF p = h THEN held[p] \cup {m} ELSE held[p]
    BY <1>0, <1>1 DEF TypeOK
  <2>3. Opens(m, u) <=> u \in {m.id} \X {m.origin} \X A
    BY <1>1, <1>2 DEF Opens, Abstract!Use
  <2>4. QED
    BY <1>0, <2>1, <2>2, <2>3, AcceptedUse, AcceptedUseNext
<1>4. {m.id} \X {m.origin} \X A \subseteq Abstract!Use /\ A \in SUBSET Authority
      /\ m.id \in Id /\ m.origin \in Origin
  BY <1>1 DEF Abstract!Use, Capability
<1>5. \A p \in Process :
        Accepted'[p] = IF p = h THEN Accepted[p] \cup ({m.id} \X {m.origin} \X A)
                       ELSE Accepted[p]
  BY <1>0, <1>3, <1>4, AcceptedUse, AcceptedUseNext
<1>6. Accepted' = [Accepted EXCEPT ![h] = @ \cup ({m.id} \X {m.origin} \X A)]
  BY <1>0, <1>5, AcceptedUse, AcceptedUseNext
<1>7. {g.id : g \in grants}' = {g.id : g \in grants} \cup {m.id}
  BY <1>1
<1> HIDE DEF A
<1>8. PICK g \in Id, p \in Process, o \in Origin, B \in SUBSET Authority :
        g = m.id /\ p = h /\ o = m.origin /\ B = A
  BY <1>1, <1>4
<1>9. Abstract!MakeGrant(g, p, o, B)
  BY <1>1, <1>2, <1>6, <1>7, <1>8 DEF Abstract!MakeGrant
<1>10. QED
  BY <1>9 DEF AbstractStep, Abstract!Next

(* A narrower copy opens nothing that the token it comes from does not open. *)
LEMMA AttenuateIsInvisible ==
  ASSUME IInv, IInv', NEW p \in Process, NEW c \in held[p],
         NEW S \in SUBSET Authority, NEW e \in Time, Attenuate(p, c, S, e)
  PROVE  UNCHANGED Abstract!vars
<1> DEFINE n == Narrowed(c, S, e)
<1>0. TypeOK /\ TypeOK' /\ c \in Capability
  BY DEF IInv, TypeOK
<1>1. /\ n.id = c.id /\ n.origin = c.origin
      /\ n.authorities \subseteq c.authorities
      /\ n.expires_at \in Nat /\ c.expires_at \in Nat /\ now \in Nat
      /\ n.expires_at <= c.expires_at
  <2>1. n.id = c.id /\ n.origin = c.origin
    BY DEF Narrowed
  <2>2. n.authorities = S /\ n.expires_at = e
    BY DEF Narrowed
  <2>3. e \in Nat /\ c.expires_at \in Nat /\ now \in Nat
    BY <1>0, BrokerAssumption DEF Capability, TypeOK, Time
  <2>4. e <= c.expires_at /\ S \subseteq c.authorities
    BY DEF Attenuate, Narrows
  <2>5. QED
    BY <2>1, <2>2, <2>3, <2>4
<1>2. /\ held' = [held EXCEPT ![p] = @ \cup {n}]
      /\ UNCHANGED <<issued, now, grants, revoked>>
  BY DEF Attenuate
<1> HIDE DEF n
<1>3. ASSUME NEW q \in Process, NEW u \in Abstract!Use
      PROVE  (\E d \in held'[q] : Opens(d, u)') <=> (\E d \in held[q] : Opens(d, u))
  <2>1. \A d : Opens(d, u)' <=> Opens(d, u)
    BY <1>2 DEF Opens
  <2>2. Opens(n, u) => Opens(c, u)
    BY <1>1 DEF Opens
  <2>3. held'[q] = IF q = p THEN held[p] \cup {n} ELSE held[q]
    BY <1>0, <1>2 DEF TypeOK
  <2>4. QED
    BY <2>1, <2>2, <2>3
<1>4. QED
  BY <1>0, <1>2, <1>3, SameUses DEF Abstract!vars

(* Passing a token on delegates exactly what it opens. *)
LEMMA PassDelegates ==
  ASSUME IInv, IInv', NEW p \in Process, NEW q \in Process, NEW c \in held[p],
         Pass(p, q, c)
  PROVE  AbstractStep
<1> DEFINE U == {u \in Abstract!Use : Opens(c, u)}
<1>0. TypeOK /\ TypeOK'
  BY DEF IInv
<1>1. /\ held' = [held EXCEPT ![q] = @ \cup {c}]
      /\ UNCHANGED <<issued, now, grants, revoked>>
  BY DEF Pass
<1>2. U \in SUBSET Accepted[p]
  BY <1>0, AcceptedUse
<1>3. ASSUME NEW r \in Process, NEW u \in Abstract!Use
      PROVE  u \in Accepted'[r] <=> u \in Accepted[r] \/ (r = q /\ u \in U)
  <2>1. \A d : Opens(d, u)' <=> Opens(d, u)
    BY <1>1 DEF Opens
  <2>2. held'[r] = IF r = q THEN held[q] \cup {c} ELSE held[r]
    BY <1>0, <1>1 DEF TypeOK
  <2>3. QED
    BY <1>0, <2>1, <2>2, AcceptedUse, AcceptedUseNext
<1>4. U \subseteq Abstract!Use
  OBVIOUS
<1> HIDE DEF U
<1>5. \A r \in Process :
        Accepted'[r] = IF r = q THEN Accepted[q] \cup U ELSE Accepted[r]
  BY <1>0, <1>3, <1>4, AcceptedUse, AcceptedUseNext
<1>6. Accepted' = [Accepted EXCEPT ![q] = @ \cup U]
  BY <1>0, <1>5, AcceptedUse, AcceptedUseNext
<1>7. Abstract!Delegate(p, q, U)
  BY <1>1, <1>2, <1>6 DEF Abstract!Delegate
<1>8. QED
  BY <1>2, <1>7 DEF AbstractStep, Abstract!Next

(* Revoking any copy withdraws every use of the grant, and no other use. *)
LEMMA RevokeRevokes ==
  ASSUME IInv, IInv', NEW p \in Process, NEW c \in held[p], Revoke(p, c)
  PROVE  AbstractStep
<1>0. TypeOK /\ TypeOK' /\ c.id \in Id /\ c.id \in {g.id : g \in grants}
  BY HeldIdsAreGranted DEF IInv, Capability
<1>1. /\ issued' = [issued EXCEPT ![c.id] = NoOrigin]
      /\ revoked' = revoked \cup {c.id}
      /\ UNCHANGED <<held, now, grants>>
  BY DEF Revoke
<1>2. ASSUME NEW r \in Process, NEW u \in Abstract!Use
      PROVE  u \in Accepted'[r] <=> u \in Accepted[r] /\ u[1] # c.id
  <2>1. ASSUME NEW d \in held[r]
        PROVE  Opens(d, u)' <=> Opens(d, u) /\ u[1] # c.id
    <3>1. d \in Capability
      BY <1>0 DEF TypeOK
    <3>2. issued'[d.id] = IF d.id = c.id THEN NoOrigin ELSE issued[d.id]
      BY <1>0, <1>1, <3>1 DEF TypeOK, Capability
    <3>3. QED
      BY <1>1, <3>1, <3>2, BrokerAssumption DEF Opens, Capability
  <2>2. QED
    BY <1>0, <1>1, <2>1, AcceptedUse, AcceptedUseNext
<1>3. \A r \in Process : Accepted'[r] = {u \in Accepted[r] : u[1] # c.id}
  BY <1>0, <1>2, AcceptedUse, AcceptedUseNext
<1>4. Accepted' = [r \in Process |-> {u \in Accepted[r] : u[1] # c.id}]
  BY <1>0, <1>3, AcceptedUseNext
<1>5. Abstract!Revoke(c.id)
  BY <1>0, <1>1, <1>4 DEF Abstract!Revoke
<1>6. QED
  BY <1>0, <1>5 DEF AbstractStep, Abstract!Next

(* The passing of time only takes uses away. *)
LEMMA TickLapses ==
  ASSUME IInv, IInv', Tick
  PROVE  AbstractStep
<1>0. TypeOK /\ TypeOK'
  BY DEF IInv
<1>1. now \in Nat /\ now' = now + 1 /\ UNCHANGED <<held, issued, grants, revoked>>
  BY <1>0 DEF Tick, TypeOK, Time
<1>2. ASSUME NEW r \in Process, NEW u \in Abstract!Use, u \in Accepted'[r]
      PROVE  u \in Accepted[r]
  <2>1. PICK d \in held[r] : Opens(d, u)'
    BY <1>0, <1>1, <1>2, AcceptedUseNext
  <2>2. d.expires_at \in Nat
    BY <1>0, BrokerAssumption DEF TypeOK, Capability, Time
  <2>3. Opens(d, u)
    BY <1>1, <2>1, <2>2 DEF Opens
  <2>4. QED
    BY <1>0, <2>3, AcceptedUse
<1>3. Abstract!Lapse
  BY <1>0, <1>1, <1>2, AcceptedUseNext DEF Abstract!Lapse
<1>4. QED
  BY <1>3 DEF AbstractStep, Abstract!Next

(* The broker, its holders and the clock implement the promise that authority
   comes only from grants and delegation and that revocation is final. *)
THEOREM BrokerImplementsAuthority == Spec => ImplementsAuthority
<1>1. Init => Abstract!Init
  BY DEF Init, Accepted, Abstract!Init
<1>2. IInv /\ IInv' /\ [Next]_vars => [Abstract!Next]_(Abstract!vars)
  <2> SUFFICES ASSUME IInv, IInv', [Next]_vars PROVE AbstractStep
    BY DEF AbstractStep
  <2>1. CASE \E t \in Thread : Mint(t)
    BY <2>1, QuietMint, StampGrants DEF Mint, AbstractStep
  <2>2. CASE \E p \in Process : Hold(p)
    BY <2>2, AttenuateIsInvisible, PassDelegates, RevokeRevokes DEF Hold, AbstractStep
  <2>3. CASE Tick
    BY <2>3, TickLapses
  <2>4. CASE UNCHANGED vars
    <3>1. \A c, u : Opens(c, u)' <=> Opens(c, u)
      BY <2>4 DEF vars, Opens
    <3>2. QED
      BY <2>4, <3>1, SameUses DEF vars, IInv, AbstractStep, Abstract!vars
  <2>5. QED
    BY <2>1, <2>2, <2>3, <2>4 DEF Next
<1>3. IInv /\ [Next]_vars => IInv'
  BY StepIInv DEF SkewNext
<1>4. QED
  BY <1>1, <1>2, <1>3, InitIInv, PTL DEF Spec, ImplementsAuthority, Abstract!Spec
=================================================================================
