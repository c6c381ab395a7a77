------------------------------ MODULE WindowProofs ------------------------------
(***************************************************************************)
(* Proofs about parts of the window: a tab in the background, permissions  *)
(* of sites and the install dialogue, for any numbers of sites, names,     *)
(* packages and seconds.                                                   *)
(***************************************************************************)
EXTENDS Window, SharedLemmas, TLAPS

-------------------------------------------------------------------------------
(* A tab in the background. *)
TabInv == /\ away \in Nat /\ untouched \in Nat /\ foreground \in BOOLEAN
          /\ untouched >= away /\ (foreground => away = 0)

LEMMA MillisToSeconds ==
  /\ \A i, j \in Nat :
       i >= j /\ j * 1000 >= Saver!FreezeAfterMs => i * 1000 >= Saver!FreezeAfterMs
  /\ \A i \in Nat : i >= 1800 => i * 1000 >= Saver!FreezeAfterMs
BY SMT DEF Saver!FreezeAfterMs

LEMMA TabInvInit == WindowInit => TabInv
BY DEF WindowInit, Saver!Init, TabInv

LEMMA TabInvStep == TabInv /\ [WindowNext]_allVars => TabInv'
<1> SUFFICES ASSUME TabInv, [WindowNext]_allVars PROVE TabInv'
  OBVIOUS
<1>1. CASE Saver!Pass
  BY <1>1, TimeAssumption DEF TabInv, Saver!Pass
<1>2. CASE Saver!Touch
  <2>1. away = 0 /\ untouched' = 0 /\ UNCHANGED <<foreground, away>>
    BY <1>2 DEF TabInv, Saver!Touch
  <2> QED
    BY <2>1 DEF TabInv
<1>3. CASE Saver!Leave
  BY <1>3 DEF TabInv, Saver!Leave
<1>4. CASE Saver!Return
  BY <1>4 DEF TabInv, Saver!Return
<1>5. CASE Saver!Sound \/ Saver!Pin \/ Saver!Capture
  BY <1>5 DEF TabInv, Saver!Sound, Saver!Pin, Saver!Capture
<1>6. CASE UNCHANGED tabVars
  BY <1>6 DEF tabVars, TabInv
<1>7. CASE Saver!Next
  BY <1>1, <1>2, <1>3, <1>4, <1>5, <1>7 DEF Saver!Next
<1> QED
  BY <1>6, <1>7 DEF WindowNext, allVars

(* memory_saver.rs and throttling.rs agree: no tab is frozen or discarded whose
   timers are not throttled to a minute. *)
THEOREM SaverAgreesWithThrottling == WindowSpec => []FrozenIsThrottled
<1>1. TabInv => FrozenIsThrottled
  <2> SUFFICES ASSUME TabInv, Saver!Decide # "Active"
               PROVE  Saver!MinTimerIntervalMs(Saver!Tier) = 60000
    BY DEF FrozenIsThrottled, Saver!FrozenIsThrottled
  <2>1. ~foreground /\ away >= 300
    BY DEF Saver!Decide, Saver!FreezeAfterSecs, Saver!DiscardAfterSecs, TabInv
  <2>2. Saver!Tier = "Intensive"
    BY <2>1 DEF Saver!Tier
  <2> QED
    BY <2>2 DEF Saver!MinTimerIntervalMs
<1> QED
  BY TabInvInit, TabInvStep, <1>1, PTL DEF WindowSpec

(* A tab that is left alone only goes deeper, for the engine and for the panel of
   performance.ts, which offers every tab that the engine discards. *)
THEOREM LeftAloneOnlyDeeper == WindowSpec => OnlyDeeper
<1>1. TabInv /\ [WindowNext]_allVars =>
        [Saver!Pass => /\ Saver!Weight(Saver!Decide') >= Saver!Weight(Saver!Decide)
                       /\ Saver!TabsToFreeze => Saver!TabsToFreeze'
                       /\ Saver!Decide' = "Discarded" => Saver!TabsToFreeze']_tabVars
  <2> SUFFICES ASSUME TabInv, Saver!Pass
               PROVE  /\ Saver!Weight(Saver!Decide') >= Saver!Weight(Saver!Decide)
                      /\ Saver!TabsToFreeze => Saver!TabsToFreeze'
                      /\ Saver!Decide' = "Discarded" => Saver!TabsToFreeze'
    OBVIOUS
  <2> DEFINE kept == foreground \/ audible \/ pinned \/ capturing
             long(i) == i * 1000 >= Saver!FreezeAfterMs
  <2>1. /\ away \in Nat /\ away' \in Nat /\ away' >= away
        /\ untouched \in Nat /\ untouched' \in Nat /\ untouched' >= untouched
        /\ untouched' >= away'
        /\ UNCHANGED <<foreground, audible, pinned, capturing>>
    BY TimeAssumption DEF Saver!Pass, TabInv
  <2>2. /\ Saver!Decide = IF kept THEN "Active" ELSE IF away >= 1800 THEN "Discarded"
                          ELSE IF away >= 300 THEN "Frozen" ELSE "Active"
        /\ Saver!Decide' = IF kept THEN "Active" ELSE IF away' >= 1800 THEN "Discarded"
                           ELSE IF away' >= 300 THEN "Frozen" ELSE "Active"
    BY <2>1 DEF Saver!Decide, Saver!FreezeAfterSecs, Saver!DiscardAfterSecs
  <2>3. /\ Saver!Weight("Active") = 0 /\ Saver!Weight("Frozen") = 1
        /\ Saver!Weight("Discarded") = 2
    BY DEF Saver!Weight
  <2>4. /\ Saver!TabsToFreeze <=> ~foreground /\ ~pinned /\ ~audible /\ long(untouched)
        /\ Saver!TabsToFreeze' <=> ~foreground /\ ~pinned /\ ~audible /\ long(untouched')
    BY <2>1 DEF Saver!TabsToFreeze
  <2>5. /\ long(untouched) => long(untouched')
        /\ away' >= 1800 => long(untouched')
    <3>1. away' >= 1800 => untouched' >= 1800
      BY <2>1
    <3> QED
      BY <2>1, <3>1, MillisToSeconds
  <2> HIDE DEF kept, long
  <2>6. Saver!Weight(Saver!Decide') >= Saver!Weight(Saver!Decide)
    BY <2>1, <2>2, <2>3
  <2>7. Saver!Decide' = "Discarded" => ~kept /\ away' >= 1800
    BY <2>1, <2>2
  <2> QED
    BY <2>4, <2>5, <2>6, <2>7 DEF kept
<1> QED
  BY TabInvInit, TabInvStep, <1>1, PTL DEF WindowSpec, OnlyDeeper, Saver!OnlyDeeper, tabVars, Saver!tabVars

-------------------------------------------------------------------------------
(* Permissions of sites: what the three editions remember has its shape. *)
Rule == [state : {"none", "granted", "denied", "prompt"}, expiresAt : Nat, layer : -1 .. 3]

SitesInv == /\ now \in Nat
            /\ grants \in [Origin \X Name -> Rule]
            /\ locked \in [Name -> {"none", "granted", "denied", "prompt"}]
            /\ slot \in [Name -> Rule]
            /\ perms \in [Name -> {"Allow", "Block", "OneTime", "Ask"}]
            /\ highest \in [Name -> -1 .. 3]
            /\ \A n \in Name : slot[n] = Sites!None \/ slot[n].layer # -1
            /\ LowerLayerCannotLift

LEMMA NoneIsRule == Sites!None \in Rule /\ Sites!None.layer = -1
BY TimeAssumption DEF Sites!None, Rule, Sites!Forever

LEMMA RuleMade ==
  ASSUME NEW s \in {"granted", "denied", "prompt"}, NEW l \in -1 .. 3,
         NEW at \in Sites!Time \cup {Sites!Forever}
  PROVE  [state |-> s, expiresAt |-> at, layer |-> l] \in Rule
BY TimeAssumption DEF Rule, Sites!Time, Sites!Forever

LEMMA SitesInvInit == WindowInit => SitesInv
<1> SUFFICES ASSUME WindowInit PROVE SitesInv
  OBVIOUS
<1>1. Sites!Init
  BY DEF WindowInit
<1> QED
  BY <1>1, NoneIsRule
     DEF Sites!Init, SitesInv, LowerLayerCannotLift, Sites!LowerLayerCannotLift

LEMMA PolicySetKeeps ==
  ASSUME SitesInv, NEW n \in Name, NEW s \in {"granted", "denied"}, NEW l \in 0 .. 3,
         NEW at \in Sites!Time \cup {Sites!Forever}, Sites!PolicySet(n, s, l, at)
  PROVE  SitesInv'
<1> DEFINE rule == [state |-> s, expiresAt |-> at, layer |-> l]
<1>1. rule \in Rule /\ rule.layer = l
  BY RuleMade
<1> HIDE DEF rule
<1>2. /\ slot' = IF Sites!Binding(slot[n], l) THEN [slot EXCEPT ![n] = rule] ELSE slot
      /\ highest' = [highest EXCEPT ![n] = IF l > highest[n] THEN l ELSE highest[n]]
      /\ UNCHANGED <<now, grants, locked, perms>>
  BY DEF Sites!PolicySet, rule
<1>3. /\ slot \in [Name -> Rule] /\ highest \in [Name -> -1 .. 3]
      /\ \A m \in Name : slot[m].layer = highest[m]
      /\ \A m \in Name : slot[m] = Sites!None \/ slot[m].layer # -1
  BY DEF SitesInv, LowerLayerCannotLift, Sites!LowerLayerCannotLift
<1>4. slot' \in [Name -> Rule] /\ highest' \in [Name -> -1 .. 3]
  BY <1>1, <1>2, <1>3
<1>5. ASSUME NEW m \in Name
      PROVE  /\ slot'[m].layer = highest'[m]
             /\ slot'[m] = Sites!None \/ slot'[m].layer # -1
  <2>1. CASE m # n
    BY <1>2, <1>3, <2>1
  <2>2. CASE m = n /\ Sites!Binding(slot[n], l)
    <3>1. slot'[n] = rule
      BY <1>2, <1>3, <2>2
    <3>2. highest[n] <= l
      BY <1>3, <2>2, NoneIsRule DEF Sites!Binding
    <3>3. highest'[n] = l
      BY <1>2, <1>3, <3>2
    <3> QED
      BY <1>1, <2>2, <3>1, <3>3
  <2>3. CASE m = n /\ ~Sites!Binding(slot[n], l)
    <3>1. slot'[n] = slot[n] /\ l < highest[n]
      BY <1>2, <1>3, <2>3 DEF Sites!Binding
    <3>2. highest'[n] = highest[n]
      BY <1>2, <1>3, <3>1
    <3> QED
      BY <1>3, <2>3, <3>1, <3>2
  <2> QED
    BY <2>1, <2>2, <2>3
<1> QED
  BY <1>2, <1>4, <1>5 DEF SitesInv, LowerLayerCannotLift, Sites!LowerLayerCannotLift

LEMMA SitesInvStep == SitesInv /\ [WindowNext]_allVars => SitesInv'
<1> SUFFICES ASSUME SitesInv, [WindowNext]_allVars PROVE SitesInv'
  OBVIOUS
<1> USE DEF LowerLayerCannotLift, Sites!LowerLayerCannotLift
<1>1. CASE Sites!Tick \/ Sites!SetBack
  BY <1>1 DEF Sites!Tick, Sites!SetBack, Sites!Time, SitesInv
<1>2. ASSUME NEW o \in Origin, NEW n \in Name, Sites!Revoke(o, n) PROVE SitesInv'
  BY <1>2, NoneIsRule DEF Sites!Revoke, SitesInv
<1>3. ASSUME NEW o \in Origin, NEW n \in Name, NEW s \in {"granted", "denied", "prompt"},
             NEW at \in Sites!Time \cup {Sites!Forever}, Sites!Set(o, n, s, at)
      PROVE  SitesInv'
  <2>1. [state |-> s, expiresAt |-> at, layer |-> -1] \in Rule
    BY RuleMade
  <2> QED
    BY <1>3, <2>1 DEF Sites!Set, SitesInv
<1>4. ASSUME NEW n \in Name, NEW s \in {"granted", "denied", "prompt"}, Sites!Lock(n, s)
      PROVE  SitesInv'
  BY <1>4 DEF Sites!Lock, SitesInv
<1>5. ASSUME NEW n \in Name, Sites!PolicyRevoke(n) PROVE SitesInv'
  BY <1>5, NoneIsRule DEF Sites!PolicyRevoke, SitesInv
<1>6. ASSUME NEW n \in Name, NEW s \in {"Allow", "Block", "OneTime", "Ask"}, Sites!SiteSet(n, s)
      PROVE  SitesInv'
  BY <1>6 DEF Sites!SiteSet, SitesInv
<1>7. CASE UNCHANGED siteVars
  BY <1>7 DEF siteVars, SitesInv
<1>8. CASE Sites!Next
  BY <1>1, <1>2, <1>3, <1>4, <1>5, <1>6, <1>8, PolicySetKeeps DEF Sites!Next
<1> QED
  BY <1>7, <1>8 DEF WindowNext, allVars

(* SecurityPolicy.kt: until it is revoked, the word of the highest layer that
   spoke is the one in the slot, whatever lapses and whoever speaks after it. *)
THEOREM HighestLayerCounts == WindowSpec => []LowerLayerCannotLift
<1>1. SitesInv => LowerLayerCannotLift
  BY DEF SitesInv
<1> QED
  BY SitesInvInit, SitesInvStep, <1>1, PTL DEF WindowSpec

(* What it takes to be permitted, edition by edition, before and after a step. *)
Holds(g) == g.state = "granted" /\ (g.expiresAt # Sites!Forever => now < g.expiresAt)
Allows(o, n) ==
  CASE edition = "desktop" -> \/ locked[n] = "granted"
                              \/ locked[n] = "none" /\ Holds(grants[<<o, n>>])
    [] edition = "android" -> Holds(slot[n])
    [] edition = "engine" -> perms[n] \in {"Allow", "OneTime"}

LEMMA HoldsIs ==
  /\ SitesInv => \A g \in Rule : Holds(g) <=> g.state = "granted" /\ ~Sites!Lapsed(g)
  /\ SitesInv' => \A g \in Rule : Holds(g)' <=> g.state = "granted" /\ ~Sites!Lapsed(g)'
BY TimeAssumption DEF Holds, Sites!Lapsed, SitesInv, Rule, Sites!Forever

Edition == edition \in {"desktop", "android", "engine"}

LEMMA PermittedIs ==
  ASSUME SitesInv, Edition
  PROVE  /\ Sites!Permitted \subseteq Origin \X Name
         /\ \A o \in Origin, n \in Name : <<o, n>> \in Sites!Permitted <=> Allows(o, n)
<1>1. ASSUME NEW o \in Origin, NEW n \in Name
      PROVE  /\ Sites!Query(o, n) = "granted" <=>
                  \/ locked[n] = "granted"
                  \/ locked[n] = "none" /\ Holds(grants[<<o, n>>])
             /\ Sites!IsAllowed(n) <=> Holds(slot[n])
  <2>1. grants[<<o, n>>] \in Rule /\ slot[n] \in Rule
    BY DEF SitesInv
  <2>2. ~Holds(Sites!None)
    BY DEF Holds, Sites!None
  <2> QED
    BY <2>1, <2>2, HoldsIs DEF Sites!Query, Sites!IsAllowed
<1> QED
  BY <1>1 DEF Edition, Sites!Permitted, Allows, Sites!IsGranted

LEMMA PermittedIsNext ==
  ASSUME SitesInv', Edition'
  PROVE  /\ Sites!Permitted' \subseteq Origin \X Name
         /\ \A o \in Origin, n \in Name : <<o, n>> \in Sites!Permitted' <=> Allows(o, n)'
<1>1. ASSUME NEW o \in Origin, NEW n \in Name
      PROVE  /\ Sites!Query(o, n)' = "granted" <=>
                  \/ locked'[n] = "granted"
                  \/ locked'[n] = "none" /\ Holds(grants[<<o, n>>])'
             /\ Sites!IsAllowed(n)' <=> Holds(slot[n])'
  <2>1. grants'[<<o, n>>] \in Rule /\ slot'[n] \in Rule
    BY DEF SitesInv
  <2>2. ~Holds(Sites!None)'
    BY DEF Holds, Sites!None
  <2> QED
    BY <2>1, <2>2, HoldsIs DEF Sites!Query, Sites!IsAllowed, Sites!Lapsed, Holds
<1> QED
  BY <1>1 DEF Edition, Sites!Permitted, Allows, Sites!IsGranted

LEMMA EditionInit == WindowInit => Edition
BY DEF WindowInit, Sites!Init, Edition

LEMMA EditionStep == Edition /\ [WindowNext]_allVars => Edition'
<1> SUFFICES ASSUME Edition, [WindowNext]_allVars PROVE UNCHANGED edition
  BY DEF Edition
<1>1. CASE Sites!Next
  BY <1>1 DEF Sites!Next, Sites!Tick, Sites!SetBack, Sites!Revoke, Sites!Set, Sites!Lock, Sites!PolicySet,
              Sites!PolicyRevoke, Sites!SiteSet, Sites!On
<1> QED
  BY <1>1 DEF WindowNext, allVars, siteVars

LEMMA NothingLapsesBack ==
  ASSUME SitesInv, now' \in Nat, now <= now', NEW g \in Rule, Holds(g)'
  PROVE  Holds(g)
BY TimeAssumption DEF SitesInv, Holds, Rule, Sites!Forever

(* What a call did not allow was permitted before it. *)
LEMMA OnlyOnWord ==
  ASSUME SitesInv, SitesInv', Edition, Sites!Next, now' >= now,
         NEW o \in Origin, NEW n \in Name, Allows(o, n)', <<o, n>> \notin said'
  PROVE  Allows(o, n)
<1>1. /\ grants \in [Origin \X Name -> Rule]
      /\ locked \in [Name -> {"none", "granted", "denied", "prompt"}]
      /\ slot \in [Name -> Rule] /\ perms \in [Name -> {"Allow", "Block", "OneTime", "Ask"}]
      /\ <<o, n>> \in Origin \X Name
      /\ grants[<<o, n>>] \in Rule /\ slot[n] \in Rule
  BY DEF SitesInv
<1>2. CASE Sites!Tick
  <2>1. now <= now' /\ now' \in Nat /\ UNCHANGED <<edition, grants, locked, slot, perms>>
    BY <1>2 DEF Sites!Tick, SitesInv
  <2>2. /\ Holds(grants[<<o, n>>])' => Holds(grants[<<o, n>>])
        /\ Holds(slot[n])' => Holds(slot[n])
    BY <1>1, <2>1, NothingLapsesBack DEF Holds
  <2> QED
    BY <2>1, <2>2 DEF Allows, Edition
<1>3. ASSUME NEW p \in Origin, NEW m \in Name, Sites!Revoke(p, m) PROVE Allows(o, n)
  <2>1. /\ edition = "desktop" /\ UNCHANGED <<edition, now, locked>>
        /\ grants' = [grants EXCEPT ![<<p, m>>] = Sites!None]
    BY <1>3 DEF Sites!Revoke, Sites!On
  <2>2. grants'[<<o, n>>] = grants[<<o, n>>] \/ grants'[<<o, n>>] = Sites!None
    BY <1>1, <2>1
  <2>3. ~Holds(grants[<<o, n>>])' \/ grants'[<<o, n>>] = grants[<<o, n>>]
    BY <2>2 DEF Holds, Sites!None
  <2> QED
    BY <2>1, <2>3 DEF Allows, Holds
<1>4. ASSUME NEW p \in Origin, NEW m \in Name, NEW s \in {"granted", "denied", "prompt"},
             NEW at \in Sites!Time \cup {Sites!Forever}, Sites!Set(p, m, s, at)
      PROVE  Allows(o, n)
  <2> DEFINE rule == [state |-> s, expiresAt |-> at, layer |-> -1]
  <2>1. /\ edition = "desktop" /\ UNCHANGED <<edition, now, locked>>
        /\ grants' = [grants EXCEPT ![<<p, m>>] = rule]
        /\ said' = IF s = "granted" THEN {<<p, m>>} ELSE {}
    BY <1>4 DEF Sites!Set, Sites!On, Sites!Saying, Sites!Nothing
  <2>2. grants'[<<o, n>>] = grants[<<o, n>>] \/ (grants'[<<o, n>>] = rule /\ s # "granted")
    BY <1>1, <2>1
  <2>3. ~Holds(grants[<<o, n>>])' \/ grants'[<<o, n>>] = grants[<<o, n>>]
    BY <2>2 DEF Holds
  <2> QED
    BY <2>1, <2>3 DEF Allows, Holds
<1>5. ASSUME NEW m \in Name, NEW s \in {"granted", "denied", "prompt"}, Sites!Lock(m, s)
      PROVE  Allows(o, n)
  <2>1. /\ edition = "desktop" /\ UNCHANGED <<edition, now, grants>>
        /\ locked' = [locked EXCEPT ![m] = s]
        /\ said' = IF s = "granted" THEN Origin \X {m} ELSE {}
    BY <1>5 DEF Sites!Lock, Sites!On, Sites!Saying, Sites!Nothing
  <2>2. locked'[n] = locked[n] \/ locked'[n] \in {"denied", "prompt"}
    BY <1>1, <2>1
  <2> QED
    BY <2>1, <2>2 DEF Allows, Holds
<1>6. ASSUME NEW m \in Name, NEW s \in {"granted", "denied"}, NEW l \in 0 .. 3,
             NEW at \in Sites!Time \cup {Sites!Forever}, Sites!PolicySet(m, s, l, at)
      PROVE  Allows(o, n)
  <2> DEFINE rule == [state |-> s, expiresAt |-> at, layer |-> l]
  <2>1. /\ edition = "android" /\ UNCHANGED <<edition, now>>
        /\ slot' = slot \/ slot' = [slot EXCEPT ![m] = rule]
        /\ said' = IF s = "granted" THEN Origin \X {m} ELSE {}
    BY <1>6 DEF Sites!PolicySet, Sites!On, Sites!Saying, Sites!Nothing
  <2>2. slot'[n] = slot[n] \/ (slot'[n] = rule /\ s # "granted")
    BY <1>1, <2>1
  <2>3. ~Holds(slot[n])' \/ slot'[n] = slot[n]
    BY <2>2 DEF Holds
  <2> QED
    BY <2>1, <2>3 DEF Allows, Holds
<1>7. ASSUME NEW m \in Name, Sites!PolicyRevoke(m) PROVE Allows(o, n)
  <2>1. /\ edition = "android" /\ UNCHANGED <<edition, now>>
        /\ slot' = [slot EXCEPT ![m] = Sites!None]
    BY <1>7 DEF Sites!PolicyRevoke, Sites!On
  <2>2. slot'[n] = slot[n] \/ slot'[n] = Sites!None
    BY <1>1, <2>1
  <2>3. ~Holds(slot[n])' \/ slot'[n] = slot[n]
    BY <2>2 DEF Holds, Sites!None
  <2> QED
    BY <2>1, <2>3 DEF Allows, Holds
<1>8. ASSUME NEW m \in Name, NEW s \in {"Allow", "Block", "OneTime", "Ask"}, Sites!SiteSet(m, s)
      PROVE  Allows(o, n)
  <2>1. /\ edition = "engine" /\ UNCHANGED edition
        /\ perms' = [perms EXCEPT ![m] = s]
        /\ said' = IF s \in {"Allow", "OneTime"} THEN Origin \X {m} ELSE {}
    BY <1>8 DEF Sites!SiteSet, Sites!On, Sites!Saying, Sites!Nothing
  <2>2. perms'[n] = perms[n] \/ perms'[n] \in {"Block", "Ask"}
    BY <1>1, <2>1
  <2> QED
    BY <2>1, <2>2 DEF Allows
<1>9. ~Sites!SetBack
  BY DEF Sites!SetBack, Sites!Time, SitesInv
<1> QED
  BY <1>2, <1>3, <1>4, <1>5, <1>6, <1>7, <1>8, <1>9 DEF Sites!Next

(* permissions.ts, SecurityPolicy.kt, site_settings.rs: what becomes permitted was
   allowed by the call that changed it, as long as nobody sets the clock back. *)
THEOREM NothingBecomesPermittedUnasked == WindowSpec => PermittedOnlyOnWord
<1>1. SitesInv /\ SitesInv' /\ Edition /\ Edition' /\ [WindowNext]_allVars =>
        [now' >= now => Sites!Permitted' \subseteq Sites!Permitted \cup said']_siteVars
  <2> SUFFICES ASSUME SitesInv, SitesInv', Edition, Edition', WindowNext, ~UNCHANGED siteVars,
                      now' >= now
               PROVE  Sites!Permitted' \subseteq Sites!Permitted \cup said'
    BY DEF allVars
  <2>1. Sites!Next
    BY DEF WindowNext
  <2>2. ASSUME NEW o \in Origin, NEW n \in Name, <<o, n>> \in Sites!Permitted'
        PROVE  <<o, n>> \in Sites!Permitted \cup said'
    BY <2>1, <2>2, OnlyOnWord, PermittedIs, PermittedIsNext
  <2> QED
    BY <2>2, PermittedIsNext
<1> QED
  BY SitesInvInit, SitesInvStep, EditionInit, EditionStep, <1>1, PTL
     DEF WindowSpec, PermittedOnlyOnWord, Sites!PermittedOnlyOnWord, siteVars, Sites!siteVars

-------------------------------------------------------------------------------
(* The install dialogue: once a listing is there, what is shown is its review. *)
Listed == review = Store!ReviewCapabilities(listing)

StoreInv == /\ stage = "listed" => Listed
            /\ ConsentCoversPackage

LEMMA ReviewShowsAll ==
  ASSUME NEW l
  PROVE  LET shown == Store!ReviewCapabilities(l) IN
         /\ shown.sensitive \cup shown.ordinary = l.permissions
         /\ shown.hostOrigins = l.hostOrigins
         /\ shown.requiresExplicitConsent <=> Store!NeedsConsent(l)
BY DEF Store!ReviewCapabilities

LEMMA StoreInvInit == WindowInit => StoreInv
BY DEF WindowInit, Store!Init, StoreInv, ConsentCoversPackage, Store!ConsentCoversPackage

LEMMA StoreInvStep == StoreInv /\ [WindowNext]_allVars => StoreInv'
<1> SUFFICES ASSUME StoreInv, [WindowNext]_allVars PROVE StoreInv'
  OBVIOUS
<1> USE DEF ConsentCoversPackage, Store!ConsentCoversPackage
<1>1. ASSUME NEW l \in Store!Listing, Store!FetchListing(l) PROVE StoreInv'
  BY <1>1 DEF Store!FetchListing, StoreInv, Listed
<1>2. ASSUME NEW id \in Id, NEW v \in Version, Store!Download(Store!Package(id, v))
      PROVE  StoreInv'
  <2> DEFINE package == Store!Package(id, v)
  <2>1. integrity' = [package |-> package, answer |-> Store!VerifyIntegrity(listing, package)]
    BY <1>2 DEF Store!Download
  <2>2. Listed /\ stage' = "idle" /\ UNCHANGED <<listing, review>>
    BY <1>2 DEF Store!Download, StoreInv
  <2>3. ASSUME integrity'.answer = "ok"
        PROVE  listing.reviewed /\ package.id = listing.id /\ package.digest = listing.expectedDigest
    <3>1. Store!VerifyIntegrity(listing, package) = "ok"
      BY <2>1, <2>3
    <3>2. listing.reviewed /\ Store!Package(listing.id, listing.expectedDigest) = package
      BY <3>1 DEF Store!VerifyIntegrity
    <3> QED
      BY <3>2 DEF Store!Package
  <2> HIDE DEF package
  <2>4. integrity'.package = package
    BY <2>1
  <2>5. ConsentCoversPackage'
    BY <2>2, <2>3, <2>4, ReviewShowsAll DEF Listed, Store!Truthful, Store!NeedsConsent
  <2> QED
    BY <2>2, <2>5 DEF StoreInv
<1>3. CASE UNCHANGED storeVars
  BY <1>3 DEF storeVars, StoreInv, Listed
<1>4. CASE Store!Next
  BY <1>1, <1>2, <1>4 DEF Store!Next
<1> QED
  BY <1>3, <1>4 DEF WindowNext, allVars

(* install() of store-client: whatever its transport answers, what passes the check
   is the package that the listing named, and it asks for what was shown if that
   listing told the truth. *)
THEOREM InstalledAsShown == WindowSpec => []ConsentCoversPackage
<1>1. StoreInv => ConsentCoversPackage
  BY DEF StoreInv
<1> QED
  BY StoreInvInit, StoreInvStep, <1>1, PTL DEF WindowSpec

-------------------------------------------------------------------------------
(* The tab strip.  The strip lists tabs that were opened, each once. *)
Distinct(s) == \A i, j \in DOMAIN s : s[i] = s[j] => i = j
Shown(s) == {s[i] : i \in DOMAIN s}

StripInv ==
  /\ order \in Seq(Tab) /\ Distinct(order) /\ Shown(order) \subseteq opened
  /\ groups \in [Group -> SUBSET Shown(order)]
  /\ active \in IF order = <<>> THEN {NoTab} ELSE Shown(order)

LEMMA StripKeeps == \A s, I : Strip!Keep(s, I) = Keep(s, I)
  BY DEF Strip!Keep, Strip!Picked, Strip!Arranged, Strip!Ascending, Strip!Preceding,
         Strip!Cardinality, Keep, Picked, Arranged, Ascending, Preceding, Cardinality

LEMMA StripShows == \A s : Strip!ToSet(s) = Shown(s)
  BY DEF Strip!ToSet, Shown

(* What is left of a strip without a tab. *)
LEMMA WithoutIs ==
  ASSUME order \in Seq(Tab), Distinct(order), NEW id
  PROVE  /\ Strip!Without(id) \in Seq(Tab)
         /\ Distinct(Strip!Without(id))
         /\ Shown(Strip!Without(id)) = Shown(order) \ {id}
         /\ id \in Shown(order) => Len(Strip!Without(id)) = Len(order) - 1
<1> DEFINE I == {i \in DOMAIN order : order[i] # id}
           w == Keep(order, I)
<1>1. Strip!Without(id) = w
  BY StripKeeps DEF Strip!Without
<1>2. Len(order) \in Nat /\ DOMAIN order = 1 .. Len(order)
  BY LenProperties
<1>3. I \in SUBSET DOMAIN order
  OBVIOUS
<1> HIDE DEF I
<1>4. /\ IsFiniteSet(I) /\ Cardinality(I) \in Nat
      /\ w \in Seq(Tab) /\ Len(w) = Cardinality(I)
      /\ \E pos : KeepsAt(pos, order, I)
  BY <1>3, KeepIs
<1>5. PICK pos : KeepsAt(pos, order, I)
  BY <1>4
<1>6. /\ pos \in [1 .. Cardinality(I) -> I]
      /\ \A n \in 1 .. Cardinality(I) : w[n] = order[pos[n]]
      /\ \A i \in I : \E n \in 1 .. Cardinality(I) : pos[n] = i
      /\ \A m, n \in 1 .. Cardinality(I) : m < n <=> pos[m] < pos[n]
  BY <1>5 DEF KeepsAt
<1> HIDE DEF w
<1>7. DOMAIN w = 1 .. Cardinality(I)
  BY <1>4, LenProperties
<1>8. Distinct(w)
  <2> SUFFICES ASSUME NEW m \in DOMAIN w, NEW n \in DOMAIN w, w[m] = w[n] PROVE m = n
    BY DEF Distinct
  <2>1. pos[m] = pos[n]
    BY <1>3, <1>6, <1>7 DEF Distinct
  <2>2. ~(m < n) /\ ~(n < m)
    BY <1>2, <1>3, <1>6, <1>7, <2>1
  <2> QED
    BY <1>4, <1>7, <2>2
<1>9. Shown(w) = Shown(order) \ {id}
  <2>1. \A n \in DOMAIN w : w[n] \in Shown(order) \ {id}
    BY <1>3, <1>6, <1>7 DEF Shown, I
  <2>2. ASSUME NEW i \in DOMAIN order, order[i] # id PROVE order[i] \in Shown(w)
    BY <1>6, <1>7, <2>2 DEF Shown, I
  <2> QED
    BY <2>1, <2>2 DEF Shown
<1>10. ASSUME id \in Shown(order) PROVE Len(w) = Len(order) - 1
  <2>1. PICK i \in DOMAIN order : order[i] = id
    BY <1>10 DEF Shown
  <2>2. I = (1 .. Len(order)) \ {i}
    BY <1>2, <2>1 DEF Distinct, I
  <2>3. IsFiniteSet(1 .. Len(order)) /\ Cardinality(1 .. Len(order)) = Len(order)
    <3> DEFINE k == Len(order)
    <3>1. k \in Nat
      BY <1>2
    <3> HIDE DEF k
    <3>2. IsFiniteSet(1 .. k) /\ Cardinality(1 .. k) = k
      BY <3>1, FS_Interval
    <3> QED
      BY <3>2 DEF k
  <2>4. Cardinality(I) = Cardinality(1 .. Len(order)) - 1
    BY <1>2, <2>1, <2>2, <2>3, FS_RemoveElement
  <2> QED
    BY <1>4, <2>3, <2>4
<1> QED
  BY <1>1, <1>4, <1>8, <1>9, <1>10

(* A tab is put into a strip that does not show it. *)
LEMMA InsertedAt ==
  ASSUME NEW s \in Seq(Tab), Distinct(s), NEW id \in Tab, id \notin Shown(s),
         NEW a \in 1 .. Len(s) + 1
  PROVE  /\ Strip!InsertAt(s, a, id) \in Seq(Tab)
         /\ Distinct(Strip!InsertAt(s, a, id))
         /\ Shown(Strip!InsertAt(s, a, id)) = Shown(s) \cup {id}
<1> DEFINE t == Strip!InsertAt(s, a, id)
           n == Len(s)
           l == SubSeq(s, 1, a - 1)
           r == SubSeq(s, a, n)
<1>1. n \in Nat /\ DOMAIN s = 1 .. n /\ a \in Nat
  BY LenProperties
<1>2. /\ l \in Seq(Tab) /\ Len(l) = a - 1 /\ \A i \in 1 .. a - 1 : l[i] = s[i]
      /\ r \in Seq(Tab) /\ Len(r) = n - a + 1 /\ \A i \in 1 .. n - a + 1 : r[i] = s[a + i - 1]
  BY <1>1
<1>3. t = l \o <<id>> \o r
  BY DEF Strip!InsertAt
<1> HIDE DEF t, l, r
<1>4. l \o <<id>> = Append(l, id)
  BY <1>2, AppendIsConcat
<1>5. /\ Append(l, id) \in Seq(Tab) /\ Len(Append(l, id)) = a
      /\ \A i \in 1 .. a : Append(l, id)[i] = IF i = a THEN id ELSE s[i]
  BY <1>1, <1>2, AppendProperties
<1>6. /\ t \in Seq(Tab) /\ Len(t) = n + 1
      /\ \A i \in 1 .. n + 1 : t[i] = IF i <= a THEN Append(l, id)[i] ELSE r[i - a]
  <2>1. /\ Append(l, id) \o r \in Seq(Tab) /\ Len(Append(l, id) \o r) = a + (n - a + 1)
        /\ \A i \in 1 .. a + (n - a + 1) :
             (Append(l, id) \o r)[i] = IF i <= a THEN Append(l, id)[i] ELSE r[i - a]
    <3> DEFINE u == Append(l, id)
    <3>1. u \in Seq(Tab) /\ Len(u) = a
      BY <1>5
    <3> HIDE DEF u
    <3>2. /\ u \o r \in Seq(Tab) /\ Len(u \o r) = Len(u) + Len(r)
          /\ \A i \in 1 .. Len(u) + Len(r) :
               (u \o r)[i] = IF i <= Len(u) THEN u[i] ELSE r[i - Len(u)]
      BY <1>2, <3>1, ConcatProperties
    <3> QED
      BY <1>2, <3>1, <3>2 DEF u
  <2>2. a + (n - a + 1) = n + 1
    BY <1>1
  <2> QED
    BY <1>3, <1>4, <2>1, <2>2
<1>7. DOMAIN t = 1 .. n + 1
  BY <1>6, LenProperties
<1>8. \A i \in 1 .. n + 1 : t[i] = IF i < a THEN s[i] ELSE IF i = a THEN id ELSE s[i - 1]
  <2> SUFFICES ASSUME NEW i \in 1 .. n + 1
               PROVE  t[i] = IF i < a THEN s[i] ELSE IF i = a THEN id ELSE s[i - 1]
    OBVIOUS
  <2>1. CASE i <= a
    BY <1>1, <1>5, <1>6, <2>1
  <2>2. CASE i > a
    <3>1. i - a \in 1 .. n - a + 1 /\ a + (i - a) - 1 = i - 1
      BY <1>1, <2>2
    <3>2. t[i] = r[i - a]
      BY <1>1, <1>6, <2>2
    <3>3. r[i - a] = s[a + (i - a) - 1]
      BY <1>2, <3>1
    <3> QED
      BY <1>1, <2>2, <3>1, <3>2, <3>3
  <2> QED
    BY <1>1, <2>1, <2>2
<1>9. \A i \in DOMAIN s : s[i] # id
  BY DEF Shown
<1>10. \A i \in 1 .. n + 1 : \/ (i < a /\ i \in DOMAIN s /\ t[i] = s[i])
                             \/ (i = a /\ t[i] = id)
                             \/ (i > a /\ i - 1 \in DOMAIN s /\ t[i] = s[i - 1])
  BY <1>1, <1>8
<1>11. Distinct(t)
  <2> SUFFICES ASSUME NEW i \in 1 .. n + 1, NEW j \in 1 .. n + 1, t[i] = t[j] PROVE i = j
    BY <1>7 DEF Distinct
  <2>1. ASSUME NEW m \in 1 .. n + 1 PROVE m = a <=> t[m] = id
    <3>1. CASE m = a
      BY <1>1, <1>10, <3>1
    <3>2. CASE m # a
      <4>1. \E h \in DOMAIN s : t[m] = s[h]
        BY <1>10, <3>2
      <4> QED
        BY <1>9, <3>2, <4>1
    <3> QED
      BY <3>1, <3>2
  <2>2. CASE i = a \/ j = a
    BY <2>1, <2>2
  <2>3. CASE i # a /\ j # a
    <3> DEFINE b == IF i < a THEN i ELSE i - 1
               c == IF j < a THEN j ELSE j - 1
    <3>1. b \in DOMAIN s /\ c \in DOMAIN s /\ t[i] = s[b] /\ t[j] = s[c]
      BY <1>1, <1>10, <2>3
    <3>2. b = c
      BY <3>1 DEF Distinct
    <3> QED
      BY <1>1, <2>3, <3>2
  <2> QED
    BY <2>2, <2>3
<1>12. Shown(t) \subseteq Shown(s) \cup {id}
  BY <1>7, <1>10 DEF Shown
<1>13. id \in Shown(t)
  BY <1>1, <1>7, <1>8 DEF Shown
<1>14. ASSUME NEW i \in DOMAIN s PROVE s[i] \in Shown(t)
  <2>1. CASE i < a
    BY <1>1, <1>7, <1>8, <2>1 DEF Shown
  <2>2. CASE i >= a
    <3>1. i + 1 \in 1 .. n + 1 /\ i + 1 > a /\ (i + 1) - 1 = i
      BY <1>1, <2>2
    <3>2. t[i + 1] = s[i]
      BY <1>1, <1>8, <3>1
    <3> QED
      BY <1>7, <3>1, <3>2 DEF Shown
  <2> QED
    BY <1>1, <2>1, <2>2
<1> QED
  BY <1>6, <1>11, <1>12, <1>13, <1>14 DEF Shown, t

LEMMA StripMaxIs ==
  ASSUME NEW a \in Int, NEW b \in Int
  PROVE  Strip!Max({a, b}) = (IF a >= b THEN a ELSE b) /\ Strip!Min({a, b}) = (IF a <= b THEN a ELSE b)
<1>1. Strip!Max({a, b}) = IF a >= b THEN a ELSE b
  BY DEF Strip!Max
<1>2. Strip!Min({a, b}) = IF a <= b THEN a ELSE b
  BY DEF Strip!Min
<1> QED
  BY <1>1, <1>2

LEMMA TailOfStrip ==
  ASSUME NEW s \in Seq(Tab), s # <<>> PROVE 1 \in DOMAIN s /\ Head(s) = s[1]
<1>1. Len(s) \in Nat \ {0} /\ DOMAIN s = 1 .. Len(s)
  BY EmptySeq, LenProperties
<1> QED
  BY <1>1

(* What a tab strip is after its list changed and its groups still hold shown tabs. *)
LEMMA StripStays ==
  ASSUME StripInv, order' \in Seq(Tab), Distinct(order'), Shown(order') \subseteq opened',
         \A g \in Group : groups'[g] \subseteq Shown(order'),
         \E f \in [Group -> SUBSET Tab] : groups' = f,
         active' \in IF order' = <<>> THEN {NoTab} ELSE Shown(order')
  PROVE  StripInv'
<1>1. groups' \in [Group -> SUBSET Shown(order')]
  OBVIOUS
<1> QED
  BY <1>1 DEF StripInv, Distinct, Shown

LEMMA NewTabStep == ASSUME StripInv, NEW id \in Tab, Strip!NewTab(id) PROVE StripInv'
<1>1. /\ id \notin opened /\ opened' = opened \cup {id}
      /\ order' = Append(order, id) /\ active' = id /\ groups' = groups
  BY DEF Strip!NewTab
<1>2. /\ order \in Seq(Tab) /\ Distinct(order) /\ Shown(order) \subseteq opened
      /\ groups \in [Group -> SUBSET Shown(order)] /\ Shown(order) \subseteq Tab
  BY ElementOfSeq DEF StripInv, Shown
<1>3. /\ Len(order) \in Nat /\ DOMAIN order = 1 .. Len(order)
      /\ order' \in Seq(Tab) /\ DOMAIN order' = 1 .. Len(order) + 1
      /\ \A i \in 1 .. Len(order) : order'[i] = order[i]
      /\ order'[Len(order) + 1] = id /\ order' # <<>>
  <2>1. Len(order) \in Nat /\ DOMAIN order = 1 .. Len(order)
    BY <1>2, LenProperties
  <2> QED
    BY <1>1, <1>2, <2>1
<1>4. Shown(order') = Shown(order) \cup {id}
  <2>1. Shown(order') \subseteq Shown(order) \cup {id}
    BY <1>3 DEF Shown
  <2>2. Shown(order) \subseteq Shown(order')
    BY <1>3 DEF Shown
  <2>3. id \in Shown(order')
    BY <1>3 DEF Shown
  <2> QED
    BY <2>1, <2>2, <2>3
<1>5. Distinct(order')
  <2> SUFFICES ASSUME NEW i \in DOMAIN order', NEW j \in DOMAIN order', order'[i] = order'[j]
               PROVE  i = j
    BY DEF Distinct
  <2>1. \A k \in DOMAIN order : order[k] # id
    BY <1>1, <1>2 DEF Shown
  <2> QED
    BY <1>2, <1>3, <2>1 DEF Distinct
<1>6. groups' \in [Group -> SUBSET Tab]
  BY <1>1, <1>2
<1> QED
  BY <1>1, <1>2, <1>3, <1>4, <1>5, <1>6, StripStays

LEMMA CloseTabStep == ASSUME StripInv, NEW id \in Tab, Strip!CloseTab(id) PROVE StripInv'
<1> DEFINE w == Strip!Without(id)
<1>1. /\ order' = w /\ opened' = opened /\ id \in Shown(order)
      /\ groups' = [g \in Group |-> groups[g] \ {id}]
      /\ active' = IF active # id THEN active ELSE IF w = <<>> THEN NoTab ELSE Head(w)
  BY StripShows DEF Strip!CloseTab, Strip!GroupsWithout
<1>2. /\ order \in Seq(Tab) /\ Distinct(order) /\ Shown(order) \subseteq opened
      /\ groups \in [Group -> SUBSET Shown(order)] /\ Shown(order) \subseteq Tab
      /\ active \in IF order = <<>> THEN {NoTab} ELSE Shown(order)
  BY ElementOfSeq DEF StripInv, Shown
<1>3. w \in Seq(Tab) /\ Distinct(w) /\ Shown(w) = Shown(order) \ {id}
  BY <1>2, WithoutIs
<1> HIDE DEF w
<1>4. order # <<>>
  BY <1>1 DEF Shown
<1>5. w = <<>> <=> Shown(w) = {}
  <2>1. w = <<>> => Shown(w) = {}
    BY DEF Shown
  <2>2. w # <<>> => 1 \in DOMAIN w
    BY <1>3, TailOfStrip
  <2> QED
    BY <2>1, <2>2 DEF Shown
<1>6. w # <<>> => Head(w) \in Shown(w)
  BY <1>3, TailOfStrip DEF Shown
<1>7. active' \in IF order' = <<>> THEN {NoTab} ELSE Shown(order')
  BY <1>1, <1>2, <1>3, <1>4, <1>5, <1>6
<1>8. groups' \in [Group -> SUBSET Tab] /\ \A g \in Group : groups'[g] \subseteq Shown(order')
  BY <1>1, <1>2, <1>3
<1> QED
  BY <1>1, <1>2, <1>3, <1>7, <1>8, StripStays

LEMMA SelectTabStep == ASSUME StripInv, NEW id \in Tab, Strip!SelectTab(id) PROVE StripInv'
<1>1. id \in Shown(order) /\ active' = id /\ UNCHANGED <<order, groups, opened>>
  BY StripShows DEF Strip!SelectTab
<1>2. order # <<>>
  BY <1>1 DEF Shown
<1> QED
  BY <1>1, <1>2 DEF StripInv

LEMMA ClampedIs ==
  ASSUME NEW i \in Int, NEW high \in Nat PROVE Strip!Clamped(i, high) \in 0 .. high
<1>1. Strip!Min({i, high}) = IF i <= high THEN i ELSE high
  BY StripMaxIs
<1>2. Strip!Min({i, high}) \in Int /\ Strip!Min({i, high}) <= high
  BY <1>1
<1>3. Strip!Max({0, Strip!Min({i, high})}) =
        IF 0 >= Strip!Min({i, high}) THEN 0 ELSE Strip!Min({i, high})
  BY <1>2, StripMaxIs
<1> QED
  BY <1>2, <1>3 DEF Strip!Clamped

LEMMA MoveTabStep == ASSUME StripInv, NEW id, NEW i \in Int, Strip!MoveTab(id, i) PROVE StripInv'
<1> DEFINE w == Strip!Without(id)
           a == Strip!Clamped(i, Len(order) - 1) + 1
<1>1. /\ order' = (IF id \in Shown(order) THEN Strip!InsertAt(w, a, id) ELSE order)
      /\ UNCHANGED <<groups, active, opened>>
  BY StripShows DEF Strip!MoveTab
<1>2. order \in Seq(Tab) /\ Distinct(order) /\ Shown(order) \subseteq Tab
  BY ElementOfSeq DEF StripInv, Shown
<1>3. CASE id \notin Shown(order)
  BY <1>1, <1>3 DEF StripInv
<1>4. CASE id \in Shown(order)
  <2>1. w \in Seq(Tab) /\ Distinct(w) /\ Shown(w) = Shown(order) \ {id} /\ Len(w) = Len(order) - 1
    BY <1>2, <1>4, WithoutIs
  <2>2. a \in 1 .. Len(w) + 1
    <3> DEFINE high == Len(order) - 1
    <3>1. high = Len(w) /\ high \in Nat
      BY <2>1, LenProperties
    <3> HIDE DEF high, w
    <3>2. Strip!Clamped(i, high) \in 0 .. high
      BY <3>1, ClampedIs
    <3>3. a = Strip!Clamped(i, high) + 1
      BY DEF high
    <3> QED
      BY <3>1, <3>2, <3>3
  <2> HIDE DEF w, a
  <2>3. /\ Strip!InsertAt(w, a, id) \in Seq(Tab)
        /\ Distinct(Strip!InsertAt(w, a, id))
        /\ Shown(Strip!InsertAt(w, a, id)) = Shown(w) \cup {id}
    BY <1>2, <1>4, <2>1, <2>2, InsertedAt
  <2>4. order' \in Seq(Tab) /\ Distinct(order') /\ Shown(order') = Shown(order)
    BY <1>1, <1>4, <2>1, <2>3
  <2>5. order # <<>> /\ order' # <<>>
    BY <1>4, <2>4 DEF Shown
  <2> QED
    BY <1>1, <1>2, <2>4, <2>5, StripStays DEF StripInv
<1> QED
  BY <1>3, <1>4

LEMMA CreateGroupStep ==
  ASSUME StripInv, NEW g \in Group, NEW ids \in SUBSET Shown(order), Strip!CreateGroup(g, ids)
  PROVE  StripInv'
  BY DEF Strip!CreateGroup, StripInv

LEMMA StripInit == WindowInit => StripInv
<1> SUFFICES ASSUME Strip!Init PROVE StripInv
  BY DEF WindowInit
<1>1. order = <<>> /\ DOMAIN order = {} /\ order \in Seq(Tab)
  BY DEF Strip!Init
<1> QED
  BY <1>1 DEF Strip!Init, StripInv, Distinct, Shown

LEMMA StripStep == StripInv /\ [WindowNext]_allVars => StripInv'
<1> SUFFICES ASSUME StripInv, [WindowNext]_allVars PROVE StripInv'
  OBVIOUS
<1>1. CASE Strip!Next
  <2>1. Len(order) \in Nat
    BY LenProperties DEF StripInv
  <2>2. CASE \E id \in Tab : Strip!NewTab(id) \/ Strip!CloseTab(id) \/ Strip!SelectTab(id)
    BY <2>2, NewTabStep, CloseTabStep, SelectTabStep
  <2>3. CASE \E id \in opened : \E i \in -1 .. Len(order) + 1 : Strip!MoveTab(id, i)
    BY <2>1, <2>3, MoveTabStep
  <2>4. CASE \E g \in Group : \E ids \in SUBSET Strip!ToSet(order) : Strip!CreateGroup(g, ids)
    BY <2>4, StripShows, CreateGroupStep
  <2> QED
    BY <1>1, <2>2, <2>3, <2>4 DEF Strip!Next
<1>2. CASE UNCHANGED stripVars
  BY <1>2 DEF stripVars, StripInv
<1> QED
  BY <1>1, <1>2 DEF WindowNext, allVars

(* However many tabs are opened, moved, grouped and closed, strip, groups and
   active tab speak of the same tabs (TabStrip, App.closeTab). *)
THEOREM StripIsConsistent == WindowSpec => []WindowConsistent
<1>1. StripInv => WindowConsistent
  BY StripShows DEF StripInv, Distinct, WindowConsistent, Strip!WindowConsistent
<1> QED
  BY StripInit, StripStep, <1>1, PTL DEF WindowSpec

-------------------------------------------------------------------------------
(* The palette: whatever is found, it is a list, and the highlight stays in it. *)
PaletteInv == selected \in Int /\ SelectionInList

LEMMA ListsHaveLengths ==
  ASSUME NEW query PROVE Len(Palette!Search(query)) \in Nat
<1> DEFINE score == [i \in DOMAIN Label |-> Palette!FuzzyMatch(query, Label[i])]
           found == {i \in DOMAIN Label : score[i] > 0}
           best == {p \in found \X found :
                         \/ score[p[1]] > score[p[2]]
                         \/ (score[p[1]] = score[p[2]] /\ p[1] < p[2])}
<1>1. found \subseteq DOMAIN Label
  OBVIOUS
<1>2. IsFiniteSet(DOMAIN Label)
  <2>1. Len(Label) \in Nat /\ DOMAIN Label = 1 .. Len(Label)
    BY LabelAssumption, LenProperties
  <2> QED
    BY <2>1, FS_Interval
<1>3. Palette!Search(query) = Palette!Arranged(found, best)
  BY DEF Palette!Search
<1> HIDE DEF score, found, best
<1>4. Cardinality(found) \in Nat
  BY <1>1, <1>2, FS_Subset, FS_CardinalityType
<1> DEFINE s == Palette!Arranged(found, best)
<1>5. Palette!Arranged(found, best) = Arranged(found, best)
  BY DEF Palette!Arranged, Palette!Preceding, Palette!Cardinality, Arranged, Preceding, Cardinality
<1>6. s = [n \in 1 .. Cardinality(found) |-> s[n]]
  BY <1>5 DEF Arranged
<1> HIDE DEF s
<1>7. Len(s) = Cardinality(found)
  BY <1>4, <1>6, FunctionIsSequence
<1> QED
  BY <1>3, <1>4, <1>7 DEF s

LEMMA PaletteMaxIs ==
  ASSUME NEW a \in Int, NEW b \in Int
  PROVE  /\ Palette!Max({a, b}) = IF a >= b THEN a ELSE b
         /\ Palette!Min({a, b}) = IF a <= b THEN a ELSE b
<1>1. Palette!Max({a, b}) = IF a >= b THEN a ELSE b
  BY DEF Palette!Max
<1>2. Palette!Min({a, b}) = IF a <= b THEN a ELSE b
  BY DEF Palette!Min
<1> QED
  BY <1>1, <1>2

(* The highlight is in a list of n rows. *)
InRows(i, n) == i >= -1 /\ (i < n \/ i < 1)

LEMMA PaletteInvIs ==
  PaletteInv <=> selected \in Int /\ (open => InRows(selected, Len(Palette!Search(text))))
<1> DEFINE n == Len(Palette!Search(text))
<1>1. n \in Nat
  BY ListsHaveLengths
<1> HIDE DEF n
<1>2. Palette!Max({1, n}) = IF 1 >= n THEN 1 ELSE n
  BY <1>1, PaletteMaxIs
<1>3. SelectionInList <=> (open => selected >= -1 /\ selected < Palette!Max({1, n}))
  BY DEF SelectionInList, Palette!SelectionInList, n
<1>4. selected \in Int => (InRows(selected, n) <=> selected >= -1 /\ selected < Palette!Max({1, n}))
  BY <1>1, <1>2 DEF InRows
<1> QED
  BY <1>3, <1>4 DEF PaletteInv, n

LEMMA PaletteInvNext ==
  PaletteInv' <=> selected' \in Int /\ (open' => InRows(selected', Len(Palette!Search(text'))))
<1>1. PaletteInv' <=> (selected \in Int /\ (open => InRows(selected, Len(Palette!Search(text)))))'
  BY PaletteInvIs, PTL
<1> QED
  BY <1>1 DEF InRows

LEMMA PaletteStep == PaletteInv /\ [WindowNext]_allVars => PaletteInv'
<1> SUFFICES ASSUME PaletteInv, [WindowNext]_allVars PROVE PaletteInv'
  OBVIOUS
<1> DEFINE rows(q) == Len(Palette!Search(q))
<1>1. \A q : rows(q) \in Nat
  BY ListsHaveLengths
<1>2. selected \in Int /\ (open => InRows(selected, rows(text)))
  BY PaletteInvIs
<1>3. PaletteInv' <=> selected' \in Int /\ (open' => InRows(selected', rows(text')))
  BY PaletteInvNext
<1>4. SUFFICES selected' \in Int /\ (open' => InRows(selected', rows(text')))
  BY <1>3
<1> HIDE DEF rows
<1>5. CASE Palette!Next
  <2>1. CASE Palette!OpenPalette
    BY <1>1, <2>1 DEF Palette!OpenPalette, InRows
  <2>2. CASE Palette!ClosePalette
    BY <1>2, <2>2 DEF Palette!ClosePalette
  <2>3. ASSUME NEW q, Palette!Edit(q)
        PROVE  selected' \in Int /\ (open' => InRows(selected', rows(text')))
    <3>1. text' = q /\ open /\ selected' = IF selected >= rows(q) THEN 0 ELSE selected
      BY <2>3 DEF Palette!Edit, Palette!Rerendered, rows
    <3> QED
      BY <1>1, <1>2, <3>1 DEF InRows
  <2>4. CASE Palette!Type \/ Palette!Erase
    BY <2>3, <2>4 DEF Palette!Type, Palette!Erase
  <2>5. CASE Palette!ArrowDown
    <3>1. /\ open /\ text' = text
          /\ selected' = Palette!Min({selected + 1, rows(text) - 1})
      BY <2>5 DEF Palette!ArrowDown, rows
    <3> DEFINE a == selected + 1
               b == rows(text) - 1
    <3>3. a \in Int /\ b \in Int /\ selected' = Palette!Min({a, b})
      BY <1>1, <1>2, <3>1
    <3> HIDE DEF a, b
    <3>4. selected' = IF a <= b THEN a ELSE b
      BY <3>3, PaletteMaxIs
    <3>2. selected' = IF selected + 1 <= rows(text) - 1 THEN selected + 1 ELSE rows(text) - 1
      BY <3>4 DEF a, b
    <3> QED
      BY <1>1, <1>2, <3>1, <3>2 DEF InRows
  <2>6. CASE Palette!ArrowUp
    <3>1. open /\ text' = text /\ selected' = Palette!Max({selected - 1, 0})
      BY <2>6 DEF Palette!ArrowUp
    <3>2. selected' = IF selected - 1 >= 0 THEN selected - 1 ELSE 0
      BY <1>2, <3>1, PaletteMaxIs
    <3> QED
      BY <1>1, <1>2, <3>1, <3>2 DEF InRows
  <2>7. CASE Palette!Hover
    <3>1. open /\ text' = text /\ selected' \in 0 .. rows(text) - 1
      BY <2>7 DEF Palette!Hover, rows
    <3> QED
      BY <1>1, <3>1 DEF InRows
  <2>8. CASE (\E i \in 1 .. Len(Label) : Palette!RunResult(i)) \/ Palette!Enter
    BY <1>2, <2>8 DEF Palette!RunResult, Palette!Enter, Palette!Omnibox
  <2> QED
    BY <1>5, <2>1, <2>2, <2>4, <2>5, <2>6, <2>7, <2>8 DEF Palette!Next
<1>6. CASE UNCHANGED paletteVars
  BY <1>2, <1>6 DEF paletteVars
<1> QED
  BY <1>5, <1>6 DEF WindowNext, allVars

(* However the text is edited and the list shrinks and grows under the highlight,
   and wherever the arrows and the mouse put it, it never points below the list
   (App.renderResults, App.onKeydown). *)
THEOREM HighlightStaysInList == WindowSpec => []SelectionInList
<1>1. WindowInit => PaletteInv
  BY PaletteInvIs DEF WindowInit, Palette!Init
<1>2. PaletteInv => SelectionInList
  BY DEF PaletteInv
<1> QED
  BY <1>1, PaletteStep, <1>2, PTL DEF WindowSpec
-------------------------------------------------------------------------------
(* What the palette finds.  Scores are numbers, whatever is scanned. *)
State == [next : Nat, last : Int, score : Nat]

(* One turn of the loop of fuzzyMatch, at the letter n. *)
Turn(query, label, n, m) ==
  IF m.next > Len(query) \/ label[n] # query[m.next] THEN m
  ELSE [next |-> m.next + 1, last |-> n,
        score |-> m.score + (IF n = m.last + 1 THEN 5 ELSE 1)
                          + (IF Palette!Boundary(label, n) THEN 3 ELSE 0)]

LEMMA TurnIs ==
  ASSUME NEW query, NEW label, NEW n \in Nat, NEW m \in State
  PROVE  /\ Turn(query, label, n, m) \in State
         /\ \/ Turn(query, label, n, m) = m
            \/ Turn(query, label, n, m).next = m.next + 1
<1>1. \A b, c : m.score + (IF b THEN 5 ELSE 1) + (IF c THEN 3 ELSE 0) \in Nat
  BY DEF State
<1>2. m.next + 1 \in Nat
  BY DEF State
<1> DEFINE score == m.score + (IF n = m.last + 1 THEN 5 ELSE 1)
                            + (IF Palette!Boundary(label, n) THEN 3 ELSE 0)
<1>3. score \in Nat
  <2>1. m.score \in Nat
    BY DEF State
  <2>2. (IF n = m.last + 1 THEN 5 ELSE 1) \in Nat
    OBVIOUS
  <2>3. (IF Palette!Boundary(label, n) THEN 3 ELSE 0) \in Nat
    OBVIOUS
  <2> QED
    BY <2>1, <2>2, <2>3
<1>4. /\ Turn(query, label, n, m) =
            IF m.next > Len(query) \/ label[n] # query[m.next] THEN m
            ELSE [next |-> m.next + 1, last |-> n, score |-> score]
  BY DEF Turn
<1> HIDE DEF score
<1> QED
  BY <1>2, <1>3, <1>4 DEF State

LEMMA ScannedIs ==
  ASSUME NEW query, NEW label \in Seq(STRING)
  PROVE  LET scan == Palette!Scanned(query, label) IN
         /\ scan \in [0 .. Len(label) -> State]
         /\ scan[0] = [next |-> 1, last |-> -1, score |-> 0]
         /\ \A n \in 1 .. Len(label) : scan[n] = Turn(query, label, n, scan[n - 1])
<1> DEFINE N == Len(label)
           start == [next |-> 1, last |-> -1, score |-> 0]
           turn(n, m) == Turn(query, label, n, m)
           Lawful(g) == g = [n \in 0 .. N |-> IF n = 0 THEN start ELSE turn(n, g[n - 1])]
           scan == Palette!Scanned(query, label)
<1>1. N \in Nat
  BY LenProperties
<1>2. start \in State
  BY DEF State
<1>3. \A n \in 1 .. N, m \in State : turn(n, m) \in State
  <2> TAKE n \in 1 .. N, m \in State
  <2>1. n \in Nat
    BY <1>1
  <2> QED
    BY <2>1, TurnIs
<1>4. scan = CHOOSE g : Lawful(g)
  BY DEF Palette!Scanned, Turn
<1> HIDE DEF N, start, turn, scan
<1> DEFINE step == [p \in (1 .. N) \X State |-> turn(p[1], p[2])]
<1>5. step \in [(1 .. N) \X State -> State]
  BY <1>3
<1>6. \A n \in 1 .. N, m \in State : step[<<n, m>>] = turn(n, m)
  OBVIOUS
<1> HIDE DEF step
<1>7. PICK f : Iterated(f, State, N, start, step)
  BY <1>1, <1>2, <1>5, Iterates
<1>8. /\ f \in [0 .. N -> State] /\ f[0] = start
      /\ \A n \in 1 .. N : f[n] = turn(n, f[n - 1])
  <2>1. /\ f \in [0 .. N -> State] /\ f[0] = start
        /\ \A n \in 1 .. N : f[n] = step[<<n, f[n - 1]>>]
    BY <1>7 DEF Iterated
  <2>2. \A n \in 1 .. N : n - 1 \in 0 .. N
    BY <1>1
  <2>3. \A n \in 1 .. N : f[n - 1] \in State
    BY <2>1, <2>2
  <2> QED
    BY <1>6, <2>1, <2>3
<1>9. Lawful(f)
  <2>1. \A n \in 0 .. N : f[n] = IF n = 0 THEN start ELSE turn(n, f[n - 1])
    BY <1>1, <1>8
  <2> QED
    BY <1>8, <2>1
<1>10. Lawful(scan)
  BY <1>4, <1>9
<1>11. scan[0] = start /\ \A n \in 1 .. N : scan[n] = turn(n, scan[n - 1])
  BY <1>1, <1>10
<1>12. scan \in [0 .. N -> State]
  <2> DEFINE T == {n \in Nat : n <= N => scan[n] \in State}
  <2>1. 0 \in T
    BY <1>2, <1>11
  <2>2. ASSUME NEW n \in Nat, n \in T PROVE n + 1 \in T
    <3>1. CASE n + 1 <= N
      <4>1. n + 1 \in 1 .. N /\ (n + 1) - 1 = n /\ scan[n] \in State
        BY <1>1, <2>2, <3>1
      <4>2. scan[n + 1] \in State
        BY <1>3, <1>11, <4>1
      <4> QED
        BY <4>2
    <3> QED
      BY <3>1
  <2>3. Nat \subseteq T
    BY <2>1, <2>2, Induction
  <2>4. \A n \in 0 .. N : scan[n] \in State
    BY <1>1, <2>3
  <2> QED
    BY <1>10, <2>4
<1> QED
  BY <1>11, <1>12 DEF N, start, turn, scan

(* at puts the first k letters of the query on letters 1 .. n of the label. *)
Embeds(at, query, label, k, n) ==
  /\ at \in [1 .. k -> 1 .. n]
  /\ \A i \in 1 .. k : label[at[i]] = query[i]
  /\ \A i, j \in 1 .. k : i < j => at[i] < at[j]

(* One letter more, on the letter n + 1. *)
LEMMA EmbedsMore ==
  ASSUME NEW query, NEW label, NEW k \in Nat, NEW n \in Nat, NEW at, Embeds(at, query, label, k, n)
  PROVE  /\ \E a : Embeds(a, query, label, k, n + 1)
         /\ label[n + 1] = query[k + 1] => \E a : Embeds(a, query, label, k + 1, n + 1)
<1>1. Embeds(at, query, label, k, n + 1)
  <2>1. at \in [1 .. k -> 1 .. n + 1]
    BY DEF Embeds
  <2> QED
    BY <2>1 DEF Embeds
<1>2. ASSUME label[n + 1] = query[k + 1] PROVE \E a : Embeds(a, query, label, k + 1, n + 1)
  <2> DEFINE a == [i \in 1 .. k + 1 |-> IF i = k + 1 THEN n + 1 ELSE at[i]]
  <2>1. /\ at \in [1 .. k -> 1 .. n]
        /\ \A i \in 1 .. k : label[at[i]] = query[i]
        /\ \A i, j \in 1 .. k : i < j => at[i] < at[j]
    BY DEF Embeds
  <2>2. a[k + 1] = n + 1 /\ \A i \in 1 .. k : a[i] = at[i] /\ at[i] \in 1 .. n
    BY <2>1
  <2>3. \A i \in 1 .. k + 1 : i = k + 1 \/ i \in 1 .. k
    OBVIOUS
  <2>8. DOMAIN a = 1 .. k + 1 /\ a = [i \in 1 .. k + 1 |-> a[i]]
    OBVIOUS
  <2> HIDE DEF a
  <2>9. \A i \in 1 .. k + 1 : a[i] \in 1 .. n + 1
    <3> TAKE i \in 1 .. k + 1
    <3>1. CASE i = k + 1
      BY <2>2, <3>1
    <3>2. CASE i \in 1 .. k
      <4>1. a[i] \in 1 .. n
        BY <2>2, <3>2
      <4> QED
        BY <4>1
    <3> QED
      BY <2>3, <3>1, <3>2
  <2>4. a \in [1 .. k + 1 -> 1 .. n + 1]
    BY <2>8, <2>9
  <2>5. \A i \in 1 .. k + 1 : label[a[i]] = query[i]
    BY <1>2, <2>1, <2>2, <2>3
  <2>6. ASSUME NEW i \in 1 .. k + 1, NEW j \in 1 .. k + 1, i < j PROVE a[i] < a[j]
    <3>1. i \in 1 .. k
      BY <2>6
    <3>2. CASE j = k + 1
      BY <2>2, <3>1, <3>2
    <3>3. CASE j \in 1 .. k
      BY <2>1, <2>2, <2>6, <3>1, <3>3
    <3> QED
      BY <2>3, <3>2, <3>3
  <2>7. Embeds(a, query, label, k + 1, n + 1)
    BY <2>4, <2>5, <2>6 DEF Embeds
  <2> QED
    BY <2>7
<1> QED
  BY <1>1, <1>2

(* Whatever is put on the first n + 1 letters is put on the first n, or its last
   letter is on n + 1 and the others are put on the first n. *)
LEMMA EmbedsLess ==
  ASSUME NEW query, NEW label, NEW k \in Nat, NEW n \in Nat, NEW at,
         Embeds(at, query, label, k, n + 1)
  PROVE  \/ Embeds(at, query, label, k, n)
         \/ /\ k >= 1 /\ label[n + 1] = query[k]
            /\ \E a : Embeds(a, query, label, k - 1, n)
<1>1. /\ at \in [1 .. k -> 1 .. n + 1]
      /\ \A i \in 1 .. k : label[at[i]] = query[i]
      /\ \A i, j \in 1 .. k : i < j => at[i] < at[j]
  BY DEF Embeds
<1>2. CASE \A i \in 1 .. k : at[i] # n + 1
  <2>1. \A i \in 1 .. k : at[i] \in 1 .. n
    BY <1>1, <1>2
  <2>2. at \in [1 .. k -> 1 .. n]
    BY <1>1, <2>1
  <2> QED
    BY <1>1, <2>2 DEF Embeds
<1>3. CASE \E i \in 1 .. k : at[i] = n + 1
  <2>1. PICK i \in 1 .. k : at[i] = n + 1
    BY <1>3
  <2>2. i = k
    <3> SUFFICES ASSUME i # k PROVE FALSE
      OBVIOUS
    <3>1. k \in 1 .. k /\ i < k
      OBVIOUS
    <3>2. at[i] < at[k] /\ at[k] \in 1 .. n + 1
      BY <1>1, <3>1
    <3> QED
      BY <2>1, <3>2
  <2>3. k >= 1 /\ label[n + 1] = query[k]
    BY <1>1, <2>1, <2>2
  <2> DEFINE a == [j \in 1 .. k - 1 |-> at[j]]
  <2>4. \A j \in 1 .. k - 1 : j \in 1 .. k /\ j < k /\ a[j] = at[j]
    OBVIOUS
  <2>5. \A j \in 1 .. k - 1 : at[j] \in 1 .. n + 1 /\ at[j] < n + 1
    <3> TAKE j \in 1 .. k - 1
    <3>1. j \in 1 .. k /\ j < i
      BY <2>2, <2>4
    <3> QED
      BY <1>1, <2>1, <3>1
  <2>6. a \in [1 .. k - 1 -> 1 .. n]
    BY <2>5
  <2> HIDE DEF a
  <2>7. /\ \A j \in 1 .. k - 1 : label[a[j]] = query[j]
        /\ \A j, m \in 1 .. k - 1 : j < m => a[j] < a[m]
    BY <1>1, <2>4
  <2>8. Embeds(a, query, label, k - 1, n)
    BY <2>6, <2>7 DEF Embeds
  <2> QED
    BY <2>3, <2>8
<1> QED
  BY <1>2, <1>3

(* The scan is greedy and misses nothing: after n letters it has put on them as
   many letters of the query as can be put. *)
LEMMA ScanIs ==
  ASSUME NEW query \in Seq(STRING), NEW label \in Seq(STRING), NEW n \in 0 .. Len(label)
  PROVE  LET m == Palette!Scanned(query, label)[n] IN
         /\ m \in State /\ m.next \in 1 .. Len(query) + 1 /\ m.score >= m.next - 1
         /\ \E at : Embeds(at, query, label, m.next - 1, n)
         /\ \A k \in 0 .. Len(query) : \A at : Embeds(at, query, label, k, n) => k <= m.next - 1
<1> DEFINE N == Len(label)
           Q == Len(query)
           scan == Palette!Scanned(query, label)
           reach(i) == scan[i].next - 1
           fits(k, i) == \E at : Embeds(at, query, label, k, i)
           Fine(i) == /\ reach(i) \in 0 .. Q /\ scan[i].score >= reach(i)
                      /\ fits(reach(i), i)
                      /\ \A k \in 0 .. Q : fits(k, i) => k <= reach(i)
           T == {i \in Nat : i <= N => Fine(i)}
<1>1. N \in Nat /\ Q \in Nat
  BY LenProperties
<1>2. /\ scan \in [0 .. N -> State] /\ scan[0] = [next |-> 1, last |-> -1, score |-> 0]
      /\ \A i \in 1 .. N : scan[i] = Turn(query, label, i, scan[i - 1])
  BY ScannedIs
<1>3. n \in 0 .. N /\ N = Len(label)
  OBVIOUS
<1> HIDE DEF N, Q, scan
<1>4. \A i \in 0 .. N : /\ scan[i] \in State /\ reach(i) \in Int /\ scan[i].next = reach(i) + 1
                        /\ scan[i].score \in Nat /\ scan[i].last \in Int
  BY <1>2 DEF State
<1>5. 0 \in T
  <2>1. reach(0) = 0 /\ scan[0].score = 0
    BY <1>2
  <2>2. fits(0, 0)
    <3>1. Embeds([i \in 1 .. 0 |-> 1], query, label, 0, 0)
      BY DEF Embeds
    <3> QED
      BY <3>1
  <2>3. ASSUME NEW k \in 0 .. Q, fits(k, 0) PROVE k <= 0
    <3>1. PICK at : Embeds(at, query, label, k, 0)
      BY <2>3
    <3>2. at \in [1 .. k -> 1 .. 0]
      BY <3>1 DEF Embeds
    <3> QED
      BY <1>1, <3>2
  <2> HIDE DEF reach, fits
  <2> QED
    BY <1>1, <2>1, <2>2, <2>3
<1>6. ASSUME NEW i \in Nat, i \in T PROVE i + 1 \in T
  <2> SUFFICES ASSUME i + 1 <= N PROVE Fine(i + 1)
    OBVIOUS
  <2>1. /\ reach(i) \in 0 .. Q /\ scan[i].score >= reach(i) /\ fits(reach(i), i)
        /\ \A k \in 0 .. Q : fits(k, i) => k <= reach(i)
    BY <1>1, <1>6
  <2>2. i + 1 \in 1 .. N /\ (i + 1) - 1 = i /\ i \in 0 .. N /\ i + 1 \in 0 .. N
    BY <1>1
  <2> DEFINE r == reach(i)
             m == scan[i]
             hit == r < Q /\ label[i + 1] = query[r + 1]
  <2>3. scan[i + 1] = Turn(query, label, i + 1, m)
    BY <1>2, <2>2
  <2>4. m \in State /\ m.next = r + 1 /\ r \in Nat /\ r <= Q /\ m.score \in Nat
    BY <1>1, <1>4, <2>1, <2>2
  <2>5. hit <=> ~(m.next > Len(query) \/ label[i + 1] # query[m.next])
    BY <1>1, <2>4 DEF Q
  <2>6. /\ ~hit => reach(i + 1) = r /\ scan[i + 1].score = m.score
        /\ hit => reach(i + 1) = r + 1 /\ scan[i + 1].score >= m.score + 1
    <3>1. CASE ~hit
      <4>1. scan[i + 1] = m
        BY <2>3, <2>5, <3>1 DEF Turn
      <4> QED
        BY <3>1, <4>1
    <3>2. CASE hit
      <4> DEFINE e == IF i + 1 = m.last + 1 THEN 5 ELSE 1
                 f == IF Palette!Boundary(label, i + 1) THEN 3 ELSE 0
      <4>1. e \in Nat /\ e >= 1 /\ f \in Nat
        OBVIOUS
      <4>2. scan[i + 1] = [next |-> m.next + 1, last |-> i + 1, score |-> m.score + e + f]
        BY <2>3, <2>5, <3>2 DEF Turn
      <4> HIDE DEF e, f, hit, reach
      <4>3. scan[i + 1].next = m.next + 1 /\ scan[i + 1].score = m.score + e + f
        BY <4>2
      <4>4. reach(i + 1) = (m.next + 1) - 1
        BY <4>3 DEF reach
      <4>5. m.next + 1 = (r + 1) + 1 /\ r \in Nat /\ m.score \in Nat
        BY <2>4
      <4> HIDE DEF r, m
      <4>6. reach(i + 1) = r + 1
        BY <4>4, <4>5
      <4>7. scan[i + 1].score >= m.score + 1
        BY <4>1, <4>3, <4>5
      <4> QED
        BY <3>2, <4>6, <4>7
    <3> QED
      BY <3>1, <3>2
  <2>7. /\ \A k \in Nat : fits(k, i) => fits(k, i + 1)
        /\ \A k \in Nat : fits(k, i) /\ label[i + 1] = query[k + 1] => fits(k + 1, i + 1)
    BY EmbedsMore
  <2>8. \A k \in Nat : fits(k, i + 1) =>
          fits(k, i) \/ (k >= 1 /\ label[i + 1] = query[k] /\ fits(k - 1, i))
    BY EmbedsLess
  <2>9. scan[i + 1].score \in Nat
    BY <1>4, <2>2
  <2> HIDE DEF fits, reach
  <2>10. reach(i + 1) \in 0 .. Q /\ scan[i + 1].score >= reach(i + 1)
    <3> DEFINE sc == m.score
               sc1 == scan[i + 1].score
               r1 == reach(i + 1)
    <3>1. r \in Nat /\ r <= Q /\ sc \in Nat /\ sc >= r /\ sc1 \in Nat
      BY <2>1, <2>4, <2>9
    <3>2. (~hit => r1 = r /\ sc1 = sc) /\ (hit => r1 = r + 1 /\ sc1 >= sc + 1)
      BY <2>6
    <3>3. hit => r < Q
      OBVIOUS
    <3> HIDE DEF hit, r, sc, sc1, r1
    <3>4. r1 \in 0 .. Q /\ sc1 >= r1
      BY <1>1, <3>1, <3>2, <3>3
    <3> QED
      BY <3>4 DEF sc1, r1
  <2> HIDE DEF m
  <2>11. fits(reach(i + 1), i + 1)
    <3>1. CASE hit
      BY <2>1, <2>4, <2>6, <2>7, <3>1
    <3>2. CASE ~hit
      BY <2>1, <2>4, <2>6, <2>7, <3>2
    <3> QED
      BY <3>1, <3>2
  <2>12. ASSUME NEW k \in 0 .. Q, fits(k, i + 1) PROVE k <= reach(i + 1)
    <3>1. r <= reach(i + 1) /\ reach(i + 1) \in Nat
      BY <1>1, <2>4, <2>6, <2>10
    <3>2. k \in Nat
      BY <1>1
    <3>3. CASE fits(k, i)
      BY <2>1, <2>4, <3>1, <3>2, <3>3
    <3>4. CASE k >= 1 /\ label[i + 1] = query[k] /\ fits(k - 1, i)
      <4>1. k - 1 \in 0 .. Q
        BY <1>1, <3>2, <3>4
      <4>2. k - 1 <= r
        BY <2>1, <3>4, <4>1
      <4>3. CASE k <= r
        BY <2>4, <3>1, <3>2, <4>3
      <4>4. CASE k = r + 1
        <5>1. hit
          BY <1>1, <2>4, <3>4, <4>4
        <5> QED
          BY <2>4, <2>6, <4>4, <5>1
      <4> QED
        BY <2>4, <3>2, <4>2, <4>3, <4>4
    <3> QED
      BY <2>8, <2>12, <3>2, <3>3, <3>4
  <2> QED
    BY <2>10, <2>11, <2>12
<1> HIDE DEF Fine
<1>7. Nat \subseteq T
  BY <1>5, <1>6, Induction
<1>8. Fine(n)
  BY <1>1, <1>3, <1>7
<1>9. scan[n] \in State /\ scan[n].next = reach(n) + 1
  BY <1>3, <1>4
<1> QED
  BY <1>1, <1>8, <1>9 DEF Fine, scan, Q, N

LEMMA FuzzyIs ==
  ASSUME NEW query \in Seq(STRING), NEW label \in Seq(STRING)
  PROVE  /\ Palette!FuzzyMatch(query, label) \in Nat
         /\ Palette!FuzzyMatch(query, label) > 0 <=> Palette!HasSubsequence(label, query)
<1> DEFINE N == Len(label)
           Q == Len(query)
           m == Palette!Scan(query, label)
           fits(k) == \E at : Embeds(at, query, label, k, N)
           score == Palette!FuzzyMatch(query, label)
           has == Palette!HasSubsequence(label, query)
           more == Palette!Max({0, 40 - N})
<1>1. /\ N \in Nat /\ DOMAIN label = 1 .. N
      /\ Q \in Nat /\ DOMAIN query = 1 .. Q /\ (Q = 0 <=> query = <<>>)
  BY LenProperties, EmptySeq
<1>2. has <=> fits(Q)
  BY <1>1 DEF Palette!HasSubsequence, Embeds
<1>3. /\ m \in State /\ m.next \in 1 .. Q + 1 /\ m.score >= m.next - 1 /\ fits(m.next - 1)
      /\ \A k \in 0 .. Q : fits(k) => k <= m.next - 1
  <2>1. N \in 0 .. Len(label) /\ m = Palette!Scanned(query, label)[N]
    BY <1>1 DEF Palette!Scan
  <2> HIDE DEF N, m
  <2> QED
    BY <2>1, ScanIs
<1>4. more \in Nat
  BY <1>1, PaletteMaxIs
<1>5. score = IF query = <<>> THEN 4 ELSE IF m.next <= Q THEN 0 ELSE 4 * m.score + more
  BY DEF Palette!FuzzyMatch
<1>6. m.next \in Nat /\ m.score \in Nat
  BY <1>3 DEF State
<1> HIDE DEF N, Q, m, fits, score, has, more
<1>7. CASE query = <<>>
  <2>1. Q = 0 /\ m.next - 1 = 0
    BY <1>1, <1>3, <1>6, <1>7
  <2>2. fits(Q) /\ score = 4
    BY <1>3, <1>5, <1>7, <2>1
  <2> QED
    BY <1>2, <2>2 DEF score, has
<1>8. CASE query # <<>> /\ m.next <= Q
  <2>1. Q \in 0 .. Q /\ ~(Q <= m.next - 1)
    BY <1>1, <1>6, <1>8
  <2>2. ~fits(Q) /\ score = 0
    BY <1>3, <1>5, <1>8, <2>1
  <2> QED
    BY <1>2, <2>2 DEF score, has
<1>9. CASE query # <<>> /\ ~(m.next <= Q)
  <2>1. m.next - 1 = Q /\ Q >= 1
    BY <1>1, <1>3, <1>6, <1>9
  <2>2. fits(Q) /\ score = 4 * m.score + more /\ m.score >= 1
    BY <1>1, <1>3, <1>5, <1>6, <1>9, <2>1
  <2>3. score \in Nat /\ score > 0
    BY <1>4, <1>6, <2>2
  <2> QED
    BY <1>2, <2>2, <2>3 DEF score, has
<1> QED
  BY <1>7, <1>8, <1>9

(* For any commands and any text: the greedy scan of fuzzyMatch finds exactly the
   labels that contain the text as a subsequence, so nothing that could be shown
   is missing from the list, and rank neither loses nor repeats one. *)
THEOREM MatchesAreExact ==
  ASSUME NEW query \in Seq(STRING)
  PROVE  Palette!MatchesAreSubsequences(query)
<1> DEFINE score == [i \in DOMAIN Label |-> Palette!FuzzyMatch(query, Label[i])]
           found == {i \in DOMAIN Label : score[i] > 0}
           best == {p \in found \X found :
                         \/ score[p[1]] > score[p[2]]
                         \/ (score[p[1]] = score[p[2]] /\ p[1] < p[2])}
           s == Palette!Arranged(found, best)
           c == Cardinality(found)
<1>1. Len(Label) \in Nat /\ DOMAIN Label = 1 .. Len(Label)
  BY LabelAssumption, LenProperties
<1>2. \A i \in DOMAIN Label : Label[i] \in Seq(STRING)
  BY LabelAssumption, ElementOfSeq, <1>1
<1>3. \A i \in DOMAIN Label :
        score[i] \in Nat /\ (score[i] > 0 <=> Palette!HasSubsequence(Label[i], query))
  BY <1>2, FuzzyIs
<1>4. found = {i \in DOMAIN Label : Palette!HasSubsequence(Label[i], query)}
  BY <1>3
<1>5. IsFiniteSet(found)
  <2>1. found \subseteq DOMAIN Label
    OBVIOUS
  <2> HIDE DEF found
  <2>2. IsFiniteSet(DOMAIN Label)
    BY <1>1, FS_Interval
  <2> QED
    BY <2>1, <2>2, FS_Subset
<1>6. Palette!Search(query) = s
  BY DEF Palette!Search
<1>7. found \subseteq Nat /\ \A i \in found : score[i] \in Nat
  BY <1>1, <1>3
<1>8. s = Arranged(found, best)
  BY DEF Palette!Arranged, Palette!Preceding, Palette!Cardinality, Arranged, Preceding, Cardinality
<1> HIDE DEF score, found, s
<1>9. Orders(best, found)
  BY <1>7 DEF Orders
<1> HIDE DEF best
<1>10. c \in Nat /\ Lists(s, found, best)
  BY <1>5, <1>8, <1>9, ArrangedLists
<1>11. s \in [1 .. c -> found] /\ \A i \in found : \E n \in 1 .. c : s[n] = i
  BY <1>10 DEF Lists
<1>12. DOMAIN s = 1 .. c
  BY <1>11
<1>13. Palette!ToSet(s) = found
  BY <1>11, <1>12 DEF Palette!ToSet
<1> QED
  BY <1>4, <1>6, <1>13 DEF Palette!MatchesAreSubsequences
-------------------------------------------------------------------------------
(* The history index.  A vector has one component for each bucket. *)
Vector == [1 .. DIM -> Nat]
HistoryInv == entries \in Seq(Page)

LEMMA EmbedIs ==
  ASSUME NEW words \in Seq(DOMAIN BucketOf)
  PROVE  /\ Visits!Embed(words) \in Vector
         /\ \A i \in DOMAIN words : /\ BucketOf[words[i]] \in 1 .. DIM
                                    /\ Visits!Embed(words)[BucketOf[words[i]]] > 0
<1> DEFINE at(b) == {i \in DOMAIN words : BucketOf[words[i]] = b}
<1>1. Visits!Embed(words) = [b \in 1 .. DIM |-> Cardinality(at(b))]
  BY DEF Visits!Embed, Visits!Cardinality, Cardinality
<1>2. Len(words) \in Nat /\ DOMAIN words = 1 .. Len(words) /\ IsFiniteSet(1 .. Len(words))
  BY LenProperties, FS_Interval
<1>3. \A b : at(b) \subseteq 1 .. Len(words)
  BY <1>2
<1>4. ASSUME NEW i \in DOMAIN words
      PROVE  BucketOf[words[i]] \in 1 .. DIM /\ i \in at(BucketOf[words[i]])
  <2>1. words[i] \in DOMAIN BucketOf
    BY ElementOfSeq
  <2> QED
    BY <2>1, PageAssumption
<1> HIDE DEF at
<1>5. ASSUME NEW b
      PROVE  Cardinality(at(b)) \in Nat /\ (at(b) # {} => Cardinality(at(b)) # 0)
  <2>1. IsFiniteSet(at(b))
    BY <1>2, <1>3, FS_Subset
  <2> QED
    BY <2>1, FS_CardinalityType, FS_EmptySet
<1>6. Visits!Embed(words) \in Vector
  BY <1>1, <1>5 DEF Vector
<1>7. ASSUME NEW i \in DOMAIN words PROVE Visits!Embed(words)[BucketOf[words[i]]] > 0
  <2> DEFINE b == BucketOf[words[i]]
  <2>1. b \in 1 .. DIM /\ at(b) # {}
    BY <1>4
  <2> HIDE DEF b
  <2>2. Cardinality(at(b)) \in Nat /\ Cardinality(at(b)) # 0
    BY <1>5, <2>1
  <2>3. Visits!Embed(words)[b] = Cardinality(at(b))
    BY <1>1, <2>1
  <2>4. Visits!Embed(words)[b] > 0
    BY <2>2, <2>3
  <2> QED
    BY <2>4 DEF b
<1> QED
  BY <1>4, <1>6, <1>7

(* Scores are naturals, and an entry precedes another by score, then by age. *)
LEMMA ScoresOrder ==
  ASSUME NEW query \in Page, NEW visits \in Seq(Page)
  PROVE  Orders(Visits!ScoreOrder(query, visits), DOMAIN visits)
<1> DEFINE I == DOMAIN visits
           f(i) == Visits!Score(query, visits[i])
           O == Visits!ScoreOrder(query, visits)
<1>1. \A i \in I : f(i) \in Nat
  BY ElementOfSeq, CosineAssumption
<1>2. \A i, j \in I : <<i, j>> \in O <=> f(i) > f(j) \/ (f(i) = f(j) /\ i < j)
  BY DEF Visits!ScoreOrder, Visits!Ahead
<1>3. I \subseteq Nat
  BY LenProperties
<1> HIDE DEF f, O, I
<1>4. /\ \A i \in I : <<i, i>> \notin O
      /\ \A i, j \in I : i = j \/ <<i, j>> \in O \/ <<j, i>> \in O
      /\ \A i, j, k \in I : <<i, j>> \in O /\ <<j, k>> \in O => <<i, k>> \in O
  BY <1>1, <1>2, <1>3
<1>5. Orders(O, I)
  BY <1>4 DEF Orders
<1> QED
  BY <1>5 DEF O, I

(* What search returns: the first m positions of the ranking. *)
LEMMA FoundIs ==
  ASSUME NEW query \in Page, HistoryInv, NEW k \in 0 .. MaxEntries
  PROVE  \E pos, m :
           /\ m \in Nat /\ Len(entries) \in Nat /\ m <= Len(entries)
           /\ m = Visits!Min({k, Len(entries)})
           /\ pos \in [1 .. Len(entries) -> DOMAIN entries]
           /\ \A i \in DOMAIN entries : \E n \in 1 .. Len(entries) : pos[n] = i
           /\ \A a, b \in 1 .. Len(entries) :
                a < b <=> <<pos[a], pos[b]>> \in Visits!ScoreOrder(query, entries)
           /\ Visits!ToSet(Visits!Search(query, k)) = {pos[n] : n \in 1 .. m}
           /\ DOMAIN Visits!Search(query, k) = 1 .. m
           /\ \A n \in 1 .. m : Visits!Search(query, k)[n] = pos[n]
<1> DEFINE O == Visits!ScoreOrder(query, entries)
           I == DOMAIN entries
           c == Len(entries)
           pos == Arranged(I, O)
           m == Visits!Min({k, c})
<1>1. c \in Nat /\ I = 1 .. c /\ k \in Nat
  BY LenProperties, PageAssumption DEF HistoryInv
<1>2. IsFiniteSet(I) /\ Cardinality(I) = c
  <2> HIDE DEF c
  <2>1. IsFiniteSet(1 .. c) /\ Cardinality(1 .. c) = c
    BY <1>1, FS_Interval
  <2> QED
    BY <1>1, <2>1
<1>3. Orders(O, I)
  BY ScoresOrder DEF HistoryInv
<1>4. Visits!Ranking(query, entries) = pos
  BY DEF Visits!Ranking, Visits!Arranged, Visits!Preceding, Visits!Cardinality,
         Arranged, Preceding, Cardinality
<1>5. Visits!Search(query, k) = SubSeq(pos, 1, Visits!Min({k, Len(pos)}))
  BY <1>4 DEF Visits!Search, Visits!Truncated
<1> HIDE DEF O
<1>6. Lists(pos, I, O)
  BY <1>2, <1>3, ArrangedLists
<1>7. pos \in [1 .. c -> I]
  BY <1>2, <1>6 DEF Lists
<1> HIDE DEF pos
<1>8. Len(pos) = c /\ pos \in Seq(I)
  BY <1>1, <1>7, SeqDef, LenProperties
<1>9. m = IF k <= c THEN k ELSE c
  <2> HIDE DEF c
  <2> QED
    BY <1>1 DEF Visits!Min
<1>10. Visits!Search(query, k) = SubSeq(pos, 1, m)
  BY <1>5, <1>8
<1> HIDE DEF m
<1>11. m \in Nat /\ m <= c
  <2> HIDE DEF c
  <2> QED
    BY <1>1, <1>9
<1>12. SubSeq(pos, 1, m) = [n \in 1 .. m |-> pos[n]]
  BY <1>1, <1>8, <1>11
<1> DEFINE s == SubSeq(pos, 1, m)
<1>13. DOMAIN s = 1 .. m /\ \A n \in 1 .. m : s[n] = pos[n]
  BY <1>12
<1>14. Visits!ToSet(s) = {s[n] : n \in DOMAIN s}
  BY DEF Visits!ToSet
<1> HIDE DEF s
<1>15. Visits!ToSet(s) = {pos[n] : n \in 1 .. m}
  BY <1>13, <1>14
<1>16. Visits!ToSet(Visits!Search(query, k)) = {pos[n] : n \in 1 .. m}
  BY <1>10, <1>15 DEF s
<1>18. /\ DOMAIN Visits!Search(query, k) = 1 .. m
       /\ \A n \in 1 .. m : Visits!Search(query, k)[n] = pos[n]
  BY <1>10, <1>13 DEF s
<1>17. /\ \A i \in I : \E n \in 1 .. c : pos[n] = i
       /\ \A a, b \in 1 .. c : a < b <=> <<pos[a], pos[b]>> \in O
  BY <1>2, <1>6 DEF Lists
<1> QED
  BY <1>1, <1>7, <1>11, <1>16, <1>17, <1>18 DEF m, O

(* A page that shares a word with the query has a score. *)
LEMMA SharedWordCounts ==
  ASSUME NEW query \in Page, NEW page \in Page,
         Visits!ToSet(page) \cap Visits!ToSet(query) # {}
  PROVE  Visits!Score(query, page) > 0
<1>1. query \in Seq(DOMAIN BucketOf) /\ page \in Seq(DOMAIN BucketOf)
  BY PageAssumption
<1>2. PICK i \in DOMAIN page, j \in DOMAIN query : page[i] = query[j]
  BY DEF Visits!ToSet
<1>3. /\ BucketOf[query[j]] \in 1 .. DIM
      /\ Visits!Embed(query)[BucketOf[query[j]]] > 0 /\ Visits!Embed(page)[BucketOf[query[j]]] > 0
  BY <1>1, <1>2, EmbedIs
<1> QED
  BY <1>3, CosineAssumption

(* Whatever was visited, however the words fall into buckets and the scores are
   rounded, a search returns as many pages as there are up to k, in the order of
   their scores, and none that is left out has a higher score, or the same one and
   is older, than one that is returned (SemanticIndex.search). *)
THEOREM ClosestAreFound == WindowSpec => []FindsTheClosest
<1>1. WindowInit => HistoryInv
  BY DEF WindowInit, Visits!Init, HistoryInv
<1>2. HistoryInv /\ [WindowNext]_allVars => HistoryInv'
  <2> SUFFICES ASSUME HistoryInv, [WindowNext]_allVars PROVE HistoryInv'
    OBVIOUS
  <2>1. CASE Visits!Next
    BY <2>1, AppendProperties DEF Visits!Next, Visits!AddPage, HistoryInv
  <2>2. CASE UNCHANGED entries
    BY <2>2 DEF HistoryInv
  <2> QED
    BY <2>1, <2>2 DEF WindowNext, allVars
<1>3. HistoryInv => FindsTheClosest
  <2> SUFFICES ASSUME HistoryInv, NEW query \in Page, NEW k \in 0 .. MaxEntries
               PROVE  LET found == Visits!Search(query, k)
                          left == DOMAIN entries \ Visits!ToSet(found)
                      IN  /\ Cardinality(Visits!ToSet(found)) = Visits!Min({k, Len(entries)})
                          /\ \A i, j \in DOMAIN found :
                               i < j => Visits!Ahead(query, entries, found[i], found[j])
                          /\ \A r \in Visits!ToSet(found), o \in left :
                               /\ Visits!Ahead(query, entries, r, o)
                               /\ Visits!ToSet(entries[o]) \cap Visits!ToSet(query) # {}
                                    => Visits!Score(query, entries[r]) > 0
    BY DEF FindsTheClosest, Visits!FindsTheClosest, Visits!Cardinality, Cardinality
  <2> DEFINE found == Visits!Search(query, k)
             F == Visits!ToSet(found)
             O == Visits!ScoreOrder(query, entries)
             c == Len(entries)
             score(i) == Visits!Score(query, entries[i])
             ahead(i, j) == Visits!Ahead(query, entries, i, j)
  <2>1. PICK pos, m :
           /\ m \in Nat /\ c \in Nat /\ m <= c
           /\ m = Visits!Min({k, c})
           /\ pos \in [1 .. c -> DOMAIN entries]
           /\ \A i \in DOMAIN entries : \E a \in 1 .. c : pos[a] = i
           /\ \A a, b \in 1 .. c : a < b <=> <<pos[a], pos[b]>> \in O
           /\ F = {pos[a] : a \in 1 .. m}
           /\ DOMAIN found = 1 .. m
           /\ \A a \in 1 .. m : found[a] = pos[a]
    BY FoundIs
  <2>2. /\ DOMAIN entries = 1 .. c
        /\ \A i \in DOMAIN entries : entries[i] \in Page
    BY LenProperties, ElementOfSeq DEF HistoryInv
  <2>3. \A i \in DOMAIN entries : score(i) \in Nat
    BY <2>2, CosineAssumption
  <2>4. \A i, j \in DOMAIN entries : /\ <<i, j>> \in O <=> ahead(i, j)
                                     /\ ahead(i, j) => score(i) >= score(j)
    BY <2>3 DEF Visits!ScoreOrder, Visits!Ahead
  <2>5. \A o \in DOMAIN entries :
          Visits!ToSet(entries[o]) \cap Visits!ToSet(query) # {} => score(o) > 0
    BY <2>2, SharedWordCounts
  <2> HIDE DEF found, F, O, c, score, ahead
  <2>6. Cardinality(F) = m
    <3>1. IsFiniteSet(1 .. m) /\ Cardinality(1 .. m) = m
      BY <2>1, FS_Interval
    <3> DEFINE g == [a \in 1 .. m |-> pos[a]]
    <3>2. g \in [1 .. m -> F] /\ \A f \in F : \E a \in 1 .. m : g[a] = f
      BY <2>1
    <3>3. ASSUME NEW a \in 1 .. m, NEW b \in 1 .. m, g[a] = g[b] PROVE a = b
      <4>1. a \in 1 .. c /\ b \in 1 .. c /\ pos[a] = pos[b]
        BY <2>1, <3>3
      <4>2. (a < b <=> <<pos[a], pos[b]>> \in O) /\ (b < a <=> <<pos[b], pos[a]>> \in O)
        BY <2>1, <4>1
      <4>3. a < b <=> b < a
        BY <4>1, <4>2
      <4> QED
        BY <2>1, <4>1, <4>3
    <3> HIDE DEF g
    <3>4. g \in Bijection(1 .. m, F)
      <4>1. g \in Injection(1 .. m, F)
        BY <3>2, <3>3, Fun_IsInj
      <4>2. g \in Surjection(1 .. m, F)
        BY <3>2 DEF Surjection
      <4> QED
        BY <4>1, <4>2 DEF Bijection
    <3> QED
      BY <3>1, <3>4, FS_Bijection DEF ExistsBijection
  <2>7. ASSUME NEW r \in F, NEW o \in DOMAIN entries \ F
        PROVE  r \in DOMAIN entries /\ ahead(r, o)
    <3>1. PICK a \in 1 .. m : pos[a] = r
      BY <2>1
    <3>2. PICK b \in 1 .. c : pos[b] = o
      BY <2>1
    <3>3. ~(b <= m)
      <4> SUFFICES ASSUME b <= m PROVE FALSE
        OBVIOUS
      <4>1. m \in Nat /\ c \in Nat /\ F = {pos[e] : e \in 1 .. m}
        BY <2>1
      <4>2. b \in 1 .. m
        BY <4>1
      <4>3. pos[b] \in F
        BY <4>1, <4>2
      <4> QED
        BY <3>2, <4>3
    <3>4. a \in 1 .. c /\ a < b
      BY <2>1, <3>3
    <3>5. <<r, o>> \in O /\ r \in DOMAIN entries
      BY <2>1, <3>1, <3>2, <3>4
    <3> QED
      BY <2>4, <3>5
  <2>8. ASSUME NEW a \in DOMAIN found, NEW b \in DOMAIN found, a < b
        PROVE  ahead(found[a], found[b])
    <3>1. a \in 1 .. c /\ b \in 1 .. c /\ pos[a] \in DOMAIN entries /\ pos[b] \in DOMAIN entries
      BY <2>1
    <3>2. <<pos[a], pos[b]>> \in O
      BY <2>1, <2>8, <3>1
    <3> QED
      BY <2>1, <2>4, <3>1, <3>2
  <2>9. ASSUME NEW r \in F, NEW o \in DOMAIN entries \ F,
               Visits!ToSet(entries[o]) \cap Visits!ToSet(query) # {}
        PROVE  score(r) > 0
    <3>1. r \in DOMAIN entries /\ score(r) >= score(o)
      BY <2>4, <2>7
    <3>2. score(o) > 0 /\ score(o) \in Nat /\ score(r) \in Nat
      BY <2>3, <2>5, <2>9, <3>1
    <3> QED
      BY <3>1, <3>2
  <2> QED
    BY <2>1, <2>6, <2>7, <2>8, <2>9 DEF found, F, c, score, ahead
<1> QED
  BY <1>1, <1>2, <1>3, PTL DEF WindowSpec
-------------------------------------------------------------------------------
(* What is computed about a page. *)
Work == INSTANCE PageWork

Level == {"Off", "Standard", "Strict", "Maximum"}
Balance == [allowed : BOOLEAN, remaining : Int]

(* One access: nothing is taken that is not there, and a refusal takes nothing. *)
LEMMA TrySpendIs ==
  ASSUME NEW level \in Level, NEW b \in Int, NEW cost \in Int
  PROVE  LET t == Work!TrySpend(level, b, cost) IN
         /\ t \in Balance
         /\ level = "Off" => t.allowed
         /\ level # "Off" => /\ b >= 0 => t.remaining >= 0
                             /\ t.allowed <=> b >= cost
                             /\ ~t.allowed => t.remaining = b
                             /\ cost >= 0 => t.remaining <= b
<1>1. CASE level = "Off"
  <2>1. Work!TrySpend(level, b, cost) = [allowed |-> TRUE, remaining |-> b]
    BY <1>1 DEF Work!TrySpend
  <2> DEFINE t == Work!TrySpend(level, b, cost)
  <2>2. t \in Balance /\ t.allowed
    BY <2>1 DEF Balance
  <2> QED
    BY <1>1, <2>2
<1>2. CASE level # "Off" /\ ~(b >= cost)
  <2>1. Work!TrySpend(level, b, cost) = [allowed |-> FALSE, remaining |-> b]
    BY <1>2 DEF Work!TrySpend
  <2> DEFINE t == Work!TrySpend(level, b, cost)
  <2>2. t \in Balance /\ ~t.allowed /\ t.remaining = b
    BY <2>1 DEF Balance
  <2> QED
    BY <1>2, <2>2
<1>3. CASE level # "Off" /\ b >= cost
  <2>1. Work!TrySpend(level, b, cost) = [allowed |-> TRUE, remaining |-> b - cost]
    BY <1>3 DEF Work!TrySpend
  <2>2. b - cost \in Int /\ b - cost >= 0 /\ (cost >= 0 => b - cost <= b)
    BY <1>3
  <2> DEFINE t == Work!TrySpend(level, b, cost)
  <2>3. t \in Balance /\ t.allowed /\ t.remaining = b - cost
    BY <2>1, <2>2 DEF Balance
  <2> QED
    BY <1>3, <2>2, <2>3
<1> QED
  BY <1>1, <1>2, <1>3

(* The balances after each access, one from the other. *)
LEMMA SpendingIs ==
  ASSUME NEW level \in Level, NEW unit \in Nat, NEW costs \in Seq(Int)
  PROVE  LET after == Work!Spending(level, unit, costs) IN
         /\ \A n \in 0 .. Len(costs) : after[n] \in Balance
         /\ after[0].remaining = Work!InitialBudget(level, unit)
         /\ \A n \in 1 .. Len(costs) :
              after[n] = Work!TrySpend(level, after[n - 1].remaining, costs[n])
<1> DEFINE N == Len(costs)
           start == [allowed |-> TRUE, remaining |-> Work!InitialBudget(level, unit)]
           spend(n, b) == Work!TrySpend(level, b.remaining, costs[n])
           Spends(g) == g = [n \in 0 .. N |-> IF n = 0 THEN start ELSE spend(n, g[n - 1])]
           after == Work!Spending(level, unit, costs)
<1>1. N \in Nat /\ \A n \in 1 .. N : costs[n] \in Int
  BY LenProperties, ElementOfSeq
<1>2. start \in Balance /\ start.remaining = Work!InitialBudget(level, unit)
  BY DEF Balance, Level, Work!InitialBudget
<1>3. \A n \in 1 .. N, b \in Balance : spend(n, b) \in Balance
  BY <1>1, TrySpendIs DEF Balance
<1>4. after = CHOOSE g : Spends(g)
  BY DEF Work!Spending
<1> HIDE DEF N, start, spend, after
<1> DEFINE step == [p \in (1 .. N) \X Balance |-> spend(p[1], p[2])]
<1>5. step \in [(1 .. N) \X Balance -> Balance]
  BY <1>3
<1>6. \A n \in 1 .. N, b \in Balance : step[<<n, b>>] = spend(n, b)
  OBVIOUS
<1> HIDE DEF step
<1>7. PICK f : Iterated(f, Balance, N, start, step)
  BY <1>1, <1>2, <1>5, Iterates
<1>8. /\ f \in [0 .. N -> Balance] /\ f[0] = start
      /\ \A n \in 1 .. N : f[n] = step[<<n, f[n - 1]>>]
  BY <1>7 DEF Iterated
<1>9. Spends(f)
  <2>1. \A n \in 1 .. N : f[n - 1] \in Balance
    BY <1>1, <1>8
  <2>2. \A n \in 0 .. N : f[n] = IF n = 0 THEN start ELSE spend(n, f[n - 1])
    <3> TAKE n \in 0 .. N
    <3>1. CASE n = 0
      BY <1>8, <3>1
    <3>2. CASE n # 0
      <4>1. n \in 1 .. N
        BY <1>1, <3>2
      <4>2. f[n] = spend(n, f[n - 1])
        BY <1>6, <1>8, <2>1, <4>1
      <4> QED
        BY <3>2, <4>2
    <3> QED
      BY <3>1, <3>2
  <2> QED
    BY <1>8, <2>2
<1>10. Spends(after)
  BY <1>4, <1>9
<1>11. after[0] = start /\ \A n \in 1 .. N : after[n] = spend(n, after[n - 1])
  BY <1>1, <1>10
<1> DEFINE T == {n \in Nat : n <= N => after[n] \in Balance}
<1>12. 0 \in T
  BY <1>2, <1>11
<1>13. ASSUME NEW n \in Nat, n \in T PROVE n + 1 \in T
  <2>1. CASE n + 1 <= N
    <3>1. n + 1 \in 1 .. N /\ (n + 1) - 1 = n
      BY <1>1, <2>1
    <3>2. after[n] \in Balance /\ after[n + 1] = spend(n + 1, after[n])
      BY <1>1, <1>11, <1>13, <2>1, <3>1
    <3> QED
      BY <1>3, <3>1, <3>2
  <2> QED
    BY <2>1
<1>14. \A n \in Nat : n \in T
  <2> HIDE DEF T
  <2> TAKE n \in Nat
  <2> QED
    BY <1>12, <1>13, Induction
<1>15. \A n \in 0 .. N : after[n] \in Balance
  BY <1>1, <1>14
<1> QED
  BY <1>2, <1>11, <1>15 DEF N, spend, after

(* For any level, any accesses in any order and any unit in which they are counted:
   the budget is never overdrawn, and a refusal stands for what costs as much, until
   a negative cost (PrivacyBudget.try_spend). *)
THEOREM BudgetHolds ==
  ASSUME NEW level \in Level, NEW unit \in Nat, NEW costs \in Seq(Int)
  PROVE  Work!BudgetBounds(level, unit, costs)
<1> DEFINE N == Len(costs)
           after == Work!Spending(level, unit, costs)
           left(n) == after[n].remaining
<1>1. N \in Nat /\ \A n \in 1 .. N : costs[n] \in Int
  BY LenProperties, ElementOfSeq
<1>2. /\ \A n \in 0 .. N : left(n) \in Int /\ after[n].allowed \in BOOLEAN
      /\ left(0) = Work!InitialBudget(level, unit)
      /\ \A n \in 1 .. N : after[n] = Work!TrySpend(level, left(n - 1), costs[n])
  BY SpendingIs DEF Balance
<1> HIDE DEF N, after
<1>3. ASSUME NEW n \in 1 .. N
      PROVE  /\ level = "Off" => after[n].allowed
             /\ level # "Off" => /\ left(n - 1) >= 0 => left(n) >= 0
                                 /\ after[n].allowed <=> left(n - 1) >= costs[n]
                                 /\ ~after[n].allowed => left(n) = left(n - 1)
                                 /\ costs[n] >= 0 => left(n) <= left(n - 1)
  <2>1. n - 1 \in 0 .. N
    BY <1>1
  <2>2. left(n - 1) \in Int /\ costs[n] \in Int
    BY <1>1, <1>2, <2>1
  <2>3. after[n] = Work!TrySpend(level, left(n - 1), costs[n])
    BY <1>2
  <2> QED
    BY <2>2, <2>3, TrySpendIs
<1>4. left(0) >= 0
  BY <1>2 DEF Work!InitialBudget, Level
<1> HIDE DEF left
<1>5. ASSUME level # "Off" PROVE \A n \in 0 .. N : left(n) >= 0
  <2> DEFINE T == {n \in Nat : n <= N => left(n) >= 0}
  <2>1. 0 \in T
    BY <1>4
  <2>2. ASSUME NEW n \in Nat, n \in T PROVE n + 1 \in T
    <3>1. n + 1 <= N => n + 1 \in 1 .. N /\ (n + 1) - 1 = n /\ left(n) >= 0
      BY <1>1, <2>2
    <3> QED
      BY <1>3, <1>5, <3>1
  <2>3. \A n \in Nat : n \in T
    <3> HIDE DEF T
    <3> TAKE n \in Nat
    <3> QED
      BY <2>1, <2>2, Induction
  <2> QED
    BY <1>1, <2>3
<1>6. ASSUME NEW n \in 1 .. N, NEW m \in 1 .. N, n < m, ~after[n].allowed, costs[m] >= costs[n],
             \A i \in n .. m : costs[i] >= 0
      PROVE  ~after[m].allowed
  <2>1. level # "Off"
    BY <1>3, <1>6
  <2>2. n - 1 \in 0 .. N /\ m - 1 \in 0 .. N /\ n \in 0 .. N
    BY <1>1
  <2>3. left(n) = left(n - 1) /\ ~(left(n - 1) >= costs[n])
    BY <1>3, <1>6, <2>1
  <2> DEFINE T == {i \in Nat : n + i < m => left(n + i) <= left(n)}
  <2>4. 0 \in T
    <3>1. n + 0 = n /\ left(n) \in Int
      BY <1>2, <2>2 DEF left
    <3> QED
      BY <3>1
  <2>5. ASSUME NEW i \in Nat, i \in T PROVE i + 1 \in T
    <3> SUFFICES ASSUME n + (i + 1) < m PROVE left(n + (i + 1)) <= left(n)
      OBVIOUS
    <3>1. /\ n + (i + 1) \in 1 .. N /\ n + (i + 1) \in n .. m /\ (n + (i + 1)) - 1 = n + i
          /\ n + i \in 0 .. N /\ n + i < m /\ n + (i + 1) \in 0 .. N
      BY <1>1, <2>2
    <3>2. left(n + (i + 1)) <= left(n + i)
      BY <1>3, <1>6, <2>1, <3>1
    <3>3. left(n + i) <= left(n)
      BY <2>5, <3>1
    <3>4. left(n + (i + 1)) \in Int /\ left(n + i) \in Int /\ left(n) \in Int
      BY <1>2, <2>2, <3>1 DEF left
    <3> QED
      BY <3>2, <3>3, <3>4
  <2>6. \A i \in Nat : i \in T
    <3> HIDE DEF T
    <3> TAKE i \in Nat
    <3> QED
      BY <2>4, <2>5, Induction
  <2>7. left(m - 1) <= left(n)
    <3>1. m - 1 - n \in Nat /\ n + (m - 1 - n) = m - 1 /\ m - 1 < m
      BY <1>1, <1>6
    <3> QED
      BY <2>6, <3>1
  <2>8. left(m - 1) \in Int /\ left(n) \in Int /\ costs[n] \in Int /\ costs[m] \in Int
    BY <1>1, <1>2, <2>2 DEF left
  <2>9. ~(left(m - 1) >= costs[m])
    BY <1>6, <2>3, <2>7, <2>8
  <2> QED
    BY <1>3, <2>1, <2>9
<1>7. level = "Off" => \A n \in 1 .. N : after[n].allowed
  BY <1>3
<1> QED
  BY <1>5, <1>6, <1>7 DEF Work!BudgetBounds, N, after, left
-------------------------------------------------------------------------------
(* Energy of a window of time. *)
Sample == [cpu_ms : Nat, gpu_ms : Nat, window_ms : Nat, hw_video : BOOLEAN]

LEMMA BusyIs ==
  ASSUME NEW used \in Nat, NEW window \in Nat
  PROVE  \/ window = 0 /\ used = 0 /\ Work!Busy(used, window) = Work!NaN
         \/ /\ window # 0 \/ used # 0
            /\ Work!Busy(used, window) = IF used <= window THEN used ELSE window
<1>1. CASE window = 0 /\ used = 0
  BY <1>1 DEF Work!Busy
<1>2. CASE ~(window = 0 /\ used = 0)
  <2>1. Work!Busy(used, window) = Work!Min({used, window})
    BY <1>2 DEF Work!Busy
  <2>2. Work!Min({used, window}) = CHOOSE x \in {used, window} : \A y \in {used, window} : x <= y
    BY DEF Work!Min
  <2>3. \E x \in {used, window} : \A y \in {used, window} : x <= y
    OBVIOUS
  <2>4. PICK x \in {used, window} :
          /\ x = Work!Min({used, window})
          /\ \A y \in {used, window} : x <= y
    BY <2>2, <2>3
  <2>5. x = IF used <= window THEN used ELSE window
    BY <2>4
  <2> QED
    BY <1>2, <2>1, <2>4, <2>5
<1> QED
  BY <1>1, <1>2

LEMMA EnergyIs ==
  ASSUME NEW s \in Sample
  PROVE  LET cpu == IF s.cpu_ms <= s.window_ms THEN s.cpu_ms ELSE s.window_ms
             gpu == IF s.gpu_ms <= s.window_ms THEN s.gpu_ms ELSE s.window_ms
         IN  IF s.window_ms = 0 /\ (s.cpu_ms = 0 \/ s.gpu_ms = 0)
             THEN Work!EnergyWh(s) = Work!NaN
             ELSE Work!EnergyWh(s) = (15 * cpu + 8 * gpu) * (IF s.hw_video THEN 17 ELSE 20)
<1> DEFINE cpu == IF s.cpu_ms <= s.window_ms THEN s.cpu_ms ELSE s.window_ms
           gpu == IF s.gpu_ms <= s.window_ms THEN s.gpu_ms ELSE s.window_ms
           busyCpu == Work!Busy(s.cpu_ms, s.window_ms)
           busyGpu == Work!Busy(s.gpu_ms, s.window_ms)
<1>1. s.cpu_ms \in Nat /\ s.gpu_ms \in Nat /\ s.window_ms \in Nat
  BY DEF Sample
<1>2. \/ s.window_ms = 0 /\ s.cpu_ms = 0 /\ busyCpu = -1
      \/ (s.window_ms # 0 \/ s.cpu_ms # 0) /\ busyCpu = cpu
  BY <1>1, BusyIs DEF Work!NaN
<1>3. \/ s.window_ms = 0 /\ s.gpu_ms = 0 /\ busyGpu = -1
      \/ (s.window_ms # 0 \/ s.gpu_ms # 0) /\ busyGpu = gpu
  BY <1>1, BusyIs DEF Work!NaN
<1>4. cpu \in Nat /\ gpu \in Nat
  BY <1>1
<1>5. Work!EnergyWh(s) =
        IF -1 \in {busyCpu, busyGpu} THEN -1
        ELSE (15 * busyCpu + 8 * busyGpu) * (IF s.hw_video THEN 17 ELSE 20)
  BY DEF Work!EnergyWh, Work!NaN, Work!WattsPerCpuRatio, Work!WattsPerGpuRatio
<1> HIDE DEF cpu, gpu, busyCpu, busyGpu
<1>6. CASE s.window_ms = 0 /\ (s.cpu_ms = 0 \/ s.gpu_ms = 0)
  <2>1. Work!EnergyWh(s) = -1
    BY <1>2, <1>3, <1>5, <1>6
  <2> QED
    BY <1>6, <2>1 DEF Work!NaN
<1>7. CASE ~(s.window_ms = 0 /\ (s.cpu_ms = 0 \/ s.gpu_ms = 0))
  <2>1. busyCpu = cpu /\ busyGpu = gpu
    BY <1>2, <1>3, <1>7
  <2>2. -1 \notin {busyCpu, busyGpu}
    BY <1>4, <2>1
  <2>3. Work!EnergyWh(s) = (15 * cpu + 8 * gpu) * (IF s.hw_video THEN 17 ELSE 20)
    BY <1>5, <2>1, <2>2
  <2> QED
    BY <1>7, <2>3 DEF cpu, gpu
<1> QED
  BY <1>6, <1>7

(* For any two windows of time in a row: one sample of both never estimates less
   than the two did, nor more than full power, and only an empty window has no
   number (energy.rs, estimate). *)
THEOREM EnergyHolds ==
  ASSUME NEW a \in Sample, NEW b \in Sample
  PROVE  Work!EnergyAddsUp(a, b)
<1> DEFINE both == [cpu_ms |-> a.cpu_ms + b.cpu_ms, gpu_ms |-> a.gpu_ms + b.gpu_ms,
                    window_ms |-> a.window_ms + b.window_ms, hw_video |-> a.hw_video]
           low(m, n) == IF m <= n THEN m ELSE n
           power(s) == 15 * low(s.cpu_ms, s.window_ms) + 8 * low(s.gpu_ms, s.window_ms)
<1>1. both \in Sample
  BY DEF Sample
<1>2. \A s \in Sample :
        IF s.window_ms = 0 /\ (s.cpu_ms = 0 \/ s.gpu_ms = 0)
        THEN Work!EnergyWh(s) = -1
        ELSE Work!EnergyWh(s) = power(s) * (IF s.hw_video THEN 17 ELSE 20)
  BY EnergyIs DEF Work!NaN
<1>3. \A s \in Sample : /\ s.cpu_ms \in Nat /\ s.gpu_ms \in Nat /\ s.window_ms \in Nat
                        /\ s.hw_video \in BOOLEAN
  BY DEF Sample
<1>4. \A s \in Sample : power(s) \in Nat /\ power(s) <= 23 * s.window_ms
  BY <1>3
<1>5. power(a) + power(b) <= power(both)
  BY <1>3
<1>6. both.window_ms = a.window_ms + b.window_ms /\ both.hw_video = a.hw_video
      /\ both.cpu_ms = a.cpu_ms + b.cpu_ms /\ both.gpu_ms = a.gpu_ms + b.gpu_ms
  OBVIOUS
<1> HIDE DEF both, power
<1>7. \A s \in Sample : Work!EnergyWh(s) = -1 => s.window_ms = 0
  <2> SUFFICES ASSUME NEW s \in Sample, s.window_ms # 0 PROVE Work!EnergyWh(s) # -1
    OBVIOUS
  <2>1. Work!EnergyWh(s) = power(s) * (IF s.hw_video THEN 17 ELSE 20)
    BY <1>2
  <2> QED
    BY <1>3, <1>4, <2>1
<1>8. ASSUME a.hw_video = b.hw_video, Work!EnergyWh(a) # -1, Work!EnergyWh(b) # -1
      PROVE  /\ Work!EnergyWh(a) + Work!EnergyWh(b) <= Work!EnergyWh(both)
             /\ Work!EnergyWh(both) <= 20 * 23 * both.window_ms
  <2>1. ~(a.window_ms = 0 /\ (a.cpu_ms = 0 \/ a.gpu_ms = 0))
    BY <1>2, <1>8
  <2>2. ~(both.window_ms = 0 /\ (both.cpu_ms = 0 \/ both.gpu_ms = 0))
    BY <1>3, <1>6, <2>1
  <2> DEFINE k == IF a.hw_video THEN 17 ELSE 20
  <2>3. /\ Work!EnergyWh(a) = power(a) * k /\ Work!EnergyWh(b) = power(b) * k
        /\ Work!EnergyWh(both) = power(both) * k
    BY <1>1, <1>2, <1>6, <1>8, <2>1, <2>2
  <2>4. /\ power(a) \in Nat /\ power(b) \in Nat /\ power(both) \in Nat
        /\ both.window_ms \in Nat /\ power(both) <= 23 * both.window_ms
    BY <1>1, <1>3, <1>4
  <2>5. CASE a.hw_video
    <3>1. k = 17
      BY <2>5
    <3> HIDE DEF k
    <3> QED
      BY <1>5, <2>3, <2>4, <3>1
  <2>6. CASE ~a.hw_video
    <3>1. k = 20
      BY <2>6
    <3> HIDE DEF k
    <3> QED
      BY <1>5, <2>3, <2>4, <3>1
  <2> QED
    BY <2>5, <2>6
<1>9. Work!NaN = -1 /\ Work!WattsPerCpuRatio + Work!WattsPerGpuRatio = 23
  BY DEF Work!NaN, Work!WattsPerCpuRatio, Work!WattsPerGpuRatio
<1> QED
  BY <1>7, <1>8, <1>9 DEF Work!EnergyAddsUp, both
-------------------------------------------------------------------------------
(* Draw calls. *)
Items(L, K) == [layer : L, kind : K]
Calls(L, K) == [layer : L, kind : K, count : Nat]

(* f[n] is the first n sequences, one after another. *)
Concats(f, S, seqs) ==
  /\ f \in [0 .. Len(seqs) -> Seq(S)] /\ f[0] = <<>>
  /\ \A n \in 1 .. Len(seqs) : f[n] = f[n - 1] \o seqs[n]

LEMMA ConcatsExist ==
  ASSUME NEW S, NEW seqs \in Seq(Seq(S))
  PROVE  \E f : Concats(f, S, seqs)
<1> DEFINE N == Len(seqs)
           step == [p \in (1 .. N) \X Seq(S) |-> p[2] \o seqs[p[1]]]
<1>1. N \in Nat /\ \A n \in 1 .. N : seqs[n] \in Seq(S)
  BY LenProperties, ElementOfSeq
<1>2. \A n \in 1 .. N, b \in Seq(S) : b \o seqs[n] \in Seq(S)
  BY <1>1, ConcatProperties
<1>3. step \in [(1 .. N) \X Seq(S) -> Seq(S)] /\ <<>> \in Seq(S)
  BY <1>2
<1>4. \A n \in 1 .. N, b \in Seq(S) : step[<<n, b>>] = b \o seqs[n]
  OBVIOUS
<1> HIDE DEF step, N
<1>5. PICK f : Iterated(f, Seq(S), N, <<>>, step)
  BY <1>1, <1>3, Iterates
<1>6. f \in [0 .. N -> Seq(S)] /\ f[0] = <<>> /\ \A n \in 1 .. N : f[n] = step[<<n, f[n - 1]>>]
  BY <1>5 DEF Iterated
<1>7. \A n \in 1 .. N : f[n] = f[n - 1] \o seqs[n]
  <2> TAKE n \in 1 .. N
  <2>1. n - 1 \in 0 .. N
    BY <1>1
  <2> QED
    BY <1>4, <1>6, <2>1
<1>8. Concats(f, S, seqs)
  BY <1>6, <1>7 DEF Concats, N
<1> QED
  BY <1>8

LEMMA FlattenIs ==
  ASSUME NEW S, NEW seqs \in Seq(Seq(S)), NEW f, Concats(f, S, seqs)
  PROVE  Work!FlattenSeq(seqs) = f[Len(seqs)]
<1> DEFINE N == Len(seqs)
           Flattens(g) == g = [i \in 1 .. N |-> IF i = 1 THEN seqs[i] ELSE g[i - 1] \o seqs[i]]
           flat == CHOOSE g : Flattens(g)
           w == [i \in 1 .. N |-> f[i]]
<1>1. N \in Nat /\ \A n \in 1 .. N : seqs[n] \in Seq(S)
  BY LenProperties, ElementOfSeq
<1>2. f[0] = <<>> /\ \A n \in 1 .. N : f[n] = f[n - 1] \o seqs[n]
  BY DEF Concats
<1>3. CASE N = 0
  <2>1. seqs = <<>>
    BY <1>3, EmptySeq
  <2> QED
    BY <1>2, <1>3, <2>1 DEF Work!FlattenSeq
<1>4. CASE N # 0
  <2>1. Work!FlattenSeq(seqs) = flat[N]
    BY <1>4 DEF Work!FlattenSeq
  <2>2. Flattens(w)
    <3> SUFFICES ASSUME NEW i \in 1 .. N
                 PROVE  w[i] = IF i = 1 THEN seqs[i] ELSE w[i - 1] \o seqs[i]
      OBVIOUS
    <3>1. CASE i = 1
      <4>1. f[1] = <<>> \o seqs[1] /\ seqs[1] \in Seq(S)
        <5>1. 1 \in 1 .. N /\ 1 - 1 = 0
          BY <3>1
        <5> QED
          BY <1>1, <1>2, <5>1
      <4>2. f[1] = seqs[1]
        BY <4>1, ConcatEmptySeq
      <4> QED
        BY <3>1, <4>2
    <3>2. CASE i # 1
      <4>1. i - 1 \in 1 .. N
        BY <1>1, <3>2
      <4> QED
        BY <1>2, <3>2, <4>1
    <3> QED
      BY <3>1, <3>2
  <2> HIDE DEF w
  <2>3. Flattens(flat)
    <3> HIDE DEF Flattens
    <3> QED
      BY <2>2
  <2> HIDE DEF flat
  <2>4. \A i \in 1 .. N : flat[i] = IF i = 1 THEN seqs[i] ELSE flat[i - 1] \o seqs[i]
    BY <2>3
  <2> DEFINE T == {n \in Nat : 1 <= n /\ n <= N => flat[n] = f[n]}
  <2>5. 0 \in T
    OBVIOUS
  <2>6. ASSUME NEW n \in Nat, n \in T PROVE n + 1 \in T
    <3>1. CASE n + 1 <= N /\ n = 0
      <4>1. 1 \in 1 .. N /\ 1 - 1 = 0
        BY <1>1, <3>1
      <4>2. flat[1] = seqs[1] /\ f[1] = <<>> \o seqs[1] /\ seqs[1] \in Seq(S)
        BY <1>1, <1>2, <2>4, <4>1
      <4>3. flat[1] = f[1]
        BY <4>2, ConcatEmptySeq
      <4> QED
        BY <3>1, <4>3
    <3>2. CASE n + 1 <= N /\ n # 0
      <4>1. n + 1 \in 1 .. N /\ (n + 1) - 1 = n /\ n + 1 # 1 /\ 1 <= n /\ n <= N
        BY <1>1, <3>2
      <4>2. flat[n] = f[n]
        BY <2>6, <4>1
      <4>3. flat[n + 1] = flat[n] \o seqs[n + 1]
        BY <2>4, <4>1
      <4>4. f[n + 1] = f[n] \o seqs[n + 1]
        BY <1>2, <4>1
      <4>5. flat[n + 1] = f[n + 1]
        BY <4>2, <4>3, <4>4
      <4> QED
        BY <4>5
    <3>3. CASE ~(n + 1 <= N)
      BY <3>3
    <3> QED
      BY <3>1, <3>2, <3>3
  <2>7. N \in T
    <3> HIDE DEF T
    <3> QED
      BY <1>1, <2>5, <2>6, Induction
  <2> QED
    BY <1>1, <1>4, <2>1, <2>7
<1> QED
  BY <1>3, <1>4

LEMMA FlattenAppend ==
  ASSUME NEW S, NEW seqs \in Seq(Seq(S)), NEW x \in Seq(S)
  PROVE  /\ Work!FlattenSeq(seqs) \in Seq(S)
         /\ Work!FlattenSeq(Append(seqs, x)) = Work!FlattenSeq(seqs) \o x
<1> DEFINE N == Len(seqs)
           more == Append(seqs, x)
<1>1. /\ N \in Nat /\ more \in Seq(Seq(S)) /\ Len(more) = N + 1
      /\ more[N + 1] = x /\ \A n \in 1 .. N : more[n] = seqs[n]
  BY LenProperties, AppendProperties
<1> HIDE DEF more
<1>2. PICK f : Concats(f, S, more)
  BY <1>1, ConcatsExist
<1>3. /\ f \in [0 .. N + 1 -> Seq(S)] /\ f[0] = <<>>
      /\ \A n \in 1 .. N + 1 : f[n] = f[n - 1] \o more[n]
  BY <1>1, <1>2 DEF Concats
<1> DEFINE h == [n \in 0 .. N |-> f[n]]
<1>4. Concats(h, S, seqs)
  <2>1. h \in [0 .. N -> Seq(S)] /\ h[0] = <<>>
    BY <1>1, <1>3
  <2>2. \A n \in 1 .. N : n \in 1 .. N + 1 /\ n \in 0 .. N /\ n - 1 \in 0 .. N
    BY <1>1
  <2>3. \A n \in 1 .. N : h[n] = h[n - 1] \o seqs[n]
    BY <1>1, <1>3, <2>2
  <2> QED
    BY <2>1, <2>3 DEF Concats
<1>5. Work!FlattenSeq(seqs) = f[N]
  <2>1. Work!FlattenSeq(seqs) = h[N]
    BY <1>4, FlattenIs
  <2> QED
    BY <1>1, <2>1
<1>6. Work!FlattenSeq(more) = f[N + 1]
  BY <1>1, <1>2, FlattenIs
<1>7. f[N + 1] = f[N] \o x /\ f[N] \in Seq(S)
  <2>1. N + 1 \in 1 .. N + 1 /\ (N + 1) - 1 = N /\ N \in 0 .. N + 1
    BY <1>1
  <2> QED
    BY <1>1, <1>3, <2>1
<1> QED
  BY <1>5, <1>6, <1>7 DEF more
-------------------------------------------------------------------------------
(* What one call draws. *)
Piece(y) == [j \in 1 .. y.count |-> [layer |-> y.layer, kind |-> y.kind]]

LEMMA PieceIs ==
  ASSUME NEW L, NEW K, NEW y \in Calls(L, K)
  PROVE  /\ Piece(y) \in Seq(Items(L, K)) /\ Len(Piece(y)) = y.count
         /\ y.layer \in L /\ y.kind \in K /\ y.count \in Nat
<1>1. y.layer \in L /\ y.kind \in K /\ y.count \in Nat
  BY DEF Calls
<1>2. Piece(y) \in [1 .. y.count -> Items(L, K)]
  BY <1>1 DEF Piece, Items
<1>3. Piece(y) \in Seq(Items(L, K))
  BY <1>1, <1>2, SeqDef
<1>4. Len(Piece(y)) = y.count
  BY <1>1, <1>2, <1>3, LenProperties
<1> QED
  BY <1>1, <1>3, <1>4

LEMMA NothingDrawn == Work!Drawn(<<>>) = <<>>
<1>1. Work!Drawn(<<>>) = Work!FlattenSeq([i \in DOMAIN <<>> |-> Piece(<<>>[i])])
  BY DEF Work!Drawn, Piece
<1>2. [i \in DOMAIN <<>> |-> Piece(<<>>[i])] = <<>>
  OBVIOUS
<1> QED
  BY <1>1, <1>2 DEF Work!FlattenSeq

LEMMA DrawnIs ==
  ASSUME NEW L, NEW K, NEW b \in Seq(Calls(L, K)), NEW y \in Calls(L, K)
  PROVE  /\ Work!Drawn(b) \in Seq(Items(L, K))
         /\ Work!Drawn(Append(b, y)) = Work!Drawn(b) \o Piece(y)
<1> DEFINE pieces(c) == [i \in DOMAIN c |-> Piece(c[i])]
           c == Append(b, y)
           N == Len(b)
<1>1. \A a : Work!Drawn(a) = Work!FlattenSeq(pieces(a))
  BY DEF Work!Drawn, Piece
<1>2. /\ N \in Nat /\ DOMAIN b = 1 .. N /\ \A i \in 1 .. N : b[i] \in Calls(L, K)
      /\ c \in Seq(Calls(L, K)) /\ Len(c) = N + 1 /\ DOMAIN c = 1 .. N + 1
      /\ c[N + 1] = y /\ \A i \in 1 .. N : c[i] = b[i]
  BY LenProperties, AppendProperties, ElementOfSeq
<1>3. Piece(y) \in Seq(Items(L, K)) /\ \A i \in 1 .. N : Piece(b[i]) \in Seq(Items(L, K))
  BY <1>2, PieceIs
<1>4. pieces(b) \in Seq(Seq(Items(L, K))) /\ Len(pieces(b)) = N
  <2>1. pieces(b) \in [1 .. N -> Seq(Items(L, K))]
    BY <1>2, <1>3
  <2>2. pieces(b) \in Seq(Seq(Items(L, K))) /\ DOMAIN pieces(b) = 1 .. N
    BY <1>2, <2>1, SeqDef
  <2> HIDE DEF pieces
  <2> QED
    BY <1>2, <2>2, LenProperties
<1>5. pieces(c) = Append(pieces(b), Piece(y))
  <2> DEFINE p == pieces(b)
             q == Append(p, Piece(y))
  <2>1. /\ q \in Seq(Seq(Items(L, K))) /\ Len(q) = N + 1
        /\ q[N + 1] = Piece(y) /\ \A i \in 1 .. N : q[i] = p[i]
    <3> HIDE DEF p
    <3> QED
      BY <1>3, <1>4, AppendProperties DEF p
  <2>2. \A i \in 1 .. N : p[i] = Piece(b[i])
    BY <1>2
  <2>3. pieces(c) = [i \in 1 .. N + 1 |-> Piece(c[i])]
    BY <1>2
  <2> HIDE DEF p, c
  <2>4. DOMAIN q = 1 .. N + 1 /\ q = [i \in 1 .. N + 1 |-> q[i]]
    <3> HIDE DEF q
    <3> QED
      BY <1>2, <2>1, LenProperties
  <2> HIDE DEF q
  <2>5. \A i \in 1 .. N + 1 : q[i] = Piece(c[i])
    <3> TAKE i \in 1 .. N + 1
    <3>1. CASE i = N + 1
      BY <1>2, <2>1, <3>1
    <3>2. CASE i # N + 1
      <4>1. i \in 1 .. N
        BY <1>2, <3>2
      <4> QED
        BY <1>2, <2>1, <2>2, <4>1
    <3> QED
      BY <3>1, <3>2
  <2>6. pieces(c) = q
    <3> HIDE DEF pieces
    <3> QED
      BY <2>3, <2>4, <2>5
  <2> QED
    BY <2>6 DEF q, p
<1>7. /\ Work!FlattenSeq(pieces(b)) \in Seq(Items(L, K))
      /\ Work!FlattenSeq(Append(pieces(b), Piece(y))) = Work!FlattenSeq(pieces(b)) \o Piece(y)
  <2> HIDE DEF pieces
  <2> QED
    BY <1>3, <1>4, FlattenAppend
<1>8. Work!Drawn(b) \in Seq(Items(L, K))
  BY <1>1, <1>7, Zenon
<1>9. Work!Drawn(c) = Work!Drawn(b) \o Piece(y)
  <2> HIDE DEF pieces, c
  <2> QED
    BY <1>1, <1>5, <1>7
<1> QED
  BY <1>8, <1>9

(* No two calls in a row of one layer and kind. *)
Apart(b) ==
  \A i \in 1 .. Len(b) - 1 : b[i].layer # b[i + 1].layer \/ b[i].kind # b[i + 1].kind

LEMMA JoinedIs ==
  ASSUME NEW L, NEW K, NEW b \in Seq(Calls(L, K)), Apart(b), NEW x \in Items(L, K)
  PROVE  /\ Work!Joined(b, x) \in Seq(Calls(L, K))
         /\ Work!Drawn(Work!Joined(b, x)) = Append(Work!Drawn(b), x)
         /\ Apart(Work!Joined(b, x))
<1> DEFINE one == [layer |-> x.layer, kind |-> x.kind, count |-> 1]
           joins(y) == y.layer = x.layer /\ y.kind = x.kind
<1>1. x.layer \in L /\ x.kind \in K /\ x = [layer |-> x.layer, kind |-> x.kind]
  BY DEF Items
<1>2. one \in Calls(L, K) /\ Piece(one) = <<x>>
  <2>1. one \in Calls(L, K)
    BY <1>1 DEF Calls
  <2>2. one.layer = x.layer /\ one.kind = x.kind /\ one.count = 1
    OBVIOUS
  <2>3. Piece(one) = [j \in 1 .. 1 |-> x]
    BY <1>1, <2>2 DEF Piece
  <2>4. [j \in 1 .. 1 |-> x] = <<x>>
    OBVIOUS
  <2> QED
    BY <2>1, <2>3, <2>4
<1>3. <<x>> \in Seq(Items(L, K))
  OBVIOUS
<1>4. ASSUME b = <<>> \/ ~joins(b[Len(b)])
      PROVE  /\ Append(b, one) \in Seq(Calls(L, K))
             /\ Work!Drawn(Append(b, one)) = Append(Work!Drawn(b), x)
             /\ Apart(Append(b, one))
  <2> DEFINE N == Len(b)
             c == Append(b, one)
  <2>1. one.layer = x.layer /\ one.kind = x.kind
    OBVIOUS
  <2> HIDE DEF one
  <2>2. /\ N \in Nat /\ c \in Seq(Calls(L, K)) /\ Len(c) = N + 1
        /\ c[N + 1] = one /\ \A i \in 1 .. N : c[i] = b[i]
    BY <1>2, LenProperties, AppendProperties
  <2>3. Work!Drawn(c) = Work!Drawn(b) \o <<x>> /\ Work!Drawn(b) \in Seq(Items(L, K))
    <3>1. one \in Calls(L, K)
      BY <1>2
    <3>2. /\ Work!Drawn(b) \in Seq(Items(L, K))
          /\ Work!Drawn(Append(b, one)) = Work!Drawn(b) \o Piece(one)
      BY <3>1, DrawnIs
    <3> QED
      BY <1>2, <3>2
  <2>4. Work!Drawn(c) = Append(Work!Drawn(b), x)
    BY <2>3, AppendIsConcat
  <2> HIDE DEF c
  <2>5. Apart(c)
    <3> SUFFICES ASSUME NEW i \in 1 .. N PROVE c[i].layer # c[i + 1].layer \/ c[i].kind # c[i + 1].kind
      BY <2>2 DEF Apart
    <3>1. CASE i = N
      <4>1. b # <<>>
        BY <2>2, <3>1
      <4>2. ~joins(b[N])
        BY <1>4, <4>1
      <4> QED
        BY <2>1, <2>2, <3>1, <4>2
    <3>2. CASE i # N
      <4>1. i \in 1 .. N - 1 /\ i + 1 \in 1 .. N
        BY <2>2, <3>2
      <4> QED
        BY <2>2, <4>1 DEF Apart
    <3> QED
      BY <3>1, <3>2
  <2> QED
    BY <2>2, <2>4, <2>5 DEF c
<1>5. ASSUME NEW s \in Seq(Calls(L, K)), NEW y \in Calls(L, K), b = Append(s, y), joins(y)
      PROVE  LET z == [y EXCEPT !.count = @ + 1]
             IN  /\ Append(s, z) \in Seq(Calls(L, K))
                 /\ Work!Drawn(Append(s, z)) = Append(Work!Drawn(b), x)
                 /\ Apart(Append(s, z))
  <2> DEFINE z == [y EXCEPT !.count = @ + 1]
             c == Append(s, z)
             N == Len(s)
  <2>1. y.layer \in L /\ y.kind \in K /\ y.count \in Nat
    BY PieceIs
  <2>2. z \in Calls(L, K) /\ z.layer = y.layer /\ z.kind = y.kind /\ z.count = y.count + 1
    BY DEF Calls
  <2> HIDE DEF z
  <2>3. Piece(z) = Piece(y) \o <<x>>
    <3>1. Piece(y) \in Seq(Items(L, K)) /\ Len(Piece(y)) = y.count
      BY PieceIs
    <3>2. \A j \in 1 .. y.count : Piece(y)[j] = x
      BY <1>1, <1>5 DEF Piece
    <3>3. Piece(z) = [j \in 1 .. y.count + 1 |-> x]
      BY <1>1, <1>5, <2>2 DEF Piece
    <3> DEFINE p == Piece(y)
               q == Append(p, x)
    <3>4. /\ q \in Seq(Items(L, K)) /\ Len(q) = y.count + 1
          /\ q[y.count + 1] = x /\ \A j \in 1 .. y.count : q[j] = p[j]
      <4> HIDE DEF p
      <4> QED
        BY <3>1, AppendProperties DEF p
    <3>5. q = p \o <<x>>
      BY <3>1, AppendIsConcat
    <3>6. \A j \in 1 .. y.count : p[j] = x
      BY <3>2
    <3> HIDE DEF p, q
    <3>7. DOMAIN q = 1 .. y.count + 1 /\ q = [j \in 1 .. y.count + 1 |-> q[j]]
      BY <2>1, <3>4, LenProperties
    <3>8. \A j \in 1 .. y.count + 1 : q[j] = x
      <4> TAKE j \in 1 .. y.count + 1
      <4>1. CASE j = y.count + 1
        BY <3>4, <4>1
      <4>2. CASE j # y.count + 1
        <5>1. j \in 1 .. y.count
          BY <2>1, <4>2
        <5> QED
          BY <3>4, <3>6, <5>1
      <4> QED
        BY <4>1, <4>2
    <3>9. Piece(z) = q
      BY <3>3, <3>7, <3>8
    <3> QED
      BY <3>5, <3>9 DEF p
  <2>4. Work!Drawn(c) = Append(Work!Drawn(b), x)
    <3>1. /\ Work!Drawn(c) = Work!Drawn(s) \o Piece(z)
          /\ Work!Drawn(b) = Work!Drawn(s) \o Piece(y)
          /\ Work!Drawn(s) \in Seq(Items(L, K)) /\ Work!Drawn(b) \in Seq(Items(L, K))
      <4>1. z \in Calls(L, K)
        BY <2>2
      <4>2. /\ Work!Drawn(s) \in Seq(Items(L, K))
            /\ Work!Drawn(Append(s, z)) = Work!Drawn(s) \o Piece(z)
        BY <4>1, DrawnIs
      <4>3. Work!Drawn(Append(s, y)) = Work!Drawn(s) \o Piece(y)
        BY DrawnIs
      <4>4. Work!Drawn(b) \in Seq(Items(L, K))
        BY <2>1, DrawnIs
      <4> QED
        BY <1>5, <4>2, <4>3, <4>4
    <3>2. Piece(y) \in Seq(Items(L, K))
      BY PieceIs
    <3>3. (Work!Drawn(s) \o Piece(y)) \o <<x>> = Work!Drawn(s) \o (Piece(y) \o <<x>>)
      BY <1>3, <3>1, <3>2, ConcatAssociative
    <3>4. Append(Work!Drawn(b), x) = Work!Drawn(b) \o <<x>>
      BY <3>1, AppendIsConcat
    <3> QED
      BY <2>3, <3>1, <3>3, <3>4
  <2>5. /\ N \in Nat /\ c \in Seq(Calls(L, K)) /\ Len(c) = N + 1
        /\ c[N + 1] = z /\ \A i \in 1 .. N : c[i] = s[i]
    BY <2>2, LenProperties, AppendProperties
  <2>6. Len(b) = N + 1 /\ b[N + 1] = y /\ \A i \in 1 .. N : b[i] = s[i]
    BY <1>5, LenProperties, AppendProperties
  <2> HIDE DEF c, N
  <2>7. \A i \in 1 .. N + 1 : c[i].layer = b[i].layer /\ c[i].kind = b[i].kind
    <3> TAKE i \in 1 .. N + 1
    <3>1. CASE i = N + 1
      BY <2>2, <2>5, <2>6, <3>1
    <3>2. CASE i # N + 1
      <4>1. i \in 1 .. N
        BY <2>5, <3>2
      <4> QED
        BY <2>5, <2>6, <4>1
    <3> QED
      BY <3>1, <3>2
  <2>8. Apart(c)
    <3> SUFFICES ASSUME NEW i \in 1 .. N PROVE c[i].layer # c[i + 1].layer \/ c[i].kind # c[i + 1].kind
      BY <2>5 DEF Apart
    <3>1. i \in 1 .. N + 1 /\ i + 1 \in 1 .. N + 1 /\ i \in 1 .. Len(b) - 1
      BY <2>5, <2>6
    <3> QED
      BY <2>7, <3>1 DEF Apart
  <2> QED
    BY <2>4, <2>5, <2>8 DEF c, z
<1>6. CASE b # <<>> /\ joins(b[Len(b)])
  <2>1. PICK s \in Seq(Calls(L, K)), y \in Calls(L, K) : b = Append(s, y)
    BY <1>6, SequenceEmptyOrAppend
  <2>2. Len(b) = Len(s) + 1 /\ b[Len(b)] = y /\ Len(s) \in Nat /\ \A i \in 1 .. Len(s) : b[i] = s[i]
    BY <2>1, LenProperties, AppendProperties
  <2>3. Work!Front(b) = s
    BY <2>1, <2>2, LenProperties DEF Work!Front
  <2>4. Work!Last(b) = y
    BY <2>2 DEF Work!Last
  <2>5. Work!Joined(b, x) = Append(s, [y EXCEPT !.count = @ + 1])
    BY <1>6, <2>2, <2>3, <2>4 DEF Work!Joined
  <2> QED
    BY <1>5, <1>6, <2>1, <2>2, <2>5
<1>7. CASE ~(b # <<>> /\ joins(b[Len(b)]))
  <2>1. Work!Joined(b, x) = Append(b, one)
    BY <1>7 DEF Work!Joined, Work!Last
  <2> QED
    BY <1>4, <1>7, <2>1
<1> QED
  BY <1>6, <1>7

(* For any list of items: the batches draw every item once and in the order of the
   list, and no two batches in a row could be one (compositor.rs, batch). *)
THEOREM BatchesHold ==
  ASSUME NEW L, NEW K, NEW items \in Seq(Items(L, K))
  PROVE  Work!BatchesKeepTheList(items)
<1> DEFINE C == Calls(L, K)
           N == Len(items)
           Good == {b \in Seq(C) : Apart(b)}
           step == [p \in (1 .. N) \X Good |-> Work!Joined(p[2], items[p[1]])]
           Batched(g) == g = [n \in 0 .. N |-> IF n = 0 THEN <<>> ELSE Work!Joined(g[n - 1], items[n])]
           out == Work!Batching(items)
<1>1. N \in Nat /\ DOMAIN items = 1 .. N /\ \A n \in 1 .. N : items[n] \in Items(L, K)
  BY LenProperties, ElementOfSeq
<1>2. \A n \in 1 .. N, b \in Good :
        Work!Joined(b, items[n]) \in Good
        /\ Work!Drawn(Work!Joined(b, items[n])) = Append(Work!Drawn(b), items[n])
  BY <1>1, JoinedIs
<1>3. <<>> \in Good
  BY DEF Apart
<1>4. \A n \in 1 .. N, b \in Good : step[<<n, b>>] = Work!Joined(b, items[n])
  <2> HIDE DEF Good
  <2> QED
    OBVIOUS
<1>5. step \in [(1 .. N) \X Good -> Good]
  <2> HIDE DEF Good
  <2> QED
    BY <1>2
<1>6. \A b \in Good : b \in Seq(C) /\ Apart(b) /\ Work!Drawn(b) \in Seq(Items(L, K))
  <2> SUFFICES ASSUME NEW b \in Good PROVE Work!Drawn(b) \in Seq(Items(L, K))
    OBVIOUS
  <2>1. CASE b = <<>>
    <3>1. <<>> \in Seq(Items(L, K))
      OBVIOUS
    <3> QED
      BY <2>1, <3>1, NothingDrawn
  <2>2. CASE b # <<>>
    <3>1. PICK s \in Seq(C), y \in C : b = Append(s, y)
      BY <2>2, SequenceEmptyOrAppend
    <3> QED
      BY <3>1, DrawnIs
  <2> QED
    BY <2>1, <2>2
<1> HIDE DEF Good, step
<1>7. PICK f : Iterated(f, Good, N, <<>>, step)
  BY <1>1, <1>3, <1>5, Iterates
<1>8. f \in [0 .. N -> Good] /\ f[0] = <<>> /\ \A n \in 1 .. N : f[n] = step[<<n, f[n - 1]>>]
  BY <1>7 DEF Iterated
<1>9. Batched(f)
  <2> SUFFICES ASSUME NEW n \in 0 .. N
               PROVE  f[n] = IF n = 0 THEN <<>> ELSE Work!Joined(f[n - 1], items[n])
    BY <1>8
  <2>1. CASE n = 0
    BY <1>8, <2>1
  <2>2. CASE n # 0
    <3>1. n \in 1 .. N /\ n - 1 \in 0 .. N
      BY <1>1, <2>2
    <3> QED
      BY <1>4, <1>8, <2>2, <3>1
  <2> QED
    BY <2>1, <2>2
<1>10. out = CHOOSE g : Batched(g)
  BY DEF Work!Batching
<1>11. Work!Batch(items) = out[N]
  BY DEF Work!Batch
<1> HIDE DEF out
<1>12. Batched(out)
  <2> HIDE DEF Batched
  <2> QED
    BY <1>9, <1>10
<1>13. out[0] = <<>> /\ \A n \in 1 .. N : out[n] = Work!Joined(out[n - 1], items[n])
  BY <1>1, <1>12
<1> HIDE DEF Batched
<1> DEFINE Draws(n) == /\ out[n] \in Good
                       /\ Len(Work!Drawn(out[n])) = n
                       /\ \A i \in 1 .. n : Work!Drawn(out[n])[i] = items[i]
           T == {n \in Nat : n <= N => Draws(n)}
<1>14. 0 \in T
  <2>1. Draws(0)
    BY <1>3, <1>13, NothingDrawn
  <2> QED
    BY <2>1
<1>15. ASSUME NEW n \in Nat, n \in T PROVE n + 1 \in T
  <2>1. CASE n + 1 <= N
    <3>1. n + 1 \in 1 .. N /\ (n + 1) - 1 = n /\ n <= N
      BY <1>1, <2>1
    <3>2. Draws(n)
      BY <1>15, <3>1
    <3> DEFINE was == Work!Drawn(out[n])
    <3>3. out[n + 1] \in Good /\ Work!Drawn(out[n + 1]) = Append(was, items[n + 1])
      BY <1>2, <1>13, <3>1, <3>2
    <3>4. was \in Seq(Items(L, K)) /\ items[n + 1] \in Items(L, K)
      BY <1>1, <1>6, <3>1, <3>2
    <3>5. Len(was) = n /\ \A i \in 1 .. n : was[i] = items[i]
      BY <3>2
    <3> HIDE DEF was
    <3> DEFINE next == Append(was, items[n + 1])
    <3>6. Len(next) = n + 1 /\ next[n + 1] = items[n + 1] /\ \A i \in 1 .. n : next[i] = was[i]
      BY <3>4, <3>5, AppendProperties
    <3> HIDE DEF next
    <3>7. \A i \in 1 .. n + 1 : next[i] = items[i]
      <4> TAKE i \in 1 .. n + 1
      <4>1. CASE i = n + 1
        BY <3>6, <4>1
      <4>2. CASE i # n + 1
        <5>1. i \in 1 .. n
          BY <4>2
        <5> QED
          BY <3>5, <3>6, <5>1
      <4> QED
        BY <4>1, <4>2
    <3>8. Work!Drawn(out[n + 1]) = next
      BY <3>3 DEF next
    <3>9. Draws(n + 1)
      BY <3>3, <3>6, <3>7, <3>8
    <3> HIDE DEF Draws
    <3> QED
      BY <3>9
  <2>2. CASE ~(n + 1 <= N)
    BY <2>2
  <2> QED
    BY <2>1, <2>2
<1>16. N \in T
  <2> HIDE DEF T
  <2> QED
    BY <1>1, <1>14, <1>15, Induction
<1>17. Draws(N)
  BY <1>1, <1>16
<1> DEFINE b == out[N]
           drawn == Work!Drawn(b)
<1>18. b \in Seq(C) /\ Apart(b) /\ drawn \in Seq(Items(L, K)) /\ Len(drawn) = N
       /\ \A i \in 1 .. N : drawn[i] = items[i]
  BY <1>6, <1>17
<1> HIDE DEF drawn, b
<1>19. drawn = items
  BY <1>1, <1>18, SeqEqual
<1>20. \A i \in 1 .. Len(b) - 1 : [b[i] EXCEPT !.count = 0] # [b[i + 1] EXCEPT !.count = 0]
  <2> TAKE i \in 1 .. Len(b) - 1
  <2>1. b[i] \in C /\ b[i + 1] \in C
    BY <1>18, ElementOfSeq, LenProperties
  <2>2. b[i].layer # b[i + 1].layer \/ b[i].kind # b[i + 1].kind
    BY <1>18 DEF Apart
  <2> DEFINE y == [b[i] EXCEPT !.count = 0]
             z == [b[i + 1] EXCEPT !.count = 0]
  <2>3. y.layer = b[i].layer /\ y.kind = b[i].kind /\ z.layer = b[i + 1].layer /\ z.kind = b[i + 1].kind
    BY <2>1 DEF Calls
  <2> HIDE DEF y, z
  <2>4. y # z
    BY <2>2, <2>3
  <2> QED
    BY <2>4 DEF y, z
<1> QED
  BY <1>11, <1>19, <1>20 DEF Work!BatchesKeepTheList, b, drawn
===============================================================================
