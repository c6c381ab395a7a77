------------------------ MODULE RendererIsolationProofs ------------------------
(* Proofs about RendererIsolation and the navigations that compose it with
   NetPolicy, for any addresses, policies and servers and any two bases. *)
EXTENDS Navigation, SharedLemmas, TLAPS

LEMMA InitIInv == Init => IInv
  BY BaseAssumption DEF Init, IInv, TypeOK, FramesRemembered, Numbered

(* Adding the next id keeps a map numbered. *)
LEMMA WithNumbered ==
  ASSUME NEW map, NEW base \in Nat, NEW last \in Nat, NEW site,
         last >= base, Numbered(map, base, last), site \notin DOMAIN map,
         \A s \in DOMAIN map : map[s] \in Nat
  PROVE  Numbered(With(map, site, last + 1), base, last + 1)
  BY DEF Numbered, With

(* One load in Blink. *)
LEMMA BlinkStep ==
  ASSUME IInv, NEW url \in Url, ProcessFor(url), UNCHANGED <<byPrincipal, nextGecko>>
  PROVE  IInv'
<1> DEFINE site == SiteForUrl(url)
<1>1. site \in Site
  BY DEF Site
<1>2. CASE site \in DOMAIN sites
  <2>1. /\ UNCHANGED <<sites, nextBlink>>
        /\ frames' = frames \cup {[engine |-> "blink", url |-> url, pid |-> sites[site]]}
    BY <1>2 DEF ProcessFor, HandOut
  <2>2. TypeOK'
    BY <1>2, <2>1 DEF IInv, TypeOK, Engine, Site, Principal
  <2>3. FramesRemembered'
    BY <1>2, <2>1 DEF IInv, FramesRemembered
  <2> QED
    BY <2>1, <2>2, <2>3 DEF IInv
<1>3. CASE site \notin DOMAIN sites
  <2>1. /\ nextBlink' = nextBlink + 1
        /\ sites' = With(sites, site, nextBlink + 1)
        /\ frames' = frames \cup {[engine |-> "blink", url |-> url, pid |-> nextBlink + 1]}
    BY <1>3 DEF ProcessFor, HandOut
  <2>2. /\ DOMAIN sites' = DOMAIN sites \cup {site}
        /\ \A s \in DOMAIN sites : sites'[s] = sites[s]
        /\ sites'[site] = nextBlink + 1
    BY <1>3, <2>1 DEF With
  <2>3. TypeOK'
    <3>1. nextBlink' \in Nat /\ nextBlink' >= BlinkBase
      BY <2>1, BaseAssumption DEF IInv, TypeOK
    <3>2. DOMAIN sites' \subseteq Site
      BY <1>1, <2>2 DEF IInv, TypeOK
    <3>3. \A s \in DOMAIN sites' : sites'[s] \in Nat
      BY <2>1, <2>2, <3>1 DEF IInv, TypeOK
    <3>4. [engine |-> "blink", url |-> url, pid |-> nextBlink + 1]
            \in [engine : Engine, url : Url, pid : Nat]
      BY <2>1, <3>1 DEF Engine
    <3>5. frames' \subseteq [engine : Engine, url : Url, pid : Nat]
      BY <2>1, <3>4 DEF IInv, TypeOK
    <3> QED
      BY <3>1, <3>2, <3>3, <3>5 DEF IInv, TypeOK, Site
  <2>4. FramesRemembered'
    BY <2>1, <2>2 DEF IInv, FramesRemembered
  <2>5. Numbered(sites', BlinkBase, nextBlink')
    <3>1. /\ BlinkBase \in Nat /\ nextBlink \in Nat /\ nextBlink >= BlinkBase
          /\ Numbered(sites, BlinkBase, nextBlink)
          /\ \A s \in DOMAIN sites : sites[s] \in Nat
      BY BaseAssumption DEF IInv, TypeOK
    <3> HIDE DEF site
    <3>2. Numbered(With(sites, site, nextBlink + 1), BlinkBase, nextBlink + 1)
      BY <1>3, <3>1, WithNumbered
    <3> QED
      BY <2>1, <3>2
  <2> QED
    BY <2>3, <2>4, <2>5 DEF IInv, Numbered, Numbered
<1> QED
  BY <1>2, <1>3

(* One load in Gecko. *)
LEMMA GeckoStep ==
  ASSUME IInv, NEW url \in Url, ProcessForFrame(url), UNCHANGED <<sites, nextBlink>>
  PROVE  IInv'
<1> DEFINE principal == PrincipalFor(url)
<1>1. principal \in Principal
  BY DEF Principal
<1>2. CASE principal \in DOMAIN byPrincipal
  <2>1. /\ UNCHANGED <<byPrincipal, nextGecko>>
        /\ frames' = frames \cup
             {[engine |-> "gecko", url |-> url, pid |-> byPrincipal[principal]]}
    BY <1>2 DEF ProcessForFrame, HandOut
  <2>2. TypeOK'
    BY <1>2, <2>1 DEF IInv, TypeOK, Engine, Site, Principal
  <2>3. FramesRemembered'
    BY <1>2, <2>1 DEF IInv, FramesRemembered
  <2> QED
    BY <2>1, <2>2, <2>3 DEF IInv
<1>3. CASE principal \notin DOMAIN byPrincipal
  <2>1. /\ nextGecko' = nextGecko + 1
        /\ byPrincipal' = With(byPrincipal, principal, nextGecko + 1)
        /\ frames' = frames \cup
             {[engine |-> "gecko", url |-> url, pid |-> nextGecko + 1]}
    BY <1>3 DEF ProcessForFrame, HandOut
  <2>2. /\ DOMAIN byPrincipal' = DOMAIN byPrincipal \cup {principal}
        /\ \A s \in DOMAIN byPrincipal : byPrincipal'[s] = byPrincipal[s]
        /\ byPrincipal'[principal] = nextGecko + 1
    BY <1>3, <2>1 DEF With
  <2>3. TypeOK'
    <3>1. nextGecko' \in Nat /\ nextGecko' >= GeckoBase
      BY <2>1, BaseAssumption DEF IInv, TypeOK
    <3>2. DOMAIN byPrincipal' \subseteq Principal
      BY <1>1, <2>2 DEF IInv, TypeOK
    <3>3. \A s \in DOMAIN byPrincipal' : byPrincipal'[s] \in Nat
      BY <2>1, <2>2, <3>1 DEF IInv, TypeOK
    <3>4. [engine |-> "gecko", url |-> url, pid |-> nextGecko + 1]
            \in [engine : Engine, url : Url, pid : Nat]
      BY <2>1, <3>1 DEF Engine
    <3>5. frames' \subseteq [engine : Engine, url : Url, pid : Nat]
      BY <2>1, <3>4 DEF IInv, TypeOK
    <3> QED
      BY <3>1, <3>2, <3>3, <3>5 DEF IInv, TypeOK, Principal
  <2>4. FramesRemembered'
    BY <2>1, <2>2 DEF IInv, FramesRemembered
  <2>5. Numbered(byPrincipal', GeckoBase, nextGecko')
    <3>1. /\ GeckoBase \in Nat /\ nextGecko \in Nat /\ nextGecko >= GeckoBase
          /\ Numbered(byPrincipal, GeckoBase, nextGecko)
          /\ \A s \in DOMAIN byPrincipal : byPrincipal[s] \in Nat
      BY BaseAssumption DEF IInv, TypeOK
    <3> HIDE DEF principal
    <3>2. Numbered(With(byPrincipal, principal, nextGecko + 1), GeckoBase, nextGecko + 1)
      BY <1>3, <3>1, WithNumbered
    <3> QED
      BY <2>1, <3>2
  <2> QED
    BY <2>3, <2>4, <2>5 DEF IInv, Numbered, Numbered
<1> QED
  BY <1>2, <1>3

LEMMA StepIInv == IInv /\ [Next]_vars => IInv'
<1> SUFFICES ASSUME IInv, [Next]_vars PROVE IInv'
  OBVIOUS
<1>1. CASE Next
  <2>1. PICK url \in Url, pinned \in BOOLEAN, prefersGecko \in BOOLEAN :
          Load(url, pinned, prefersGecko)
    BY <1>1 DEF Next
  <2> QED
    BY <2>1, BlinkStep, GeckoStep DEF Load
<1>2. CASE UNCHANGED vars
  BY <1>2 DEF vars, IInv, TypeOK, FramesRemembered, Numbered
<1> QED
  BY <1>1, <1>2

LEMMA Invariance == Spec => []IInv
  BY InitIInv, StepIInv, PTL DEF Spec

(* Types, whatever is loaded in whatever order. *)
THEOREM TypeCorrect == Spec => []TypeOK
<1>1. IInv => TypeOK
  BY DEF IInv
<1> QED
  BY <1>1, Invariance, PTL

(* process_for and process_for_frame never move a site to another process. *)
THEOREM SitesKeepTheirProcess == Spec => []SameSiteSharesProcess
<1>1. IInv => SameSiteSharesProcess
  BY DEF IInv, FramesRemembered, SameSiteSharesProcess, Within
<1> QED
  BY <1>1, Invariance, PTL

(* While Blink has not run into Gecko's ids, which takes as many sites as the
   bases are apart, no two sites share a process, within or across engines. *)
THEOREM SitesAreApart == Spec /\ []RangesApart => []DifferentSitesNeverShare
<1>1. IInv /\ RangesApart => DifferentSitesNeverShare
  <2> SUFFICES ASSUME IInv, RangesApart, NEW f \in frames, NEW g \in frames, f.pid = g.pid
               PROVE  f.engine = g.engine /\ Within(f.engine, f.url) = Within(g.engine, g.url)
    BY DEF DifferentSitesNeverShare
  <2> QED
    BY BaseAssumption DEF IInv, TypeOK, FramesRemembered, Numbered, RangesApart, Within
<1> QED
  BY <1>1, Invariance, PTL

-------------------------------------------------------------------------------
(* What the decisions of engine-net give to a connection. *)
LEMMA MinIsMember ==
  ASSUME NEW S \in SUBSET (1 .. 3), S # {} PROVE Min(S) \in S
<1>1. \E x \in S : \A y \in S : x <= y
  <2>1. CASE 1 \in S
    BY <2>1
  <2>2. CASE 1 \notin S /\ 2 \in S
    BY <2>2
  <2>3. CASE 1 \notin S /\ 2 \notin S
    <3>1. \A x \in S : x \in 1 .. 3 /\ x # 1 /\ x # 2
      BY <2>3
    <3>2. \A x \in S : x = 3
      BY <3>1
    <3>3. PICK z \in S : TRUE
      OBVIOUS
    <3> QED
      BY <3>2, <3>3
  <2> QED
    BY <2>1, <2>2, <2>3
<1> QED
  BY <1>1 DEF Min

LEMMA NegotiatedGroup ==
  ASSUME NEW supported, NEW e \in PqEnforcement
  PROVE  /\ e = "Required" => NegotiateKem(supported, e) # "X25519"
         /\ e = "Disabled" => NegotiateKem(supported, e) \in {"X25519", None}
<1> DEFINE offered == OfferedGroups(e)
           usable == {i \in DOMAIN offered :
                        offered[i] \in supported /\ IsAcceptable(offered[i], e)}
<1>1. DOMAIN offered \in SUBSET (1 .. 3) /\ (e = "Disabled" => \A i \in DOMAIN offered : offered[i] = "X25519")
  BY DEF OfferedGroups, PqEnforcement
<1>2. NegotiateKem(supported, e) = IF usable = {} THEN None ELSE offered[Min(usable)]
  BY DEF NegotiateKem
<1>3. usable # {} => Min(usable) \in usable
  BY <1>1, MinIsMember
<1> QED
  BY <1>1, <1>2, <1>3 DEF IsAcceptable, None

LEMMA DecidedAddress ==
  ASSUME NEW u \in Url, NEW mode \in HttpsMode, NEW failing \in BOOLEAN
  PROVE  LET d == Decide(u, mode, failing)
             plain == mode = "Off" \/ (mode = "HttpsFirst" /\ failing)
         IN  /\ d.url \in Url
             /\ u.scheme # "http" \/ plain => d.url = u
             /\ u.scheme = "http" /\ ~plain => d.url = Upgrade(u) /\ d.url.scheme = "https"
             /\ d.kind = "PlaintextWithWarning" <=>
                  u.scheme = "http" /\ mode = "HttpsFirst" /\ failing
<1>1. u.scheme = "http" => Upgrade(u) \in Url /\ Upgrade(u).scheme = "https"
  BY UrlAssumption DEF Upgrade
<1>2. CASE u.scheme # "http" \/ mode = "Off"
  <2>1. Decide(u, mode, failing) = [kind |-> "Proceed", url |-> u]
    BY <1>2 DEF Decide, Decision
  <2> QED
    BY <1>2, <2>1
<1>3. CASE u.scheme = "http" /\ mode = "HttpsFirst" /\ failing
  <2>1. Decide(u, mode, failing) = [kind |-> "PlaintextWithWarning", url |-> u]
    BY <1>3 DEF Decide, Decision
  <2>2. Decide(u, mode, failing).kind = "PlaintextWithWarning" /\ Decide(u, mode, failing).url = u
    BY <2>1
  <2> HIDE <2>1
  <2> QED
    BY <1>3, <2>2, Zenon
<1>4. CASE u.scheme = "http" /\ mode # "Off" /\ ~(mode = "HttpsFirst" /\ failing)
  <2>1. Decide(u, mode, failing) = [kind |-> "Upgraded", url |-> Upgrade(u)]
    BY <1>4 DEF Decide, Decision
  <2> QED
    BY <1>1, <1>4, <2>1
<1> QED
  BY <1>2, <1>3, <1>4

LEMMA Connected ==
  ASSUME NEW u \in Url, NEW p \in NetPolicies, NEW failing \in BOOLEAN,
         Connect(u, p, failing).loaded
  PROVE  LET page == Connect(u, p, failing)
             d == Decide(u, p.https_mode, failing)
         IN  /\ page.url = d.url /\ page.warned = (d.kind = "PlaintextWithWarning")
             /\ d.url.scheme = "http" => page.strength = 0 /\ p.allow_http11
             /\ d.url.scheme = "https" =>
                  /\ NegotiateKem(Server[u.text].groups, p.pq_kem) # None
                  /\ page.strength = Strength(NegotiateKem(Server[u.text].groups, p.pq_kem))
             /\ d.url.scheme \notin {"http", "https"} => page.strength = 3
<1> DEFINE d == Decide(u, p.https_mode, failing)
           group == NegotiateKem(Server[u.text].groups, p.pq_kem)
           plain == NegotiateTransport({"http/1.1"}, p)
           secure == NegotiateTransport(Server[u.text].alpn, p)
<1>1. plain # None => p.allow_http11
  BY DEF NegotiateTransport
<1> DEFINE page(g, t, n) == [loaded |-> TRUE, url |-> d.url, warned |-> d.kind = "PlaintextWithWarning",
                             group |-> g, transport |-> t, strength |-> n]
<1> HIDE DEF d, group, plain, secure
<1>2. CASE d.url.scheme = "http"
  <2>1. Connect(u, p, failing) = IF plain = None THEN Refused ELSE page(None, plain, 0)
    BY <1>2 DEF Connect, Loaded, d, plain
  <2>2. Connect(u, p, failing) = page(None, plain, 0) /\ plain # None
    BY <2>1 DEF Refused
  <2> QED
    BY <1>1, <1>2, <2>2 DEF d
<1>3. CASE d.url.scheme = "https"
  <2>1. Connect(u, p, failing) =
          IF ~CheckVersion(Server[u.text].tls) \/ group = None \/ secure = None THEN Refused
          ELSE page(group, secure, Strength(group))
    BY <1>3 DEF Connect, Loaded, d, group, secure
  <2>2. Connect(u, p, failing) = page(group, secure, Strength(group)) /\ group # None
    BY <2>1 DEF Refused
  <2> QED
    BY <1>3, <2>2 DEF d, group
<1>4. CASE d.url.scheme \notin {"http", "https"}
  <2>1. Connect(u, p, failing) = page(None, None, 3)
    BY <1>4 DEF Connect, Loaded, d
  <2> QED
    BY <1>4, <2>1 DEF d
<1> QED
  BY <1>2, <1>3, <1>4 DEF d, group

-------------------------------------------------------------------------------
(* What is remembered of a page is what Connect says of it under the policy that
   was in force, and its process was handed out to its address. *)
Faithful(p) ==
  LET page == Connect(p.asked, p.policy, p.failing) IN
  /\ p.asked \in Url /\ p.policy \in NetPolicies /\ p.failing \in BOOLEAN
  /\ page.loaded /\ p.url = page.url /\ p.warned = page.warned /\ p.strength = page.strength

InItsProcess(p) == \E f \in frames : f.engine = p.engine /\ f.url = p.url /\ f.pid = p.pid

PagesInv == /\ policy \in NetPolicies /\ \A p \in pages : Faithful(p)

NavInv == IInv /\ PagesInv /\ \A p \in pages : p.url \in Url /\ p.engine \in Engine /\ InItsProcess(p)

LEMMA LoadedAddress ==
  ASSUME NEW u \in Url, NEW p \in NetPolicies, NEW failing \in BOOLEAN,
         Connect(u, p, failing).loaded
  PROVE  Connect(u, p, failing).url \in Url
<1>1. p.https_mode \in HttpsMode
  BY DEF NetPolicies
<1> QED
  BY <1>1, Connected, DecidedAddress

(* A load remembers the frame in the process that its map now says. *)
LEMMA LoadHandsOut ==
  ASSUME NEW url \in Url, NEW pinned \in BOOLEAN, NEW prefersGecko \in BOOLEAN,
         Load(url, pinned, prefersGecko)
  PROVE  LET engine == Select(pinned, prefersGecko) IN
         /\ frames \subseteq frames' /\ engine \in Engine
         /\ \E f \in frames' : f.engine = engine /\ f.url = url /\ f.pid = PidOf(engine, url)
<1>1. CASE Select(pinned, prefersGecko) = "blink"
  <2>1. ProcessFor(url)
    BY <1>1 DEF Load
  <2>2. frames' = frames \cup
          {[engine |-> "blink", url |-> url, pid |-> sites'[SiteForUrl(url)]]}
    BY <2>1 DEF ProcessFor, HandOut, With
  <2> DEFINE f == [engine |-> "blink", url |-> url, pid |-> sites'[SiteForUrl(url)]]
  <2>3. f \in frames' /\ f.engine = "blink" /\ f.url = url /\ f.pid = sites'[SiteForUrl(url)]
    BY <2>2
  <2>4. PidOf("blink", url) = sites'[SiteForUrl(url)] /\ "blink" \in Engine
    BY DEF PidOf, Engine
  <2>5. frames \subseteq frames'
    BY <2>2
  <2> HIDE DEF f
  <2> QED
    BY <1>1, <2>3, <2>4, <2>5
<1>2. CASE Select(pinned, prefersGecko) = "gecko"
  <2>1. ProcessForFrame(url)
    BY <1>2 DEF Load
  <2>2. frames' = frames \cup
          {[engine |-> "gecko", url |-> url, pid |-> byPrincipal'[PrincipalFor(url)]]}
    BY <2>1 DEF ProcessForFrame, HandOut, With
  <2> DEFINE f == [engine |-> "gecko", url |-> url, pid |-> byPrincipal'[PrincipalFor(url)]]
  <2>3. f \in frames' /\ f.engine = "gecko" /\ f.url = url /\ f.pid = byPrincipal'[PrincipalFor(url)]
    BY <2>2
  <2>4. PidOf("gecko", url) = byPrincipal'[PrincipalFor(url)] /\ "gecko" \in Engine
    BY DEF PidOf, Engine
  <2>5. frames \subseteq frames'
    BY <2>2
  <2> HIDE DEF f
  <2> QED
    BY <1>2, <2>3, <2>4, <2>5
<1> QED
  BY <1>1, <1>2 DEF Select

LEMMA NavigateStep ==
  ASSUME NavInv, NEW url \in Url, NEW pinned \in BOOLEAN, NEW prefersGecko \in BOOLEAN,
         NEW knownFailing \in BOOLEAN, Navigate(url, pinned, prefersGecko, knownFailing)
  PROVE  NavInv' /\ Next
<1> DEFINE page == Connect(url, policy, knownFailing)
           engine == Select(pinned, prefersGecko)
           entry == [asked |-> url, policy |-> policy, failing |-> knownFailing, url |-> page.url,
                     strength |-> page.strength, warned |-> page.warned,
                     engine |-> engine, pid |-> PidOf(engine, page.url)]
<1>1. /\ page.loaded /\ Load(page.url, pinned, prefersGecko)
      /\ pages' = pages \cup {entry} /\ policy' = policy
  BY DEF Navigate
<1>2. policy \in NetPolicies
  BY DEF NavInv, PagesInv
<1>3. page.url \in Url
  BY <1>1, <1>2, LoadedAddress
<1>4. Next /\ IInv'
  BY <1>1, <1>3, StepIInv DEF Next, NavInv
<1>5. /\ frames \subseteq frames' /\ engine \in Engine
      /\ \E f \in frames' : f.engine = engine /\ f.url = page.url /\ f.pid = PidOf(engine, page.url)
  BY <1>1, <1>3, LoadHandsOut
<1>6. Faithful(entry)
  BY <1>1, <1>2 DEF Faithful
<1>7. entry.url \in Url /\ entry.engine \in Engine
      /\ \E f \in frames' : f.engine = entry.engine /\ f.url = entry.url /\ f.pid = entry.pid
  BY <1>3, <1>5
<1> HIDE DEF entry
<1>8. PagesInv'
  BY <1>1, <1>2, <1>6 DEF NavInv, PagesInv, Faithful
<1>9. \A p \in pages' : p.url \in Url /\ p.engine \in Engine /\ InItsProcess(p)'
  BY <1>1, <1>5, <1>7 DEF NavInv, InItsProcess
<1> QED
  BY <1>4, <1>8, <1>9 DEF NavInv

LEMMA EmbedStep ==
  ASSUME NavInv, NEW page \in pages, NEW url \in Url, NEW level, NEW tracker,
         Embed(page, url, level, tracker)
  PROVE  NavInv' /\ Next
<1>1. Load(url, page.engine = "gecko", FALSE) /\ UNCHANGED <<policy, pages>>
  BY DEF Embed
<1>2. PICK pinned \in BOOLEAN : pinned = (page.engine = "gecko")
  OBVIOUS
<1>3. Load(url, pinned, FALSE)
  BY <1>1, <1>2
<1>4. Next /\ IInv'
  BY <1>3, StepIInv DEF Next, NavInv
<1>5. frames \subseteq frames'
  BY <1>3, LoadHandsOut
<1> QED
  BY <1>1, <1>4, <1>5 DEF NavInv, PagesInv, Faithful, InItsProcess

LEMMA NavStep == NavInv /\ [NavNext]_navVars => NavInv' /\ [Next]_vars
<1> SUFFICES ASSUME NavInv, [NavNext]_navVars PROVE NavInv' /\ [Next]_vars
  OBVIOUS
<1>1. CASE UNCHANGED vars /\ UNCHANGED pages /\ policy' \in NetPolicies
  BY <1>1 DEF vars, NavInv, IInv, TypeOK, FramesRemembered, Numbered, PagesInv, Faithful, InItsProcess
<1>2. CASE \E p \in Policy : SetPolicy(p)
  BY <1>1, <1>2, PolicyAssumption DEF SetPolicy
<1>3. CASE UNCHANGED navVars
  BY <1>1, <1>3 DEF navVars, NavInv, PagesInv
<1>4. CASE \E url \in Url, pinned, prefersGecko \in BOOLEAN : \E knownFailing \in Probed(url) :
             Navigate(url, pinned, prefersGecko, knownFailing)
  BY <1>4, NavigateStep DEF Probed
<1>5. CASE \E page \in pages, url \in Url, level \in {"Standard", "Strict"}, tracker \in BOOLEAN :
             Embed(page, url, level, tracker)
  BY <1>5, EmbedStep
<1> QED
  BY <1>2, <1>3, <1>4, <1>5 DEF NavNext

LEMMA NavStart == NavInit => NavInv /\ Init
<1>1. DefaultPolicy \in NetPolicies
  BY PolicyAssumption
<1> QED
  BY <1>1, InitIInv DEF NavInit, NavInv, PagesInv

LEMMA NavInvariance == NavSpec => []NavInv
  BY NavStart, NavStep, PTL DEF NavSpec

(* Navigation loads frames as the two engines do and in no other way: every
   theorem about Spec holds for it. *)
THEOREM NavigationIsLoading == NavSpec => Spec
  BY NavStart, NavStep, NavInvariance, PTL DEF NavSpec, Spec

(* process_for and process_for_frame never move a site to another process, in
   any sequence of navigations and embedded frames. *)
THEOREM NavigationKeepsProcesses == NavSpec => []SameSiteSharesProcess
  BY NavigationIsLoading, SitesKeepTheirProcess, PTL

(* Plaintext comes only under a policy that allows it, with its warning, and only
   to an address that was asked for in plaintext (https_only::decide,
   negotiate_transport). *)
THEOREM PlaintextIsAllowed == NavSpec => []PlaintextOnlyWhereAllowed
<1>1. NavInv => PlaintextOnlyWhereAllowed
  <2> SUFFICES ASSUME NavInv, NEW p \in pages, p.strength = 0
               PROVE  /\ p.asked.scheme = "http" /\ p.policy.allow_http11
                      /\ \/ p.policy.https_mode = "Off"
                         \/ p.policy.https_mode = "HttpsFirst" /\ p.failing /\ p.warned
    BY DEF PlaintextOnlyWhereAllowed
  <2> DEFINE page == Connect(p.asked, p.policy, p.failing)
             d == Decide(p.asked, p.policy.https_mode, p.failing)
             group == NegotiateKem(Server[p.asked.text].groups, p.policy.pq_kem)
  <2>1. /\ p.asked \in Url /\ p.policy \in NetPolicies /\ p.failing \in BOOLEAN /\ page.loaded
        /\ p.warned = page.warned /\ page.strength = 0 /\ p.policy.https_mode \in HttpsMode
    BY DEF NavInv, PagesInv, Faithful, NetPolicies
  <2>2. /\ page.warned = (d.kind = "PlaintextWithWarning")
        /\ d.url.scheme = "http" => p.policy.allow_http11
        /\ d.url.scheme = "https" => page.strength = Strength(group)
        /\ d.url.scheme \notin {"http", "https"} => page.strength = 3
    BY <2>1, Connected
  <2>3. d.url.scheme = "http"
    BY <2>1, <2>2 DEF Strength
  <2>4. /\ p.asked.scheme = "http"
        /\ p.policy.https_mode = "Off" \/ (p.policy.https_mode = "HttpsFirst" /\ p.failing)
        /\ p.asked.scheme = "http" /\ p.policy.https_mode = "HttpsFirst" /\ p.failing
             => d.kind = "PlaintextWithWarning"
    BY <2>1, <2>3, DecidedAddress
  <2> QED
    BY <2>1, <2>2, <2>3, <2>4
<1> QED
  BY <1>1, NavInvariance, PTL

-------------------------------------------------------------------------------
(* A stricter policy keeps what a laxer one upgrades, and accepts no weaker group. *)
LEMMA UnderStricter ==
  ASSUME NEW u \in Url, NEW p \in NetPolicies, NEW q \in NetPolicies, NEW failing \in BOOLEAN,
         Connect(u, p, failing).loaded, Connect(u, q, failing).loaded, Stricter(q, p)
  PROVE  Connect(u, q, failing).strength >= Connect(u, p, failing).strength
<1> DEFINE c(x) == Connect(u, x, failing)
           d(x) == Decide(u, x.https_mode, failing)
           group(x) == NegotiateKem(Server[u.text].groups, x.pq_kem)
           plain(x) == x.https_mode = "Off" \/ (x.https_mode = "HttpsFirst" /\ failing)
<1>1. ASSUME NEW x \in {p, q}
      PROVE  /\ x.https_mode \in HttpsMode /\ x.pq_kem \in PqEnforcement
             /\ d(x).url.scheme = "http" => c(x).strength = 0
             /\ d(x).url.scheme = "https" => group(x) # None /\ c(x).strength = Strength(group(x))
             /\ d(x).url.scheme \notin {"http", "https"} => c(x).strength = 3
  <2>1. x \in NetPolicies /\ c(x).loaded
    OBVIOUS
  <2> QED
    BY <2>1, Connected DEF NetPolicies
<1>2. ASSUME NEW x \in {p, q}
      PROVE  /\ u.scheme # "http" \/ plain(x) => d(x).url = u
             /\ u.scheme = "http" /\ ~plain(x) => d(x).url.scheme = "https"
  BY <1>1, DecidedAddress
<1>3. /\ q.https_mode = "Off" => p.https_mode = "Off"
      /\ q.https_mode = "HttpsFirst" => p.https_mode # "HttpsOnly"
      /\ q.pq_kem = "Disabled" => p.pq_kem = "Disabled"
      /\ q.pq_kem = "Preferred" => p.pq_kem # "Required"
  BY DEF Stricter, HttpsRank, PqRank
<1>4. ASSUME NEW x \in {p, q} PROVE c(x).strength \in 0 .. 3
  BY <1>1 DEF Strength
<1>5. CASE d(p).url.scheme = "https" /\ d(q).url.scheme = "https"
  <2>1. /\ q.pq_kem = "Required" => group(q) # "X25519"
        /\ p.pq_kem = "Disabled" => group(p) \in {"X25519", None}
    BY <1>1, NegotiatedGroup
  <2>2. group(q) = "X25519" => group(p) = "X25519"
    <3>1. CASE q.pq_kem = p.pq_kem
      BY <3>1
    <3>2. CASE q.pq_kem # p.pq_kem
      BY <1>1, <1>3, <1>5, <2>1, <3>2 DEF PqEnforcement
    <3> QED
      BY <3>1, <3>2
  <2> QED
    BY <1>1, <1>5, <2>2 DEF Strength
<1>6. CASE d(p).url.scheme = "http"
  BY <1>1, <1>4, <1>6
<1>7. CASE u.scheme = "http" /\ d(p).url.scheme # "http"
  <2>1. ~plain(p)
    BY <1>2, <1>7
  <2>2. ~plain(q)
    BY <1>1, <1>3, <2>1 DEF HttpsMode
  <2> QED
    BY <1>2, <1>5, <1>7, <2>1, <2>2
<1>8. CASE u.scheme # "http"
  <2>1. d(p).url = u /\ d(q).url = u
    BY <1>2, <1>8
  <2>2. CASE u.scheme # "https"
    BY <1>1, <1>8, <2>1, <2>2
  <2> QED
    BY <1>5, <2>1, <2>2
<1> QED
  BY <1>6, <1>7, <1>8

(* Had a stricter policy been in force, a page that was loaded would have been
   refused or have come at least as well protected (https_only, pqc). *)
THEOREM StricterIsNoWeaker == NavSpec => []StricterIsSafer
<1>1. NavInv => StricterIsSafer
  BY UnderStricter DEF NavInv, PagesInv, Faithful, StricterIsSafer
<1> QED
  BY <1>1, NavInvariance, PTL

(* While the id ranges of the engines are apart, a page that came in plaintext
   shares no process with one that came over TLS: the scheme is part of the site. *)
THEOREM PlaintextIsApart == NavSpec /\ []RangesApart => []PlaintextNeverSharesWithTls
<1>1. ASSUME NavInv, NEW p \in pages
      PROVE  /\ p.strength = 0 => p.url.scheme = "http"
             /\ p.strength \in {1, 2} => p.url.scheme = "https"
  <2>1. /\ p.asked \in Url /\ p.policy \in NetPolicies /\ p.failing \in BOOLEAN
        /\ Connect(p.asked, p.policy, p.failing).loaded
        /\ p.url = Connect(p.asked, p.policy, p.failing).url
        /\ p.strength = Connect(p.asked, p.policy, p.failing).strength
    BY <1>1 DEF NavInv, PagesInv, Faithful
  <2> QED
    BY <2>1, Connected DEF Strength
<1>2. NavInv /\ DifferentSitesNeverShare => PlaintextNeverSharesWithTls
  <2> SUFFICES ASSUME NavInv, DifferentSitesNeverShare, NEW p \in pages, NEW q \in pages,
                      p.pid = q.pid, p.strength = 0, q.strength \in {1, 2}
               PROVE  FALSE
    BY DEF PlaintextNeverSharesWithTls
  <2>1. PICK f \in frames : f.engine = p.engine /\ f.url = p.url /\ f.pid = p.pid
    BY DEF NavInv, InItsProcess
  <2>2. PICK g \in frames : g.engine = q.engine /\ g.url = q.url /\ g.pid = q.pid
    BY DEF NavInv, InItsProcess
  <2>3. f.engine = g.engine /\ Within(f.engine, f.url) = Within(g.engine, g.url)
    BY <2>1, <2>2 DEF DifferentSitesNeverShare
  <2>4. f.url.scheme = "http" /\ g.url.scheme = "https"
    BY <1>1, <2>1, <2>2
  <2>5. Within(f.engine, f.url).scheme = "http" /\ Within(g.engine, g.url).scheme = "https"
    BY <2>4 DEF Within, SiteForUrl, PrincipalFor, Scheme, NoScheme
  <2> QED
    BY <2>3, <2>5
<1> QED
  BY <1>2, NavInvariance, NavigationIsLoading, SitesAreApart, PTL

-------------------------------------------------------------------------------
(* Partition keys.  What a site is named by is a piece of the text of the address,
   so no bar is in it, and the first bar of a key is the one that joins it. *)
Word == STRING \cup {"https", "://", "|"}     \* all of them strings
Words == Seq(Word)
NoBar(s) == \A i \in DOMAIN s : s[i] # "|"

LEMMA SmallestIs ==
  ASSUME NEW T \in SUBSET Nat, T # {} PROVE Min(T) \in T
<1>1. \E m \in T : \A n \in T : m <= n
  BY Least
<1> QED
  BY <1>1 DEF Min

LEMMA LargestIs ==
  ASSUME NEW n \in Nat, NEW T \in SUBSET (1 .. n), T # {} PROVE Max(T) \in T
<1>0. T \in SUBSET Nat /\ \A k \in T : k <= n
  OBVIOUS
<1>1. \E m \in T : \A k \in T : k <= m
  BY <1>0, Greatest
<1>2. \E m \in T : \A k \in T : m >= k
  BY <1>1
<1> QED
  BY <1>2 DEF Max

LEMMA AddressIs == ASSUME NEW u \in Url PROVE u.scheme \in Word /\ u.text \in Words
<1>1. u.scheme \in STRING /\ u.text \in Seq(STRING)
  BY HostAssumption
<1>2. Len(u.text) \in Nat /\ u.text \in [1 .. Len(u.text) -> STRING]
  BY <1>1, LenProperties
<1>3. u.text \in [1 .. Len(u.text) -> Word]
  BY <1>2 DEF Word
<1> QED
  BY <1>1, <1>2, <1>3, SeqDef DEF Word, Words

LEMMA PairIs ==
  ASSUME NEW x \in Word
  PROVE  /\ <<x, "://">> \in Words /\ Len(<<x, "://">>) = 2
         /\ <<x, "://">>[1] = x /\ <<x, "://">>[2] # "|"
<1>1. "://" \in Word
  BY DEF Word
<1>2. <<x, "://">> \in Words
  BY <1>1 DEF Words
<1> QED
  BY <1>2

(* A piece of a text. *)
LEMMA PieceIs ==
  ASSUME NEW s \in Words, NEW m \in 1 .. Len(s) + 1, NEW n \in 0 .. Len(s)
  PROVE  /\ SubSeq(s, m, n) \in Words
         /\ NoBar(s) => NoBar(SubSeq(s, m, n))
<1>1. Len(s) \in Nat /\ DOMAIN s = 1 .. Len(s) /\ \A i \in 1 .. Len(s) : s[i] \in Word
  BY LenProperties, ElementOfSeq DEF Words
<1>2. m \in Int /\ n \in Int /\ \A i \in m .. n : i \in 1 .. Len(s)
  BY <1>1
<1> DEFINE t == SubSeq(s, m, n)
<1>3. /\ t \in Words /\ Len(t) = (IF m <= n THEN n - m + 1 ELSE 0)
      /\ \A i \in 1 .. n - m + 1 : t[i] = s[m + i - 1]
  BY <1>1, <1>2, SubSeqProperties DEF Words
<1>4. DOMAIN t = 1 .. Len(t)
  BY <1>3, LenProperties DEF Words
<1> HIDE DEF t
<1>5. ASSUME NEW i \in DOMAIN t PROVE t[i] = s[m + i - 1] /\ m + i - 1 \in DOMAIN s
  BY <1>1, <1>2, <1>3, <1>4
<1>6. NoBar(s) => NoBar(t)
  BY <1>5 DEF NoBar
<1> QED
  BY <1>3, <1>6 DEF t

LEMMA BeforeIs ==
  ASSUME NEW s \in Words, NEW separators PROVE Before(s, separators) \in Words
<1> DEFINE stops == {i \in DOMAIN s : s[i] \in separators}
<1>1. Len(s) \in Nat /\ DOMAIN s = 1 .. Len(s)
  BY LenProperties DEF Words
<1>2. Before(s, separators) = IF stops = {} THEN s ELSE SubSeq(s, 1, Min(stops) - 1)
  BY DEF Before
<1>3. stops \subseteq 1 .. Len(s)
  BY <1>1
<1> HIDE DEF stops
<1>4. CASE stops # {}
  <2>1. Min(stops) \in 1 .. Len(s)
    <3>1. stops \in SUBSET Nat
      BY <1>1, <1>3
    <3> QED
      BY <1>3, <1>4, <3>1, SmallestIs
  <2> DEFINE n == Min(stops) - 1
  <2>2. n \in 0 .. Len(s) /\ 1 \in 1 .. Len(s) + 1
    BY <1>1, <2>1
  <2>3. Before(s, separators) = SubSeq(s, 1, n)
    BY <1>2, <1>4
  <2> HIDE DEF n
  <2> QED
    BY <2>2, <2>3, PieceIs
<1> QED
  BY <1>2, <1>4

LEMMA RegistrableIs ==
  ASSUME NEW host \in Words, NoBar(host)
  PROVE  Registrable(host) \in Words /\ NoBar(Registrable(host))
<1> DEFINE dots == {i \in DOMAIN host : host[i] = "."}
           others == dots \ {Max(dots)}
<1>1. Len(host) \in Nat /\ DOMAIN host = 1 .. Len(host)
  BY LenProperties DEF Words
<1>2. Registrable(host) = IF \E i, j \in dots : i # j THEN SubSeq(host, Max(others) + 1, Len(host))
                          ELSE host
  BY DEF Registrable
<1>3. others \in SUBSET (1 .. Len(host)) /\ ((\E i, j \in dots : i # j) => others # {})
  <2>1. dots \subseteq 1 .. Len(host)
    BY <1>1
  <2> HIDE DEF dots
  <2>2. \A x : (\E i, j \in dots : i # j) => dots \ {x} # {}
    OBVIOUS
  <2> QED
    BY <2>1, <2>2
<1> HIDE DEF others, dots
<1>4. CASE \E i, j \in dots : i # j
  <2>1. Max(others) \in 1 .. Len(host)
    BY <1>1, <1>3, <1>4, LargestIs
  <2> DEFINE m == Max(others) + 1
             n == Len(host)
  <2>2. m \in 1 .. n + 1 /\ n \in 0 .. n
    BY <1>1, <2>1
  <2>3. Registrable(host) = SubSeq(host, m, n)
    BY <1>2, <1>4
  <2> HIDE DEF m
  <2> QED
    BY <2>2, <2>3, PieceIs
<1> QED
  BY <1>2, <1>4

LEMMA TopIs ==
  ASSUME NEW u \in Url
  PROVE  Text(SiteForUrl(u)) \in Words /\ NoBar(Text(SiteForUrl(u)))
<1> DEFINE host == Before(u.text, {"/", ":", "?", "#"})
           name == Registrable(host)
           first == <<Scheme(u), "://">>
<1>1. u.scheme \in Word /\ u.scheme # "|" /\ u.text \in Words /\ NoBar(host)
  BY AddressIs, HostAssumption DEF NoBar
<1>2. name \in Words /\ NoBar(name)
  BY <1>1, BeforeIs, RegistrableIs
<1>3. Text(SiteForUrl(u)) = first \o name
  BY DEF Text, SiteForUrl
<1>4. Scheme(u) \in Word /\ Scheme(u) # "|"
  BY <1>1 DEF Scheme, Word
<1>5. first \in Words /\ Len(first) = 2 /\ first[1] # "|" /\ first[2] # "|"
  BY <1>4, PairIs
<1> HIDE DEF first, name
<1> DEFINE t == first \o name
<1>6. /\ t \in Words /\ Len(t) = 2 + Len(name) /\ Len(name) \in Nat /\ DOMAIN name = 1 .. Len(name)
      /\ DOMAIN t = 1 .. Len(t)
      /\ \A i \in 1 .. 2 + Len(name) : t[i] = IF i <= 2 THEN first[i] ELSE name[i - 2]
  BY <1>2, <1>5, ConcatProperties, LenProperties DEF Words
<1> HIDE DEF t
<1>7. ASSUME NEW i \in DOMAIN t PROVE t[i] # "|"
  <2>1. CASE i = 1 \/ i = 2
    BY <1>5, <1>6, <2>1
  <2>2. CASE i \in 3 .. 2 + Len(name)
    <3>1. i - 2 \in DOMAIN name /\ t[i] = name[i - 2]
      BY <1>6, <2>2
    <3> QED
      BY <1>2, <3>1 DEF NoBar
  <2> QED
    BY <1>6, <2>1, <2>2
<1> QED
  BY <1>3, <1>6, <1>7 DEF t, NoBar

(* Both parts of a joined text stay where they are. *)
LEMMA Joined ==
  ASSUME NEW s \in Words, NEW t \in Words
  PROVE  /\ s \o t \in Words
         /\ Len(s) \in Nat /\ Len(t) \in Nat /\ Len(s \o t) = Len(s) + Len(t)
         /\ \A i \in 1 .. Len(s) : (s \o t)[i] = s[i]
         /\ \A i \in 1 .. Len(t) : (s \o t)[Len(s) + i] = t[i]
<1> DEFINE m == Len(s)
           n == Len(t)
           k == s \o t
<1>1. m \in Nat /\ n \in Nat
  BY LenProperties DEF Words
<1>2. k \in Words /\ Len(k) = m + n /\ \A i \in 1 .. m + n : k[i] = IF i <= m THEN s[i] ELSE t[i - m]
  BY ConcatProperties DEF Words
<1> HIDE DEF k, m, n
<1>3. ASSUME NEW i \in 1 .. m PROVE k[i] = s[i]
  BY <1>1, <1>2
<1>4. ASSUME NEW i \in 1 .. n PROVE k[m + i] = t[i]
  <2> DEFINE j == m + i
  <2>1. j \in 1 .. m + n /\ ~(j <= m) /\ j - m = i
    BY <1>1
  <2> HIDE DEF j
  <2>2. k[j] = t[i]
    BY <1>2, <2>1
  <2> QED
    BY <2>2 DEF j
<1> QED
  BY <1>1, <1>2, <1>3, <1>4 DEF k, m, n

LEMMA SameWords ==
  ASSUME NEW s \in Words, NEW t \in Words, Len(s) = Len(t), \A i \in 1 .. Len(s) : s[i] = t[i]
  PROVE  s = t
<1>1. s = [i \in 1 .. Len(s) |-> s[i]] /\ t = [i \in 1 .. Len(s) |-> t[i]]
  BY LenProperties DEF Words
<1> QED
  BY <1>1

LEMMA KeyIs ==
  ASSUME NEW s \in Words, NEW t \in Words
  PROVE  LET k == PartitionKey(s, t) IN
         /\ Len(s) \in Nat /\ Len(t) \in Nat /\ Len(k) = Len(s) + 1 + Len(t)
         /\ \A i \in 1 .. Len(s) : k[i] = s[i]
         /\ k[Len(s) + 1] = "|"
         /\ \A i \in 1 .. Len(t) : k[Len(s) + 1 + i] = t[i]
<1> DEFINE bar == <<"|">>
           h == s \o bar
           m == Len(s)
           k == h \o t
<1>1. bar \in Words /\ Len(bar) = 1 /\ bar[1] = "|"
  <2>1. "|" \in Word
    BY DEF Word
  <2> QED
    BY <2>1 DEF Words
<1>2. PartitionKey(s, t) = k
  BY DEF PartitionKey
<1> HIDE DEF bar
<1>3. /\ h \in Words /\ m \in Nat /\ Len(h) = m + 1
      /\ \A i \in 1 .. m : h[i] = s[i]
      /\ h[m + 1] = "|"
  <2>1. /\ h \in Words /\ m \in Nat /\ Len(h) = m + Len(bar)
        /\ \A i \in 1 .. m : h[i] = s[i]
        /\ \A i \in 1 .. Len(bar) : h[m + i] = bar[i]
    BY <1>1, Joined
  <2> HIDE DEF h, m
  <2> QED
    BY <1>1, <2>1
<1> HIDE DEF h
<1>4. /\ Len(t) \in Nat /\ Len(k) = Len(h) + Len(t)
      /\ \A i \in 1 .. Len(h) : k[i] = h[i]
      /\ \A i \in 1 .. Len(t) : k[Len(h) + i] = t[i]
  BY <1>3, Joined
<1> HIDE DEF k, m
<1>5. k[m + 1] = "|" /\ \A i \in 1 .. m : k[i] = s[i]
  BY <1>3, <1>4
<1>6. Len(k) = m + 1 + Len(t) /\ \A i \in 1 .. Len(t) : k[m + 1 + i] = t[i]
  BY <1>3, <1>4
<1> QED
  BY <1>2, <1>3, <1>4, <1>5, <1>6 DEF m

(* Two texts that are joined by a bar to texts without one. *)
LEMMA JoinedTwice ==
  ASSUME NEW a \in Words, NEW b \in Words, NEW x \in Words, NEW y \in Words,
         NoBar(a), NoBar(b), PartitionKey(a, x) = PartitionKey(b, y)
  PROVE  a = b /\ x = y
<1> DEFINE k == PartitionKey(a, x)
           l == PartitionKey(b, y)
           m == Len(a)
           n == Len(b)
<1>1. /\ m \in Nat /\ Len(x) \in Nat /\ Len(k) = m + 1 + Len(x)
      /\ \A i \in 1 .. m : k[i] = a[i]
      /\ k[m + 1] = "|"
      /\ \A i \in 1 .. Len(x) : k[m + 1 + i] = x[i]
  BY KeyIs
<1>2. /\ n \in Nat /\ Len(y) \in Nat /\ Len(l) = n + 1 + Len(y)
      /\ \A i \in 1 .. n : l[i] = b[i]
      /\ l[n + 1] = "|"
      /\ \A i \in 1 .. Len(y) : l[n + 1 + i] = y[i]
  BY KeyIs
<1>3. /\ \A i \in 1 .. m : a[i] # "|"
      /\ \A i \in 1 .. n : b[i] # "|"
  BY LenProperties DEF NoBar, Words
<1>4. k = l
  OBVIOUS
<1> HIDE DEF k, l, m, n
<1>5. m = n
  <2>1. ~(m < n)
    <3> SUFFICES ASSUME m < n PROVE FALSE
      OBVIOUS
    <3>1. m + 1 \in 1 .. n
      BY <1>1, <1>2
    <3> QED
      BY <1>1, <1>2, <1>3, <1>4, <3>1
  <2>2. ~(n < m)
    <3> SUFFICES ASSUME n < m PROVE FALSE
      OBVIOUS
    <3>1. n + 1 \in 1 .. m
      BY <1>1, <1>2
    <3> QED
      BY <1>1, <1>2, <1>3, <1>4, <3>1
  <2> QED
    BY <1>1, <1>2, <2>1, <2>2
<1>6. Len(x) = Len(y)
  BY <1>1, <1>2, <1>4, <1>5
<1>7. (\A i \in 1 .. m : a[i] = b[i]) /\ \A i \in 1 .. Len(x) : x[i] = y[i]
  BY <1>1, <1>2, <1>4, <1>5, <1>6
<1> QED
  BY <1>5, <1>6, <1>7, SameWords DEF m, n

(* What an embedded address is known by in a key. *)
Embedded(u) == <<Scheme(u), "://">> \o u.text

PartitionInv ==
  \A s \in partitions :
    /\ s.embedded \in Url /\ s.top \in Words /\ NoBar(s.top)
    /\ s.key = PartitionKey(s.top, Embedded(s.embedded))

LEMMA EmbeddedIs ==
  ASSUME NEW u \in Url
  PROVE  /\ Embedded(u) \in Words
         /\ \A v \in Url : Embedded(u) = Embedded(v) => Scheme(u) = Scheme(v) /\ u.text = v.text
<1> DEFINE first(x) == <<Scheme(x), "://">>
           text(x) == x.text
<1>1. ASSUME NEW x \in Url
      PROVE  /\ text(x) \in Words /\ Len(text(x)) \in Nat
             /\ Embedded(x) \in Words /\ Len(Embedded(x)) = 2 + Len(text(x))
             /\ Embedded(x)[1] = Scheme(x)
             /\ \A i \in 1 .. Len(text(x)) : Embedded(x)[2 + i] = text(x)[i]
  <2>1. text(x) \in Words /\ Scheme(x) \in Word
    BY AddressIs DEF Scheme, Word
  <2>2. first(x) \in Words /\ Len(first(x)) = 2 /\ first(x)[1] = Scheme(x)
    BY <2>1, PairIs
  <2>3. Embedded(x) = first(x) \o text(x)
    BY DEF Embedded
  <2> HIDE DEF first, text
  <2>4. /\ first(x) \o text(x) \in Words
        /\ Len(text(x)) \in Nat /\ Len(first(x) \o text(x)) = Len(first(x)) + Len(text(x))
        /\ \A i \in 1 .. Len(first(x)) : (first(x) \o text(x))[i] = first(x)[i]
        /\ \A i \in 1 .. Len(text(x)) : (first(x) \o text(x))[Len(first(x)) + i] = text(x)[i]
    BY <2>1, <2>2, Joined
  <2> QED
    BY <2>1, <2>2, <2>3, <2>4
<1> HIDE DEF text
<1>2. ASSUME NEW v \in Url, Embedded(u) = Embedded(v)
      PROVE  Scheme(u) = Scheme(v) /\ text(u) = text(v)
  <2>1. Len(text(u)) = Len(text(v))
    BY <1>1, <1>2
  <2>2. Scheme(u) = Scheme(v)
    BY <1>1, <1>2
  <2>3. text(u) = text(v)
    BY <1>1, <1>2, <2>1, SameWords
  <2> QED
    BY <2>2, <2>3
<1> QED
  BY <1>1, <1>2 DEF text

LEMMA PartitionStep == NavInv /\ PartitionInv /\ [NavNext]_navVars => PartitionInv'
<1> SUFFICES ASSUME NavInv, PartitionInv, [NavNext]_navVars PROVE PartitionInv'
  OBVIOUS
<1>1. CASE UNCHANGED partitions
  BY <1>1 DEF PartitionInv
<1>2. ASSUME NEW page \in pages, NEW url \in Url, NEW level, NEW tracker,
             Embed(page, url, level, tracker)
      PROVE  PartitionInv'
  <2> DEFINE top == Text(SiteForUrl(page.url))
             key == PartitionKey(top, Embedded(url))
             new == [top |-> top, embedded |-> url, key |-> key]
  <2>1. partitions' = partitions \/ partitions' = partitions \cup {new}
    BY <1>2 DEF Embed, DecideStorage, Embedded
  <2>2. top \in Words /\ NoBar(top)
    BY TopIs DEF NavInv
  <2>3. /\ new.top = top /\ new.embedded = url /\ new.key = key
    OBVIOUS
  <2>4. /\ new.embedded \in Url /\ new.top \in Words /\ NoBar(new.top)
        /\ new.key = PartitionKey(new.top, Embedded(new.embedded))
    BY <2>2, <2>3
  <2> HIDE DEF new
  <2> QED
    BY <2>1, <2>4 DEF PartitionInv
<1> QED
  BY <1>1, <1>2 DEF NavNext, navVars, SetPolicy, Navigate

(* A partition belongs to one embedded origin, scheme and text, under one top-level
   site: what is before the first bar of a key is the site, what is after it the
   origin (partition_key, decide_storage). *)
THEOREM PartitionsApart == NavSpec => []PartitionsAreApart
<1>1. NavInit => PartitionInv
  BY DEF NavInit, PartitionInv
<1>2. PartitionInv => PartitionsAreApart
  <2> SUFFICES ASSUME PartitionInv, NEW s \in partitions, NEW t \in partitions, s.key = t.key
               PROVE  /\ s.top = t.top /\ Scheme(s.embedded) = Scheme(t.embedded)
                      /\ s.embedded.text = t.embedded.text
    BY DEF PartitionsAreApart
  <2>1. /\ s.embedded \in Url /\ s.top \in Words /\ NoBar(s.top)
        /\ t.embedded \in Url /\ t.top \in Words /\ NoBar(t.top)
        /\ PartitionKey(s.top, Embedded(s.embedded)) = PartitionKey(t.top, Embedded(t.embedded))
    BY DEF PartitionInv
  <2>2. Embedded(s.embedded) \in Words /\ Embedded(t.embedded) \in Words
    BY <2>1, EmbeddedIs
  <2>3. s.top = t.top /\ Embedded(s.embedded) = Embedded(t.embedded)
    BY <2>1, <2>2, JoinedTwice
  <2> QED
    BY <2>1, <2>3, EmbeddedIs
<1> QED
  BY <1>1, <1>2, PartitionStep, NavInvariance, PTL DEF NavSpec
===============================================================================
