------------------------------- MODULE Navigation -------------------------------
(***************************************************************************)
(* A navigation through engine-net and the renderer selection: the HTTPS   *)
(* decision, the handshake, the transport and then the process of the page *)
(* and of the frames embedded in it.  The order of these calls is the      *)
(* browser shell's, which is outside the repository; policies change       *)
(* between navigations.                                                    *)
(***************************************************************************)
EXTENDS RendererIsolation, NetPolicy, FiniteSets

CONSTANTS Policy,       \* the network policies that are in force at some time
          Server,       \* what answers at each address: [text -> server]
          MaxPages,     \* bound: pages that are loaded
          MaxFrames     \* bound: frames, those of the pages included

ASSUME PolicyAssumption == Policy \subseteq NetPolicies /\ DefaultPolicy \in Policy
ASSUME UrlAssumption == /\ \A u \in Url : DOMAIN u = {"scheme", "text"}
                        /\ \A u \in Url : u.scheme = "http" => Upgrade(u) \in Url

(* A bar is no character of a scheme or a host: in the text of an address it is
   cut off like the other separators, and comes after the host. *)
ASSUME HostAssumption ==
  \A u \in Url : /\ u \in [scheme : STRING, text : Seq(STRING)] /\ u.scheme # "|"
                  /\ LET host == Before(u.text, {"/", ":", "?", "#"})
                     IN  \A i \in DOMAIN host : host[i] # "|"

VARIABLES policy,       \* the policy in force
          pages,        \* history: the pages that were loaded
          partitions    \* history: the storage given to embedded origins

navVars == <<vars, policy, pages, partitions>>

-------------------------------------------------------------------------------
(* The protection of a connection: plaintext, classical, post-quantum. *)
Strength(group) == IF group = "X25519" THEN 1 ELSE 2

Refused == [loaded |-> FALSE]
Loaded(decision, group, transport, strength) ==
  [loaded |-> TRUE, url |-> decision.url, warned |-> decision.kind = "PlaintextWithWarning",
   group |-> group, transport |-> transport, strength |-> strength]

(* A plaintext connection speaks HTTP/1.1; other schemes need no connection. *)
Connect(url, p, knownFailing) ==
  LET decision == Decide(url, p.https_mode, knownFailing)
      server == Server[url.text]
      group == NegotiateKem(server.groups, p.pq_kem)
      plain == NegotiateTransport({"http/1.1"}, p)
      secure == NegotiateTransport(server.alpn, p)
  IN  CASE decision.url.scheme = "http" ->
             IF plain = None THEN Refused ELSE Loaded(decision, None, plain, 0)
        [] decision.url.scheme = "https" ->
             IF ~CheckVersion(server.tls) \/ group = None \/ secure = None THEN Refused
             ELSE Loaded(decision, group, secure, Strength(group))
        [] OTHER -> Loaded(decision, None, None, 3)

-------------------------------------------------------------------------------
NavInit == Init /\ policy = DefaultPolicy /\ pages = {} /\ partitions = {}

(* The Administrative Configuration Plane resolves another policy. *)
SetPolicy(p) == p # policy /\ policy' = p /\ UNCHANGED <<vars, pages, partitions>>

Room == Cardinality(pages) < MaxPages /\ Cardinality(frames) < MaxFrames

(* What a probe may have learned of the host, of use for plaintext addresses. *)
Probed(url) == IF url.scheme = "http" THEN BOOLEAN ELSE {FALSE}

(* The process that the last load of this step handed out. *)
PidOf(engine, url) ==
  IF engine = "blink" THEN sites'[SiteForUrl(url)] ELSE byPrincipal'[PrincipalFor(url)]

Navigate(url, pinned, prefersGecko, knownFailing) ==
  LET page == Connect(url, policy, knownFailing)
      engine == Select(pinned, prefersGecko)
  IN  /\ Room /\ page.loaded
      /\ Load(page.url, pinned, prefersGecko)
      /\ pages' = pages \cup
           {[asked |-> url, policy |-> policy, failing |-> knownFailing, url |-> page.url,
             strength |-> page.strength, warned |-> page.warned,
             engine |-> engine, pid |-> PidOf(engine, page.url)]}
      /\ UNCHANGED <<policy, partitions>>

Text(site) == <<site.scheme, "://">> \o site.name

(* A frame of another address is embedded in a page and asks for storage. *)
Embed(page, url, level, isKnownTracker) ==
  LET top == Text(SiteForUrl(page.url))
      key == DecideStorage(top, <<Scheme(url), "://">> \o url.text, level, isKnownTracker)
  IN  /\ Cardinality(frames) < MaxFrames /\ Cardinality(partitions) < MaxPages
      /\ Load(url, page.engine = "gecko", FALSE)
      /\ partitions' = IF key = <<>> THEN partitions
                       ELSE partitions \cup {[top |-> top, embedded |-> url, key |-> key]}
      /\ UNCHANGED <<policy, pages>>

NavNext ==
  \/ \E p \in Policy : SetPolicy(p)
  \/ \E url \in Url, pinned, prefersGecko \in BOOLEAN : \E knownFailing \in Probed(url) :
       Navigate(url, pinned, prefersGecko, knownFailing)
  \/ \E page \in pages, url \in Url, level \in {"Standard", "Strict"}, tracker \in BOOLEAN :
       Embed(page, url, level, tracker)

NavSpec == NavInit /\ [][NavNext]_navVars

-------------------------------------------------------------------------------
(* HttpsOnly is "never allow plaintext HTTP; fail closed" (https_only.rs), and
   HttpsFirst falls back only "with a warning", for a host that failed: whatever
   the policies were in between, a page that came in plaintext was asked for in
   plaintext and came under a policy that allows it. *)
PlaintextOnlyWhereAllowed ==
  \A p \in pages : p.strength = 0 =>
    /\ p.asked.scheme = "http" /\ p.policy.allow_http11
    /\ \/ p.policy.https_mode = "Off"
       \/ p.policy.https_mode = "HttpsFirst" /\ p.failing /\ p.warned

(* A page that came in plaintext never lives in a process with one that came
   over TLS: the upgrade changes the scheme, and the site carries it. *)
PlaintextNeverSharesWithTls ==
  \A p, q \in pages :
    p.pid = q.pid /\ p.strength = 0 => q.strength \notin {1, 2}

(* Policies in the order of their strictness. *)
HttpsRank(mode) == IF mode = "Off" THEN 0 ELSE IF mode = "HttpsFirst" THEN 1 ELSE 2
PqRank(pq) == IF pq = "Disabled" THEN 0 ELSE IF pq = "Preferred" THEN 1 ELSE 2
Stricter(q, p) == /\ q.allow_http11 => p.allow_http11
                  /\ HttpsRank(q.https_mode) >= HttpsRank(p.https_mode)
                  /\ PqRank(q.pq_kem) >= PqRank(p.pq_kem)

(* A stricter policy never makes a connection weaker: had it been in force, a
   page that was loaded would have been refused or have come at least as well
   protected, whatever was learned about its host. *)
StricterIsSafer ==
  \A p \in pages, q \in NetPolicies :
    Stricter(q, p.policy) =>
      LET page == Connect(p.asked, q, p.failing)
      IN  page.loaded => page.strength >= p.strength

(* "third-party storage cannot be used to link a user across first-party
   contexts" (tracking_protection.rs): one partition belongs to one embedded
   origin, its scheme included, under one top-level site.  An address without a
   scheme is an https address, as for sites (site_for_url). *)
PartitionsAreApart ==
  \A s, t \in partitions :
    s.key = t.key => /\ s.top = t.top
                     /\ Scheme(s.embedded) = Scheme(t.embedded)
                     /\ s.embedded.text = t.embedded.text
===============================================================================
