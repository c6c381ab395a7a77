--------------------------- MODULE RendererIsolation ---------------------------
(***************************************************************************)
(* Which process renders a frame: renderer_selector picks an engine,       *)
(* IsolationMap (blink-integration) or FissionMap (gecko-integration)      *)
(* derives the site of the address and gives it a process id.  An address  *)
(* is its scheme and the text after it, cut into separators and the words  *)
(* between them.                                                           *)
(***************************************************************************)
EXTENDS Integers, Sequences, FiniteSetsExt

CONSTANTS Url,          \* the addresses that are loaded
          BlinkBase,    \* 1000: IsolationMap numbers from here
          GeckoBase     \* 2000: FissionMap numbers from here

ASSUME BaseAssumption == BlinkBase \in Nat /\ GeckoBase \in Nat

NoScheme == "none"      \* the address has no ://

-------------------------------------------------------------------------------
(* The part of an address before the first of some separators. *)
Before(text, separators) ==
  LET stops == {i \in DOMAIN text : text[i] \in separators}
  IN  IF stops = {} THEN text ELSE SubSeq(text, 1, Min(stops) - 1)

(* The last two labels of a host, or all of it. *)
Registrable(host) ==
  LET dots == {i \in DOMAIN host : host[i] = "."}
  IN  IF \E i, j \in dots : i # j
      THEN SubSeq(host, Max(dots \ {Max(dots)}) + 1, Len(host))
      ELSE host

Scheme(url) == IF url.scheme = NoScheme THEN "https" ELSE url.scheme

(* Faulty variant of SiteForUrl: only the host counts. *)
SiteForUrlHost(url) ==
  [scheme |-> "https", name |-> Registrable(Before(url.text, {"/", ":", "?", "#"}))]

SiteForUrl(url) ==
  [scheme |-> Scheme(url), name |-> Registrable(Before(url.text, {"/", ":", "?", "#"}))]

PrincipalFor(url) ==
  [scheme |-> Scheme(url), name |-> Registrable(Before(url.text, {"/", ":"}))]

-------------------------------------------------------------------------------
VARIABLES sites,        \* IsolationMap.sites
          nextBlink,    \* IsolationMap.next_pid
          byPrincipal,  \* FissionMap.by_principal
          nextGecko,    \* FissionMap.next_pid
          frames        \* history: the processes that were handed out

vars == <<sites, nextBlink, byPrincipal, nextGecko, frames>>

Site == {SiteForUrl(u) : u \in Url}
Principal == {PrincipalFor(u) : u \in Url}
Engine == {"blink", "gecko"}

TypeOK == /\ DOMAIN sites \subseteq Site /\ \A s \in DOMAIN sites : sites[s] \in Nat
          /\ DOMAIN byPrincipal \subseteq Principal
          /\ \A p \in DOMAIN byPrincipal : byPrincipal[p] \in Nat
          /\ nextBlink \in Nat /\ nextBlink >= BlinkBase
          /\ nextGecko \in Nat /\ nextGecko >= GeckoBase
          /\ frames \subseteq [engine : Engine, url : Url, pid : Nat]

Init == /\ sites = <<>> /\ nextBlink = BlinkBase
        /\ byPrincipal = <<>> /\ nextGecko = GeckoBase
        /\ frames = {}

(* The map with the site in it, and the counter after. *)
With(map, site, pid) == [s \in DOMAIN map \cup {site} |-> IF s = site THEN pid ELSE map[s]]

HandOut(engine, url, pid) == frames' = frames \cup {[engine |-> engine, url |-> url, pid |-> pid]}

(* Faulty variant of ProcessFor: the map is not looked up. *)
ProcessForRenumbering(url) ==
  /\ nextBlink' = nextBlink + 1 /\ sites' = With(sites, SiteForUrl(url), nextBlink')
  /\ HandOut("blink", url, nextBlink')

(* IsolationMap::process_for *)
ProcessFor(url) ==
  LET site == SiteForUrl(url) IN
  IF site \in DOMAIN sites
  THEN HandOut("blink", url, sites[site]) /\ UNCHANGED <<sites, nextBlink>>
  ELSE /\ nextBlink' = nextBlink + 1
       /\ sites' = With(sites, site, nextBlink')
       /\ HandOut("blink", url, nextBlink')

(* Faulty variant of ProcessForFrame: the counter does not advance. *)
ProcessForFrameStuck(url) ==
  LET principal == PrincipalFor(url) IN
  IF principal \in DOMAIN byPrincipal
  THEN HandOut("gecko", url, byPrincipal[principal]) /\ UNCHANGED <<byPrincipal, nextGecko>>
  ELSE /\ UNCHANGED nextGecko
       /\ byPrincipal' = With(byPrincipal, principal, nextGecko)
       /\ HandOut("gecko", url, nextGecko)

(* FissionMap::process_for_frame *)
ProcessForFrame(url) ==
  LET principal == PrincipalFor(url) IN
  IF principal \in DOMAIN byPrincipal
  THEN HandOut("gecko", url, byPrincipal[principal]) /\ UNCHANGED <<byPrincipal, nextGecko>>
  ELSE /\ nextGecko' = nextGecko + 1
       /\ byPrincipal' = With(byPrincipal, principal, nextGecko')
       /\ HandOut("gecko", url, nextGecko')

(* select: a pinned origin, then the heuristic, then Blink. *)
Select(pinned, prefersGecko) == IF pinned \/ prefersGecko THEN "gecko" ELSE "blink"

(* A frame loads.  Pins and heuristic change between loads. *)
Load(url, pinned, prefersGecko) ==
  \/ /\ Select(pinned, prefersGecko) = "blink" /\ ProcessFor(url)
     /\ UNCHANGED <<byPrincipal, nextGecko>>
  \/ /\ Select(pinned, prefersGecko) = "gecko" /\ ProcessForFrame(url)
     /\ UNCHANGED <<sites, nextBlink>>

Next == \E url \in Url, pinned, prefersGecko \in BOOLEAN : Load(url, pinned, prefersGecko)

Spec == Init /\ [][Next]_vars

-------------------------------------------------------------------------------
Within(engine, url) == IF engine = "blink" THEN SiteForUrl(url) ELSE PrincipalFor(url)

(* "Two URLs of the same site share a process" (process_for), and so do frames
   of one principal, whatever was loaded in between. *)
SameSiteSharesProcess ==
  \A f, g \in frames :
    f.engine = g.engine /\ Within(f.engine, f.url) = Within(g.engine, g.url) => f.pid = g.pid

(* "different sites never do" (process_for), the processes of both engines
   taken together: a process id belongs to one site of one engine, as long as Blink
   has seen at most GeckoBase - BlinkBase sites. *)
DifferentSitesNeverShare ==
  \A f, g \in frames :
    f.pid = g.pid =>
      f.engine = g.engine /\ Within(f.engine, f.url) = Within(g.engine, g.url)

(* Each map is an injection into the ids its counter has passed. *)
Numbered(map, base, last) ==
  /\ \A s \in DOMAIN map : base < map[s] /\ map[s] <= last
  /\ \A s, t \in DOMAIN map : map[s] = map[t] => s = t

(* What was handed out is what the map of that engine still says. *)
FramesRemembered ==
  \A f \in frames :
    \/ /\ f.engine = "blink" /\ SiteForUrl(f.url) \in DOMAIN sites
       /\ f.pid = sites[SiteForUrl(f.url)]
    \/ /\ f.engine = "gecko" /\ PrincipalFor(f.url) \in DOMAIN byPrincipal
       /\ f.pid = byPrincipal[PrincipalFor(f.url)]

(* The inductive invariant that both properties follow from. *)
IInv == /\ TypeOK /\ FramesRemembered
        /\ Numbered(sites, BlinkBase, nextBlink)
        /\ Numbered(byPrincipal, GeckoBase, nextGecko)

(* Blink has not run into Gecko's ids. *)
RangesApart == nextBlink <= GeckoBase
===============================================================================
