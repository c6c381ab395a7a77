--------------------------------- MODULE Window ---------------------------------
(***************************************************************************)
(* The parts of a window that share no state with one another: tab strip,  *)
(* command palette, permissions of sites, one tab in the background, the   *)
(* install dialogue of an extension, the history index.  A behaviour is    *)
(* of one part; the others stay as they are.                               *)
(***************************************************************************)
EXTENDS Integers, Sequences

CONSTANTS Step, MaxIdle, Tab, Group, NoTab, Label, Letter, MaxText, Origin, Name, MaxTime,
          Id, Version, Asks, Sensitive, DIM, BucketOf, Page, Cosine, MaxEntries

ASSUME TimeAssumption == Step \in Nat /\ MaxIdle \in Nat /\ MaxTime \in Nat
ASSUME LabelAssumption == Label \in Seq(Seq(STRING))
ASSUME PageAssumption == /\ DIM \in Nat /\ MaxEntries \in Nat /\ BucketOf \in [DOMAIN BucketOf -> 1 .. DIM]
                         /\ Page \subseteq Seq(DOMAIN BucketOf)

VARIABLES part,         \* which part this behaviour is of
          foreground, away, untouched, audible, pinned, capturing,
          order, groups, active, opened,
          open, text, selected, outcome,
          edition, now, grants, locked, slot, perms, said, highest,
          stage, listing, review, integrity, entries

Saver == INSTANCE BackgroundTab
Strip == INSTANCE TabStrip
Palette == INSTANCE CommandPalette
Sites == INSTANCE SitePermissions
Store == INSTANCE StoreInstall
Visits == INSTANCE History

(* f32: two pages have a score above 0 exactly if they have a bucket in common. *)
ASSUME CosineAssumption ==
  \A query, visit \in Page :
    /\ Visits!Score(query, visit) \in Nat
    /\ Visits!Score(query, visit) > 0 <=>
         \E b \in 1 .. DIM : Visits!Embed(query)[b] > 0 /\ Visits!Embed(visit)[b] > 0

tabVars == <<foreground, away, untouched, audible, pinned, capturing>>
stripVars == <<order, groups, active, opened>>
paletteVars == <<open, text, selected, outcome>>
siteVars == <<edition, now, grants, locked, slot, perms, said, highest>>
storeVars == <<stage, listing, review, integrity>>
allVars == <<part, tabVars, stripVars, paletteVars, siteVars, storeVars, entries>>

Is(p) == part = p /\ UNCHANGED part

WindowInit ==
  /\ part \in {"strip", "palette", "sites", "store", "history", "tab"}
  /\ Saver!Init /\ Strip!Init /\ Palette!Init /\ Store!Init /\ Visits!Init
  /\ IF part = "sites" THEN Sites!Init ELSE Sites!Init /\ edition = "desktop"

WindowNext ==
  \/ /\ Is("strip") /\ Strip!Next
     /\ UNCHANGED <<tabVars, paletteVars, siteVars, storeVars, entries>>
  \/ /\ Is("palette") /\ Palette!Next
     /\ UNCHANGED <<tabVars, stripVars, siteVars, storeVars, entries>>
  \/ /\ Is("sites") /\ Sites!Next
     /\ UNCHANGED <<tabVars, stripVars, paletteVars, storeVars, entries>>
  \/ /\ Is("store") /\ Store!Next
     /\ UNCHANGED <<tabVars, stripVars, paletteVars, siteVars, entries>>
  \/ /\ Is("history") /\ Visits!Next
     /\ UNCHANGED <<tabVars, stripVars, paletteVars, siteVars, storeVars>>
  \/ /\ Is("tab") /\ Saver!Next
     /\ UNCHANGED <<stripVars, paletteVars, siteVars, storeVars, entries>>

WindowSpec == WindowInit /\ [][WindowNext]_allVars

-------------------------------------------------------------------------------
(* The properties of the parts, stated and commented in their modules. *)
FrozenIsThrottled == Saver!FrozenIsThrottled
OnlyDeeper == Saver!OnlyDeeper
WindowConsistent == Strip!WindowConsistent
SelectionInList == Palette!SelectionInList
OmniboxOnlyWithoutMatch == Palette!OmniboxOnlyWithoutMatch
PermittedOnlyOnWord == Sites!PermittedOnlyOnWord
LowerLayerCannotLift == Sites!LowerLayerCannotLift
ConsentCoversPackage == Store!ConsentCoversPackage
FindsTheClosest == Visits!FindsTheClosest
===============================================================================
