-------------------------------- MODULE TabStrip --------------------------------
(***************************************************************************)
(* The tab strip of a window: TabStrip of tabs/groups.ts, and the active   *)
(* tab that main.ts keeps beside it.                                       *)
(***************************************************************************)
EXTENDS Integers, Sequences, SequencesExt, Arrangement

CONSTANTS Tab,          \* the tabs a window ever opens
          Group, NoTab

VARIABLES order,        \* the ids in the order of the strip; tabs has the same keys
          groups,       \* groups[g]: tabIds, none while the group does not exist
          active,       \* activeTabId
          opened        \* history: ids that randomUUID has given

stripVars == <<order, groups, active, opened>>

Init == order = <<>> /\ groups = [g \in Group |-> {}] /\ active = NoTab /\ opened = {}

(* newTab: a fresh id, added at the end and shown. *)
NewTab(id) ==
  /\ id \notin opened /\ opened' = opened \cup {id}
  /\ order' = Append(order, id) /\ active' = id
  /\ UNCHANGED groups

Without(id) == Keep(order, {i \in DOMAIN order : order[i] # id})

(* Faulty variant of GroupsWithout: only the strip forgets the tab. *)
GroupsWithoutNothing(id) == groups

GroupsWithout(id) == [g \in Group |-> groups[g] \ {id}]

(* closeTab, of the strip and of the window: the first tab takes over. *)
CloseTab(id) ==
  /\ id \in ToSet(order)
  /\ order' = Without(id) /\ groups' = GroupsWithout(id)
  /\ active' = IF active # id THEN active
               ELSE IF Without(id) = <<>> THEN NoTab ELSE Head(Without(id))
  /\ UNCHANGED opened

(* A click on a row: rows are drawn again after each change. *)
SelectTab(id) == id \in ToSet(order) /\ active' = id /\ UNCHANGED <<order, groups, opened>>

Clamped(i, high) == Max({0, Min({i, high})})

(* moveTab: from -1 returns, the index is clamped. *)
MoveTab(id, toIndex) ==
  /\ order' = IF id \in ToSet(order)
              THEN InsertAt(Without(id), Clamped(toIndex, Len(order) - 1) + 1, id)
              ELSE order
  /\ UNCHANGED <<groups, active, opened>>

(* createGroup: the callers group tabs that are open. *)
CreateGroup(g, ids) == /\ groups' = [groups EXCEPT ![g] = ids]
                       /\ UNCHANGED <<order, active, opened>>

Next ==
  \/ \E id \in Tab : NewTab(id) \/ CloseTab(id) \/ SelectTab(id)
  \/ \E id \in opened : \E i \in -1 .. Len(order) + 1 : MoveTab(id, i)
  \/ \E g \in Group : \E ids \in SUBSET ToSet(order) : CreateGroup(g, ids)

Spec == Init /\ [][Next]_stripVars

-------------------------------------------------------------------------------
(* Strip, groups and active tab speak of the same tabs: none is shown twice, no
   group names a closed tab, and a tab is active exactly while one is open. *)
WindowConsistent ==
  /\ \A i, j \in DOMAIN order : order[i] = order[j] => i = j
  /\ \A g \in Group : groups[g] \subseteq ToSet(order)
  /\ active \in IF order = <<>> THEN {NoTab} ELSE ToSet(order)
===============================================================================
