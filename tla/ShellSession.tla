----------------------------- MODULE ShellSession -----------------------------
(***************************************************************************)
(* Preferences and first run of the desktop shell (ui/shell-desktop/src/   *)
(* main.ts with storage.ts, wizard.ts and theme.ts).  The handlers of the  *)
(* App run to completion; an `await prefs.set` hands a write to IndexedDB  *)
(* and the rest of the async function runs when the put has succeeded;     *)
(* writes to one object store are made in the order of their requests.     *)
(* A crash, or closing the window, loses the memory and the writes that    *)
(* have not committed.  Of the wizard's configuration the theme and the    *)
(* space name are kept; the other fields are only stored.                  *)
(***************************************************************************)
EXTENDS Naturals, Sequences

CONSTANTS MaxEdits,     \* bound: changes of theme and sidebar
          MaxWizards,   \* bound: wizards opened
          MaxWrites     \* bound: async functions in flight

ASSUME BoundsAssumption ==
  MaxEdits \in Nat /\ MaxWizards \in Nat /\ MaxWrites \in Nat

VARIABLES phase,        \* start(): "loading", "built", "ready", or "failed"
          shown,        \* theme and sidebarCollapsed of the App
          modal,        \* "wizard": what modalRoot shows; any other is "none"
          step,         \* SetupWizard.index of the wizard on screen
          configs,      \* configs[n]: the configuration of the n-th wizard
          queue,        \* writes handed to IndexedDB, with what follows each
          disk,         \* the prefs store
          edits,        \* history: counts the edits, for the bound
          lost          \* history: a write has failed in this run

vars == <<phase, shown, modal, step, configs, queue, disk, edits, lost>>

Mode == {"system", "light", "dark"}
Shown == [theme : Mode, collapsed : BOOLEAN]
Unnamed == ""
Config == [theme : Mode, space : {Unnamed, "Home"}]
Step == 0..5            \* welcome, profile, appearance, privacy, apps, done
Key == {"theme", "collapsed", "onboarded", "config"}

Default == [theme |-> "system", collapsed |-> FALSE]
DefaultConfig == [theme |-> "system", space |-> "Home"]

(* What an async function still has to do after the write it waits for. *)
Rest == {<<>>, <<"collapsed">>, <<"collapsed", "close">>,
         <<"theme", "collapsed", "close">>, <<"close">>,
         <<"config", "theme", "collapsed", "close">>}

TypeOK == /\ phase \in {"loading", "built", "ready", "failed"}
          /\ shown \in Shown
          /\ modal \in {"none", "wizard"}
          /\ step \in Step
          /\ configs \in Seq(Config)
          /\ \A i \in DOMAIN queue : queue[i].key \in Key /\ queue[i].rest \in Rest
          /\ DOMAIN disk \subseteq Key
          /\ edits \in 0..MaxEdits /\ lost \in BOOLEAN

Init == /\ phase = "loading" /\ shown = Default
        /\ modal = "none" /\ step = 0 /\ configs = <<>>
        /\ queue = <<>> /\ disk = <<>>
        /\ edits = 0 /\ lost = FALSE

-------------------------------------------------------------------------------
(* loadPrefs on a store. *)
Loaded(d) ==
  [k \in {"theme", "collapsed"} |-> IF k \in DOMAIN d THEN d[k] ELSE Default[k]]

(* start(): loadPrefs, build, bindKeys; from here on the user can act. *)
Build ==
  /\ phase = "loading" /\ phase' = "built"
  /\ shown' = Loaded(disk)
  /\ UNCHANGED <<modal, step, configs, queue, disk, edits, lost>>

(* start(): a get that rejects ends the function before build. *)
LoadFails ==
  /\ phase = "loading" /\ phase' = "failed"
  /\ UNCHANGED <<shown, modal, step, configs, queue, disk, edits, lost>>

(* openWizard: a fresh SetupWizard replaces whatever the modal shows. *)
Wizard ==
  /\ Len(configs) < MaxWizards
  /\ modal' = "wizard" /\ step' = 0 /\ configs' = Append(configs, DefaultConfig)

(* start(): the check of `onboarded`, after the UI is up. *)
CheckOnboarded ==
  /\ phase = "built" /\ phase' = "ready"
  /\ IF "onboarded" \in DOMAIN disk THEN UNCHANGED <<modal, step, configs>> ELSE Wizard
  /\ UNCHANGED <<shown, queue, disk, edits, lost>>

Up == phase \in {"built", "ready"}

(* Faulty variant of ValueOf: finishWizard stores the theme that was chosen in
   the wizard, not the one that is current when its turn comes. *)
ValueOfChosen(k, n) ==
  CASE k = "theme" -> IF n = 0 THEN shown.theme
                      ELSE configs[n].theme
    [] k = "collapsed" -> shown.collapsed
    [] k = "onboarded" -> TRUE
    [] k = "config" -> TRUE

(* What `set` is given for a key, read when it is called. *)
ValueOf(k, n) ==
  CASE k = "theme" -> shown.theme
    [] k = "collapsed" -> shown.collapsed
    [] k = "onboarded" -> TRUE
    [] k = "config" -> TRUE

(* An async function reaches its first `await prefs.set`; n is the wizard it
   belongs to, 0 for none. *)
Start(k, v, n, rest) ==
  /\ Len(queue) < MaxWrites
  /\ queue' = Append(queue, [key |-> k, value |-> v, wizard |-> n, rest |-> rest])

CycleMode(m) == CASE m = "system" -> "light" [] m = "light" -> "dark" [] m = "dark" -> "system"

Change(s) ==
  /\ Up /\ edits < MaxEdits /\ edits' = edits + 1
  /\ shown' = s
  /\ Start("theme", s.theme, 0, <<"collapsed">>)          \* savePrefs
  /\ UNCHANGED <<phase, modal, step, configs, disk, lost>>

CycleTheme == Change([shown EXCEPT !.theme = CycleMode(@)])
ToggleSidebar == Change([shown EXCEPT !.collapsed = ~@])

-------------------------------------------------------------------------------
(* The settings button and the palette command. *)
OpenWizard ==
  /\ Up /\ Wizard
  /\ UNCHANGED <<phase, shown, queue, disk, edits, lost>>

Current == Len(configs) \* the wizard on screen, when modal = "wizard"

InWizard == Up /\ modal = "wizard"

(* SetupWizard.update: the space name on the profile page, the theme on the
   appearance page. *)
WizardUpdate ==
  /\ InWizard
  /\ \/ /\ step = 1
        /\ \E name \in {Unnamed, "Home"} : configs' = [configs EXCEPT ![Current].space = name]
     \/ /\ step = 2
        /\ \E m \in Mode : configs' = [configs EXCEPT ![Current].theme = m]
  /\ UNCHANGED <<phase, shown, modal, step, queue, disk, edits, lost>>

CanAdvance == step = 1 => configs[Current].space # Unnamed

(* Faulty variant of WizardNext: the required field is not checked. *)
WizardNextUnchecked ==
  /\ InWizard /\ step < 5 /\ step' = step + 1
  /\ UNCHANGED <<phase, shown, modal, configs, queue, disk, edits, lost>>

WizardNext ==
  /\ InWizard /\ step < 5 /\ CanAdvance /\ step' = step + 1
  /\ UNCHANGED <<phase, shown, modal, configs, queue, disk, edits, lost>>

WizardBack ==
  /\ InWizard /\ step > 0 /\ step' = step - 1
  /\ UNCHANGED <<phase, shown, modal, configs, queue, disk, edits, lost>>

(* finishWizard up to its first await; the button stays until it ends. *)
Finish ==
  /\ InWizard /\ step = 5
  /\ shown' = [shown EXCEPT !.theme = configs[Current].theme]
  /\ Start("onboarded", TRUE, Current, <<"config", "theme", "collapsed", "close">>)
  /\ UNCHANGED <<phase, modal, step, configs, disk, edits, lost>>

(* closeModal by Escape, the backdrop or a button; or another app, panel or
   question replaces the wizard. *)
LeaveWizard ==
  /\ InWizard /\ modal' = "none"
  /\ UNCHANGED <<phase, shown, step, configs, queue, disk, edits, lost>>

-------------------------------------------------------------------------------
(* IdbStore.set: the store with k put. *)
Stored(d, k, v) == [j \in DOMAIN d \cup {k} |-> IF j = k THEN v ELSE d[j]]

(* The put at the head succeeds, and its function runs to the next await. *)
Continues ==
  LET w == Head(queue) IN
  /\ Up /\ queue # <<>>
  /\ IF w.rest = <<>> \/ Head(w.rest) = "close"
     THEN queue' = Tail(queue)
     ELSE queue' = Append(Tail(queue),
            [key |-> Head(w.rest), value |-> ValueOf(Head(w.rest), w.wizard),
             wizard |-> w.wizard, rest |-> Tail(w.rest)])
  /\ modal' = IF w.rest = <<"close">> THEN "none" ELSE modal
  /\ UNCHANGED <<phase, shown, step, configs, edits>>

(* Its transaction commits.  Of the stored wizardConfig, which nothing reads, only
   the presence is kept. *)
Commit ==
  /\ Continues
  /\ disk' = Stored(disk, Head(queue).key, Head(queue).value)
  /\ UNCHANGED lost

(* Its transaction aborts after all (quota, a failing disk): set has resolved when
   the put succeeded, and nobody waits for the commit. *)
Aborts == Continues /\ lost' = TRUE /\ UNCHANGED disk

(* A put that fails rejects the function that waits for it. *)
PutFails ==
  /\ Up /\ queue # <<>> /\ queue' = Tail(queue)
  /\ lost' = TRUE
  /\ UNCHANGED <<phase, shown, modal, step, configs, disk, edits>>

(* The window closes or the process dies, and the application starts again. *)
Restart ==
  /\ phase # "loading" /\ phase' = "loading"
  /\ shown' = Default /\ modal' = "none" /\ step' = 0
  /\ configs' = <<>> /\ queue' = <<>> /\ lost' = FALSE
  /\ UNCHANGED <<disk, edits>>

Next ==
  \/ Build \/ LoadFails \/ CheckOnboarded
  \/ CycleTheme \/ ToggleSidebar
  \/ OpenWizard \/ WizardUpdate \/ WizardNext \/ WizardBack \/ Finish
  \/ LeaveWizard
  \/ Commit \/ Aborts \/ PutFails \/ Restart

Spec == Init /\ [][Next]_vars

-------------------------------------------------------------------------------
(* When no write is in flight and none has failed, a restart would show the
   preferences that are on screen, however savePrefs and finishWizard have
   overlapped (each write takes the value that is current when it is made). *)
RestartShowsTheSame == Up /\ queue = <<>> /\ ~lost => Loaded(disk) = shown

(* "blocks advancing past an empty required field" (features.test.ts): however
   the user goes back and forth, past the profile page there is a space name. *)
RequiredFieldFilled == InWizard /\ step > 1 => configs[Current].space # Unnamed

(* "show the setup wizard unless we've completed it before" (start): a store
   that says onboarded has the configuration the wizard was completed with. *)
OnboardedIsConfigured == "onboarded" \in DOMAIN disk => "config" \in DOMAIN disk
===============================================================================
