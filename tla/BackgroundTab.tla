----------------------------- MODULE BackgroundTab -----------------------------
(***************************************************************************)
(* One tab over time, as three parts of the browser judge it without       *)
(* asking one another: the memory saver (storage/memory_saver.rs), the     *)
(* throttling of timers (throttling.rs) and the shell's performance panel  *)
(* (performance.ts).  The callers of the first two pass the seconds in     *)
(* background and the seconds since the tab was active: taken as one       *)
(* number, for a tab is active while it is in the foreground.  The panel   *)
(* has another, the time of the last interaction, which also ages while a  *)
(* tab in the foreground is only looked at.                                *)
(***************************************************************************)
EXTENDS Naturals

CONSTANTS Step,         \* seconds between two looks at the tab
          MaxIdle       \* bound: the seconds since the last interaction

VARIABLES foreground,
          away,         \* seconds_in_background, seconds_since_active
          untouched,    \* seconds from lastActiveAt to now
          audible, pinned, capturing

tabVars == <<foreground, away, untouched, audible, pinned, capturing>>

(* SaverConfig::default() *)
FreezeAfterSecs == 300
DiscardAfterSecs == 1800

(* decide *)
Decide == IF foreground \/ audible \/ pinned \/ capturing THEN "Active"
          ELSE IF away >= DiscardAfterSecs THEN "Discarded"
          ELSE IF away >= FreezeAfterSecs THEN "Frozen" ELSE "Active"

(* Faulty variant of Tier: strictly more than five minutes. *)
TierLate == IF foreground THEN "None" ELSE IF away > 300 THEN "Intensive" ELSE "Background"

(* tier *)
Tier == IF foreground THEN "None" ELSE IF away >= 300 THEN "Intensive" ELSE "Background"
MinTimerIntervalMs(tier) ==
  CASE tier = "None" -> 4 [] tier = "Background" -> 1000 [] tier = "Intensive" -> 60000

(* Faulty variant of FreezeAfterMs: an hour. *)
FreezeAfterHour == 60 * 60 * 1000

(* FREEZE_AFTER_MS; tabsToFreeze, for a tab that it has not frozen yet, knows
   nothing of cameras and microphones. *)
FreezeAfterMs == 10 * 60 * 1000
TabsToFreeze == ~foreground /\ ~pinned /\ ~audible /\ untouched * 1000 >= FreezeAfterMs

-------------------------------------------------------------------------------
Init == /\ foreground = TRUE /\ away = 0 /\ untouched = 0
        /\ audible = FALSE /\ pinned = FALSE /\ capturing = FALSE

Pass == /\ untouched + Step <= MaxIdle /\ untouched' = untouched + Step
        /\ away' = IF foreground THEN away ELSE away + Step
        /\ UNCHANGED <<foreground, audible, pinned, capturing>>

(* The user interacts with the tab. *)
Touch == /\ foreground /\ untouched' = 0
         /\ UNCHANGED <<foreground, away, audible, pinned, capturing>>
Leave == /\ foreground /\ foreground' = FALSE
         /\ UNCHANGED <<away, untouched, audible, pinned, capturing>>

(* The tab comes to the front, by an interaction or when another is closed. *)
Return == /\ ~foreground /\ foreground' = TRUE /\ away' = 0 /\ untouched' \in {0, untouched}
          /\ UNCHANGED <<audible, pinned, capturing>>
Sound == audible' = ~audible /\ UNCHANGED <<foreground, away, untouched, pinned, capturing>>
Pin == pinned' = ~pinned /\ UNCHANGED <<foreground, away, untouched, audible, capturing>>
Capture == capturing' = ~capturing /\ UNCHANGED <<foreground, away, untouched, audible, pinned>>

Next == Pass \/ Touch \/ Leave \/ Return \/ Sound \/ Pin \/ Capture

Spec == Init /\ [][Next]_tabVars

-------------------------------------------------------------------------------
Weight(state) == CASE state = "Active" -> 0 [] state = "Frozen" -> 1 [] state = "Discarded" -> 2

(* "Frozen: Backgrounded; timers throttled (intensive throttling)"
   (memory_saver.rs): the two files agree on when that is, to the second. *)
FrozenIsThrottled == Decide # "Active" => MinTimerIntervalMs(Tier) = 60000

(* A tab that is only left alone goes from active to frozen to discarded and
   never back, nor does the panel take back its offer to freeze it; and a tab
   that the engine discards is one that the panel offers, though the two count
   from different moments.  (The converse is not so: the panel offers a tab that
   was looked at for ten minutes as soon as it is left.) *)
OnlyDeeper ==
  [][Pass => /\ Weight(Decide') >= Weight(Decide)
             /\ TabsToFreeze => TabsToFreeze'
             /\ Decide' = "Discarded" => TabsToFreeze']_tabVars
===============================================================================
