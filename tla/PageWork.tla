-------------------------------- MODULE PageWork --------------------------------
(***************************************************************************)
(* What the engine computes about a page without keeping state: draw calls *)
(* (gpu/compositor.rs), energy (gpu/energy.rs) and the privacy budget of   *)
(* an origin (blink-integration/fingerprint.rs), a fold over its accesses. *)
(***************************************************************************)
EXTENDS Integers, Sequences, SequencesExt

(* batch: an item joins the last batch if layer and kind agree. *)
Joined(out, item) ==
  IF out # <<>> /\ Last(out).layer = item.layer /\ Last(out).kind = item.kind
  THEN Append(Front(out), [Last(out) EXCEPT !.count = @ + 1])
  ELSE Append(out, [layer |-> item.layer, kind |-> item.kind, count |-> 1])
Batching(items) ==
  LET out[n \in 0 .. Len(items)] == IF n = 0 THEN <<>> ELSE Joined(out[n - 1], items[n])
  IN  out
Batch(items) == Batching(items)[Len(items)]

(* No item is lost, moved or drawn twice, and no two calls in a row could be one. *)
Drawn(batches) ==
  FlattenSeq([i \in DOMAIN batches |->
    [j \in 1 .. batches[i].count |-> [layer |-> batches[i].layer, kind |-> batches[i].kind]]])
BatchesKeepTheList(items) ==
  /\ Drawn(Batch(items)) = items
  /\ \A i \in 1 .. Len(Batch(items)) - 1 :
       [Batch(items)[i] EXCEPT !.count = 0] # [Batch(items)[i + 1] EXCEPT !.count = 0]

-------------------------------------------------------------------------------
NaN == -1

(* PowerModel::default() *)
WattsPerCpuRatio == 15
WattsPerGpuRatio == 8

(* (used / window).clamp(0, 1) * window, in ms: 0/0 is not a number, x/0 is 1. *)
Busy(used, window) == IF window = 0 /\ used = 0 THEN NaN ELSE Min({used, window})

(* estimate: energy_wh in units of 1/72000000 Wh; 20 twentieths, 17 with hw_video. *)
EnergyWh(s) ==
  IF NaN \in {Busy(s.cpu_ms, s.window_ms), Busy(s.gpu_ms, s.window_ms)} THEN NaN
  ELSE (WattsPerCpuRatio * Busy(s.cpu_ms, s.window_ms)
        + WattsPerGpuRatio * Busy(s.gpu_ms, s.window_ms)) * (IF s.hw_video THEN 17 ELSE 20)

(* Samples of two windows in a row never add up to more than one sample of both,
   nor to more than full power; and an empty window is the only one without a
   number. *)
EnergyAddsUp(a, b) ==
  LET both == [cpu_ms |-> a.cpu_ms + b.cpu_ms, gpu_ms |-> a.gpu_ms + b.gpu_ms,
               window_ms |-> a.window_ms + b.window_ms, hw_video |-> a.hw_video]
  IN  /\ EnergyWh(a) = NaN => a.window_ms = 0
      /\ a.hw_video = b.hw_video /\ NaN \notin {EnergyWh(a), EnergyWh(b)} =>
           /\ EnergyWh(a) + EnergyWh(b) <= EnergyWh(both)
           /\ EnergyWh(both) <= 20 * (WattsPerCpuRatio + WattsPerGpuRatio) * both.window_ms

-------------------------------------------------------------------------------
(* PrivacyBudget::new, in fractions of 1/unit: a cost is any number of them, below
   zero too.  Off has no limit, which try_spend does not look at. *)
InitialBudget(level, unit) ==
  unit * (CASE level = "Off" -> 0 [] level = "Standard" -> 10 [] level = "Strict" -> 4
            [] level = "Maximum" -> 1)

(* try_spend: whether the access is allowed, and what remains. *)
TrySpend(level, remaining, cost) ==
  IF level = "Off" THEN [allowed |-> TRUE, remaining |-> remaining]
  ELSE IF remaining >= cost THEN [allowed |-> TRUE, remaining |-> remaining - cost]
  ELSE [allowed |-> FALSE, remaining |-> remaining]

Spending(level, unit, costs) ==
  LET after[n \in 0 .. Len(costs)] ==
        IF n = 0 THEN [allowed |-> TRUE, remaining |-> InitialBudget(level, unit)]
        ELSE TrySpend(level, after[n - 1].remaining, costs[n])
  IN  after

(* "once exhausted, APIs return coarsened/noised values" (fingerprint.rs): over any
   sequence of accesses the budget is never overdrawn, and whoever was refused is
   refused again, for the same cost or a higher one, unless a negative cost came in
   between.  Rounding to f64 changes none of this: a difference that is not
   negative is not rounded below 0, nor above what it was taken from. *)
BudgetBounds(level, unit, costs) ==
  LET after == Spending(level, unit, costs) IN
    /\ level = "Off" => \A n \in 1 .. Len(costs) : after[n].allowed
    /\ level # "Off" => \A n \in 0 .. Len(costs) : after[n].remaining >= 0
    /\ \A n, m \in 1 .. Len(costs) :
         /\ n < m /\ ~after[n].allowed /\ costs[m] >= costs[n]
         /\ \A i \in n .. m : costs[i] >= 0
         => ~after[m].allowed
===============================================================================
