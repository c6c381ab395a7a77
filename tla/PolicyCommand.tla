----------------------------- MODULE PolicyCommand -----------------------------
(***************************************************************************)
(* The three ways into the policy engine: a process that links it and      *)
(* calls set and resolve in any order (PolicyResolver), the command line   *)
(* of main.rs, which reads its arguments twice, and a signed bundle.  They *)
(* share no state: a behaviour is of one of them.                          *)
(***************************************************************************)
EXTENDS PolicyResolver, FiniteSetsExt

CONSTANTS Written,      \* the values that a linking process sets
          CommandLine,  \* the argument lists that resolve is started with
          SplitOnce,    \* [word -> the texts left and right of its first =]
          Bundle,       \* sequences of signatures: [alg, genuine]
          NoKey         \* the empty key, before --key

(* Every text is a key and a value: those of the command lines are among them. *)
ASSUME WordsAssumption ==
  /\ NoKey \in Key
  /\ \A a \in CommandLine :
       /\ a \in Seq(STRING)
       /\ \A i \in 1 .. Len(a) - 1 : a[i] = "--key" => a[i + 1] \in Key
  /\ \A w \in DOMAIN SplitOnce, k \in Key : SplitOnce[w].value \in ValueOf[k]

ASSUME BundleAssumption == Bundle \subseteq Seq([alg : STRING, genuine : BOOLEAN])

VARIABLES use,          \* "library", "command", "bundle", "trace", "audit" or "bridge"
          args,         \* the arguments after "resolve"
          pass,         \* 1: locks are collected, 2: values are set, 3: reported
          at,           \* the loop index i
          key, locks,   \* as in run_resolve
          report,       \* what was printed, or exit code 1
          verdict       \* the last bundle and what verify_bundle said of it

cmdVars == <<store, use, args, pass, at, key, locks, report, verdict>>
resolving == <<store, args, pass, at, key, locks, report>>

NoLayer == 4
Unread == [exit |-> 9, source |-> NoLayer]

(* parse_layer *)
ParseLayer(word) ==
  CASE word = "default" -> 0 [] word = "user" -> 1
    [] word \in {"local_admin", "local-admin"} -> 2 [] word = "enterprise" -> 3
    [] OTHER -> NoLayer

CmdInit == /\ Init /\ use \in {"library", "command", "bundle", "trace", "audit", "bridge"}
           /\ args \in IF use = "command" THEN CommandLine ELSE {<<>>}
           /\ pass = 1 /\ at = 1 /\ key = NoKey /\ locks = {}
           /\ report = Unread /\ verdict = [of |-> <<>>, answer |-> "none"]

-------------------------------------------------------------------------------
Has(i) == i <= Len(args)
Reading(p) == use = "command" /\ pass = p /\ Has(at)

(* First pass: every word that is --lock, wherever it stands. *)
CollectLock ==
  /\ Reading(1) /\ at' = at + 1
  /\ LET named == args[at] = "--lock" /\ Has(at + 1)
     IN  locks' = IF named /\ ParseLayer(args[at + 1]) # NoLayer
                  THEN locks \cup {ParseLayer(args[at + 1])} ELSE locks
  /\ UNCHANGED <<store, use, args, pass, key, report, verdict>>

NextPass ==
  /\ use = "command" /\ pass = 1 /\ ~Has(at)
  /\ pass' = 2 /\ at' = 1
  /\ UNCHANGED <<store, use, args, key, locks, report, verdict>>

(* Second pass, --key *)
ReadKey ==
  /\ Reading(2) /\ args[at] = "--key"
  /\ key' = IF Has(at + 1) THEN args[at + 1] ELSE NoKey
  /\ at' = at + 2
  /\ UNCHANGED <<store, use, args, pass, locks, report, verdict>>

(* Faulty variant of LockedAt: only the locks that stand before the value. *)
LockedAtEarlier(layer) ==
  \E i \in 1 .. at : args[i] = "--lock" /\ Has(i + 1) /\ ParseLayer(args[i + 1]) = layer

LockedAt(layer) == layer \in locks

(* Second pass, --set: a word that is no known layer and a value is skipped. *)
ReadSet ==
  /\ Reading(2) /\ args[at] = "--set" /\ at' = at + 2
  /\ IF Has(at + 1) /\ args[at + 1] \in DOMAIN SplitOnce
        /\ ParseLayer(SplitOnce[args[at + 1]].layer) # NoLayer
     THEN LET layer == ParseLayer(SplitOnce[args[at + 1]].layer) IN
          Set(key, [layer |-> layer, value |-> SplitOnce[args[at + 1]].value,
                    locked |-> LockedAt(layer)])
     ELSE UNCHANGED store
  /\ UNCHANGED <<use, args, pass, key, locks, report, verdict>>

Skip ==
  /\ Reading(2) /\ args[at] \notin {"--key", "--set"} /\ at' = at + 1
  /\ UNCHANGED <<store, use, args, pass, key, locks, report, verdict>>

Report ==
  /\ use = "command" /\ pass = 2 /\ ~Has(at) /\ pass' = 3
  /\ report' = IF IsSet(key)
               THEN [exit |-> 0, source |-> Resolved(key).layer,
                     value |-> Resolved(key).value, locked |-> Resolved(key).locked]
               ELSE [exit |-> 1, source |-> NoLayer]
  /\ UNCHANGED <<store, use, args, at, key, locks, verdict>>

-------------------------------------------------------------------------------
First(signatures, alg) ==
  signatures[CHOOSE i \in DOMAIN signatures :
    signatures[i].alg = alg /\ \A j \in 1 .. i - 1 : signatures[j].alg # alg]
Carries(signatures, alg) == \E i \in DOMAIN signatures : signatures[i].alg = alg

(* Faulty variant of VerifyBundle: one of the two signatures will do. *)
VerifyBundleEither(signatures) ==
  IF \E alg \in {"Ed25519", "MlDsa65"} :
       Carries(signatures, alg) /\ First(signatures, alg).genuine
  THEN "Ok" ELSE "BadSignature Ed25519"

(* verify_bundle: the first signature of each algorithm counts. *)
VerifyBundle(signatures) ==
  CASE ~Carries(signatures, "Ed25519") -> "MissingAlgorithm Ed25519"
    [] Carries(signatures, "Ed25519") /\ ~Carries(signatures, "MlDsa65") -> "MissingAlgorithm MlDsa65"
    [] OTHER -> IF ~First(signatures, "Ed25519").genuine THEN "BadSignature Ed25519"
                ELSE IF ~First(signatures, "MlDsa65").genuine THEN "BadSignature MlDsa65"
                ELSE "Ok"

(* A bundle is presented; more signatures may be put after those it has. *)
Present(signatures) ==
  /\ use = "bundle" /\ verdict.answer # "Ok"
  /\ verdict' = [of |-> signatures, answer |-> VerifyBundle(signatures)]
  /\ UNCHANGED <<use, resolving>>

Library ==
  /\ use = "library"
  /\ \E k \in Key : \E lv \in LayerValue(k) : lv.value \in Written /\ Set(k, lv)
  /\ UNCHANGED <<use, args, pass, at, key, locks, report, verdict>>

CmdNext == Library \/ CollectLock \/ NextPass \/ ReadKey \/ ReadSet \/ Skip \/ Report
           \/ \E b \in Bundle : Present(b)

CmdSpec == CmdInit /\ [][CmdNext]_cmdVars

-------------------------------------------------------------------------------
CmdTypeOK == /\ TypeOK /\ pass \in 1 .. 3 /\ at \in 1 .. Len(args) + 2
             /\ key \in Key /\ locks \subseteq Layer
             /\ report.exit \in {0, 1, 9} /\ report.source \in Layer \cup {NoLayer}

(* A command line that is what the usage text says: options, each with a value. *)
Option(i) == i \in DOMAIN args /\ i % 2 = 1
WellFormed ==
  /\ Len(args) % 2 = 0
  /\ \A i \in DOMAIN args : (i % 2 = 1) <=> args[i] \in {"--key", "--set", "--lock"}

(* The option that decides a layer: the last --set of it under the key that is
   in force at the end. *)
KeyAt(i) ==
  LET keys == {j \in 1 .. i : Option(j) /\ args[j] = "--key"}
  IN  IF keys = {} THEN NoKey ELSE args[Max(keys) + 1]
Says(i, layer) ==
  /\ Option(i) /\ args[i] = "--set" /\ args[i + 1] \in DOMAIN SplitOnce
  /\ ParseLayer(SplitOnce[args[i + 1]].layer) = layer
  /\ KeyAt(i) = KeyAt(Len(args))

(* The resolution a command line asks for is the one it reports: the highest
   layer that is set for the last key, with its last value, locked if that
   layer is locked anywhere on the line (run_resolve: "First pass: collect
   locks so we can apply them as we set values"). *)
ReportIsWhatWasAsked ==
  pass = 3 /\ WellFormed =>
    LET layers == {l \in Layer : \E i \in DOMAIN args : Says(i, l)}
        top == Max(layers)
        last == Max({i \in DOMAIN args : Says(i, top)})
    IN  IF layers = {} THEN report.exit = 1
        ELSE /\ report.exit = 0 /\ report.source = top
             /\ report.value = SplitOnce[args[last + 1]].value
             /\ report.locked = \E i \in DOMAIN args :
                  Option(i) /\ args[i] = "--lock" /\ ParseLayer(args[i + 1]) = top

(* "BOTH must verify before a bundle is accepted" (signing.rs), and an accepted
   bundle stays accepted whatever signatures are added after those it has. *)
AcceptedIsDualSigned ==
  verdict.answer = "Ok" =>
    /\ \A alg \in {"Ed25519", "MlDsa65"} :
         \E i \in DOMAIN verdict.of : verdict.of[i].alg = alg /\ verdict.of[i].genuine
    /\ \A b \in Bundle : VerifyBundle(verdict.of \o b) = "Ok"
===============================================================================
