------------------------------ MODULE ShellProofs ------------------------------
(* Proofs about the desktop shell, for any bounds: first its session
   (ShellSession), then its copilot panel (CopilotClient). *)
EXTENDS ShellSession, CopilotClient, SharedLemmas, TLAPS


Pref == {"theme", "collapsed"}

Write == [key : Key, value : Mode \cup BOOLEAN, wizard : Nat, rest : Rest]

(* A preference k settles, with writes q, disk d and s on screen: a function in
   flight has yet to write it, or the last write queued for it is of what is
   shown, or none is queued and the disk has what is shown. *)
WillWrite(q, k) == \E i \in DOMAIN q : \E j \in DOMAIN q[i].rest : q[i].rest[j] = k

LastWriteIs(q, k, v) ==
  \A i \in DOMAIN q :
    q[i].key = k /\ (\A j \in DOMAIN q : j > i => q[j].key # k) => q[i].value = v

DiskHas(q, d, k, v) == (\A i \in DOMAIN q : q[i].key # k) => Loaded(d)[k] = v

Settled(q, d, k, v) == WillWrite(q, k) \/ (LastWriteIs(q, k, v) /\ DiskHas(q, d, k, v))

Settling == Up /\ ~lost => \A k \in Pref : Settled(queue, disk, k, shown[k])

Typed == /\ phase \in {"loading", "built", "ready", "failed"}
         /\ shown \in Shown
         /\ queue \in Seq(Write)
         /\ configs \in Seq(Config) /\ (modal = "wizard" => configs # <<>>)
         /\ "theme" \in DOMAIN disk => disk["theme"] \in Mode
         /\ "collapsed" \in DOMAIN disk => disk["collapsed"] \in BOOLEAN
         /\ \A i \in DOMAIN queue : /\ queue[i].key = "theme" => queue[i].value \in Mode
                                    /\ queue[i].key = "collapsed" => queue[i].value \in BOOLEAN

Fresh == phase = "loading" => queue = <<>> /\ lost = FALSE

IInv == Typed /\ Fresh /\ Settling

-------------------------------------------------------------------------------
(* What a function still has to do, one step further. *)
LEMMA RestTail ==
  ASSUME NEW r \in Rest, r # <<>>
  PROVE  /\ Tail(r) \in Rest
         /\ Head(r) \in Key \cup {"close"}
         /\ \A j \in DOMAIN r : r[j] = Head(r) \/ \E i \in DOMAIN Tail(r) : Tail(r)[i] = r[j]
         /\ Head(r) = "close" => \A j \in DOMAIN r : r[j] = "close"
<1>1. CASE r = <<"collapsed">>
  BY <1>1 DEF Rest, Key
<1>2. CASE r = <<"collapsed", "close">>
  BY <1>2 DEF Rest, Key
<1>3. CASE r = <<"theme", "collapsed", "close">>
  BY <1>3 DEF Rest, Key
<1>4. CASE r = <<"close">>
  BY <1>4 DEF Rest, Key
<1>5. CASE r = <<"config", "theme", "collapsed", "close">>
  BY <1>5 DEF Rest, Key
<1> QED
  BY <1>1, <1>2, <1>3, <1>4, <1>5 DEF Rest

LEMMA AppendProps ==
  ASSUME NEW q \in Seq(Write), NEW w \in Write
  PROVE  /\ Append(q, w) \in Seq(Write) /\ Len(q) \in Nat
         /\ DOMAIN q = 1..Len(q) /\ DOMAIN Append(q, w) = 1..(Len(q) + 1)
         /\ \A i \in 1..Len(q) : Append(q, w)[i] = q[i]
         /\ Append(q, w)[Len(q) + 1] = w
<1>1. Len(q) \in Nat /\ DOMAIN q = 1..Len(q)
  BY LenProperties
<1> QED
  BY <1>1

LEMMA TailProps ==
  ASSUME NEW q \in Seq(Write), q # <<>>
  PROVE  /\ Len(q) \in Nat \ {0} /\ DOMAIN q = 1..Len(q)
         /\ Head(q) = q[1] /\ q[1] \in Write
         /\ Tail(q) \in Seq(Write) /\ DOMAIN Tail(q) = 1..(Len(q) - 1)
         /\ \A i \in 1..(Len(q) - 1) : Tail(q)[i] = q[i + 1]
<1>1. Len(q) \in Nat \ {0} /\ DOMAIN q = 1..Len(q)
  BY EmptySeq, LenProperties
<1>2. Tail(q) \in Seq(Write) /\ Len(Tail(q)) = Len(q) - 1 /\ Head(q) \in Write
      /\ \A i \in 1..Len(Tail(q)) : Tail(q)[i] = q[i + 1]
  BY HeadTailProperties
<1>3. DOMAIN Tail(q) = 1..(Len(q) - 1)
  BY <1>2, LenProperties
<1>4. Head(q) = q[1]
  OBVIOUS
<1> QED
  BY <1>1, <1>2, <1>3, <1>4

(* A write that is queued last settles what it is about, or what its function
   has yet to write. *)
LEMMA SettledByAppend ==
  ASSUME NEW q \in Seq(Write), NEW w \in Write, NEW d, NEW k, NEW v,
         \/ \E j \in DOMAIN w.rest : w.rest[j] = k
         \/ w.key = k /\ w.value = v
  PROVE  Settled(Append(q, w), d, k, v)
<1> DEFINE a == Append(q, w)
<1>1. /\ Len(q) \in Nat /\ DOMAIN a = 1..(Len(q) + 1) /\ a[Len(q) + 1] = w
  BY AppendProps
<1> HIDE DEF a
<1>2. CASE \E j \in DOMAIN w.rest : w.rest[j] = k
  <2>1. Len(q) + 1 \in DOMAIN a
    BY <1>1
  <2>2. WillWrite(a, k)
    BY <1>1, <1>2, <2>1 DEF WillWrite
  <2> QED
    BY <2>2 DEF Settled, a
<1>3. CASE w.key = k /\ w.value = v
  <2>1. LastWriteIs(a, k, v)
    <3> SUFFICES ASSUME NEW i \in DOMAIN a, \A j \in DOMAIN a : j > i => a[j].key # k
                 PROVE  a[i].value = v
      BY DEF LastWriteIs
    <3>1. i = Len(q) + 1
      BY <1>1, <1>3
    <3> QED
      BY <3>1, <1>1, <1>3
  <2>2. DiskHas(a, d, k, v)
    BY <1>1, <1>3 DEF DiskHas
  <2> QED
    BY <2>1, <2>2 DEF Settled, a
<1> QED
  BY <1>2, <1>3

(* A write about something else leaves it settled. *)
LEMMA SettledAppendOther ==
  ASSUME NEW q \in Seq(Write), NEW w \in Write, NEW d, NEW k, NEW v,
         Settled(q, d, k, v), w.key # k
  PROVE  Settled(Append(q, w), d, k, v)
<1> DEFINE a == Append(q, w)
<1>1. /\ Len(q) \in Nat /\ DOMAIN q = 1..Len(q) /\ DOMAIN a = 1..(Len(q) + 1)
      /\ \A i \in 1..Len(q) : a[i] = q[i]
      /\ a[Len(q) + 1] = w
  BY AppendProps
<1> HIDE DEF a
<1>2. CASE WillWrite(q, k)
  <2>1. WillWrite(a, k)
    BY <1>1, <1>2 DEF WillWrite
  <2> QED
    BY <2>1 DEF Settled, a
<1>3. CASE LastWriteIs(q, k, v) /\ DiskHas(q, d, k, v)
  <2>1. LastWriteIs(a, k, v)
    <3> SUFFICES ASSUME NEW i \in DOMAIN a, a[i].key = k,
                        \A j \in DOMAIN a : j > i => a[j].key # k
                 PROVE  a[i].value = v
      BY DEF LastWriteIs
    <3>1. i \in 1..Len(q) /\ a[i] = q[i]
      BY <1>1
    <3>2. \A j \in DOMAIN q : j > i => q[j].key # k
      BY <1>1
    <3> QED
      BY <1>1, <1>3, <3>1, <3>2 DEF LastWriteIs
  <2>2. DiskHas(a, d, k, v)
    BY <1>1, <1>3 DEF DiskHas
  <2> QED
    BY <2>1, <2>2 DEF Settled, a
<1> QED
  BY <1>2, <1>3 DEF Settled

(* The disk after a write. *)
LEMMA LoadedAfter ==
  ASSUME NEW d, NEW k \in Pref
  PROVE  \A key, val : /\ key = k => Loaded(Stored(d, key, val))[k] = val
                       /\ key # k => Loaded(Stored(d, key, val))[k] = Loaded(d)[k]
  BY DEF Loaded, Pref, Stored

(* The write at the head commits, and its function has k not before it. *)
LEMMA SettledTail ==
  ASSUME NEW q \in Seq(Write), q # <<>>, NEW d, NEW k \in Pref, NEW v,
         Settled(q, d, k, v), \A j \in DOMAIN Head(q).rest : Head(q).rest[j] # k
  PROVE  Settled(Tail(q), Stored(d, Head(q).key, Head(q).value), k, v)
<1> DEFINE t == Tail(q)
<1> DEFINE e == Stored(d, Head(q).key, Head(q).value)
<1>1. /\ Len(q) \in Nat \ {0} /\ DOMAIN q = 1..Len(q) /\ Head(q) = q[1]
      /\ DOMAIN t = 1..(Len(q) - 1)
      /\ \A i \in 1..(Len(q) - 1) : t[i] = q[i + 1]
  BY TailProps
<1>2. /\ Head(q).key = k => Loaded(e)[k] = Head(q).value
      /\ Head(q).key # k => Loaded(e)[k] = Loaded(d)[k]
  <2> DEFINE key == Head(q).key
             val == Head(q).value
  <2>1. e = Stored(d, key, val)
    OBVIOUS
  <2> HIDE DEF key, val, e
  <2>2. /\ key = k => Loaded(e)[k] = val
        /\ key # k => Loaded(e)[k] = Loaded(d)[k]
    BY <2>1, LoadedAfter
  <2> QED
    BY <2>2 DEF key, val
<1> HIDE DEF t, e
<1>3. CASE WillWrite(q, k)
  <2>1. PICK i \in DOMAIN q : \E j \in DOMAIN q[i].rest : q[i].rest[j] = k
    BY <1>3 DEF WillWrite
  <2>2. i # 1
    BY <1>1, <2>1
  <2>3. i - 1 \in DOMAIN t /\ t[i - 1] = q[i]
    BY <1>1, <2>2
  <2>4. WillWrite(t, k)
    BY <2>1, <2>3 DEF WillWrite
  <2> QED
    BY <2>4 DEF Settled, t, e
<1>4. CASE LastWriteIs(q, k, v) /\ DiskHas(q, d, k, v)
  <2>1. LastWriteIs(t, k, v)
    <3> SUFFICES ASSUME NEW i \in DOMAIN t, t[i].key = k,
                        \A j \in DOMAIN t : j > i => t[j].key # k
                 PROVE  t[i].value = v
      BY DEF LastWriteIs
    <3>1. i + 1 \in DOMAIN q /\ t[i] = q[i + 1]
      BY <1>1
    <3>2. ASSUME NEW j \in DOMAIN q, j > i + 1 PROVE q[j].key # k
      <4>1. j - 1 \in DOMAIN t /\ j - 1 > i /\ t[j - 1] = q[j]
        BY <1>1, <3>2
      <4> QED
        BY <4>1
    <3> QED
      BY <1>4, <3>1, <3>2 DEF LastWriteIs
  <2>2. DiskHas(t, e, k, v)
    <3> SUFFICES ASSUME \A i \in DOMAIN t : t[i].key # k PROVE Loaded(e)[k] = v
      BY DEF DiskHas
    <3>1. ASSUME NEW j \in DOMAIN q, j > 1 PROVE q[j].key # k
      <4>1. j - 1 \in DOMAIN t /\ t[j - 1] = q[j]
        BY <1>1, <3>1
      <4> QED
        BY <4>1
    <3>2. CASE Head(q).key = k
      <4>1. 1 \in DOMAIN q /\ q[1].value = v
        BY <1>1, <1>4, <3>1, <3>2 DEF LastWriteIs
      <4> QED
        BY <1>1, <1>2, <3>2, <4>1
    <3>3. CASE Head(q).key # k
      <4>1. \A i \in DOMAIN q : q[i].key # k
        BY <1>1, <3>1, <3>3
      <4> QED
        BY <1>2, <1>4, <3>3, <4>1 DEF DiskHas
    <3> QED
      BY <3>2, <3>3
  <2> QED
    BY <2>1, <2>2 DEF Settled, t, e
<1> QED
  BY <1>3, <1>4 DEF Settled

-------------------------------------------------------------------------------
LEMMA InitIInv == Init => IInv
<1> SUFFICES ASSUME Init PROVE IInv
  OBVIOUS
<1>1. queue = <<>> /\ DOMAIN queue = {} /\ configs = <<>> /\ DOMAIN disk = {}
  BY DEF Init
<1>2. queue \in Seq(Write) /\ configs \in Seq(Config) /\ shown \in Shown
  BY <1>1 DEF Init, Shown, Default, Mode
<1>3. Typed
  BY <1>1, <1>2 DEF Typed, Init
<1> QED
  BY <1>1, <1>3 DEF Init, IInv, Fresh, Settling, Up

(* An async function reaches its first await with the preferences it changed
   either in this write or ahead of it. *)
LEMMA StartStep ==
  ASSUME IInv, Up, NEW w \in Write, queue' = Append(queue, w),
         UNCHANGED <<phase, disk, lost, configs, modal>>, shown' \in Shown,
         w.key = "theme" => w.value \in Mode, w.key = "collapsed" => w.value \in BOOLEAN,
         \A k \in Pref : \/ \E j \in DOMAIN w.rest : w.rest[j] = k
                         \/ w.key = k /\ w.value = shown'[k]
  PROVE  IInv'
<1>1. queue \in Seq(Write)
  BY DEF IInv, Typed
<1>2. /\ queue' \in Seq(Write) /\ Len(queue) \in Nat
      /\ DOMAIN queue = 1..Len(queue) /\ DOMAIN queue' = 1..(Len(queue) + 1)
      /\ \A i \in 1..Len(queue) : queue'[i] = queue[i]
      /\ queue'[Len(queue) + 1] = w
  BY <1>1, AppendProps
<1>3. Typed'
  BY <1>2 DEF IInv, Typed
<1>4. \A k \in Pref : Settled(queue', disk', k, shown'[k])
  BY <1>1, SettledByAppend
<1>5. Settling'
  BY <1>4 DEF Settling
<1>6. Fresh'
  BY DEF Up, Fresh
<1> QED
  BY <1>3, <1>5, <1>6 DEF IInv

LEMMA ModeType == \A m \in Mode : CycleMode(m) \in Mode
  BY DEF Mode, CycleMode

LEMMA ChangeStep == ASSUME IInv, NEW s \in Shown, Change(s) PROVE IInv'
<1> DEFINE w == [key |-> "theme", value |-> s.theme, wizard |-> 0, rest |-> <<"collapsed">>]
<1>1. /\ Up /\ queue' = Append(queue, w) /\ shown' = s
      /\ UNCHANGED <<phase, disk, lost, configs, modal>>
  BY DEF Change, Start
<1>2. s.theme \in Mode
  BY DEF Shown
<1>3. w \in Write
  BY <1>2 DEF Write, Key, Rest
<1>4. w.rest[1] = "collapsed" /\ 1 \in DOMAIN w.rest
  OBVIOUS
<1>5. w.key = "theme" /\ w.value = s.theme /\ s.theme = s["theme"]
  OBVIOUS
<1> HIDE DEF w
<1>6. \A k \in Pref : \/ \E j \in DOMAIN w.rest : w.rest[j] = k
                      \/ w.key = k /\ w.value = shown'[k]
  BY <1>1, <1>4, <1>5 DEF Pref
<1> QED
  BY <1>1, <1>2, <1>3, <1>5, <1>6, StartStep

LEMMA FinishStep == ASSUME IInv, Finish PROVE IInv'
<1> DEFINE w == [key |-> "onboarded", value |-> TRUE, wizard |-> Current,
                 rest |-> <<"config", "theme", "collapsed", "close">>]
<1>1. /\ Up /\ queue' = Append(queue, w)
      /\ shown' = [shown EXCEPT !.theme = configs[Current].theme]
      /\ UNCHANGED <<phase, disk, lost, configs, modal>>
  BY DEF Finish, Start, InWizard
<1>2. Current \in Nat /\ shown \in Shown
  BY LenProperties DEF IInv, Typed, Current
<1>3. w \in Write
  BY <1>2 DEF Write, Key, Rest
<1>4. /\ 2 \in DOMAIN w.rest /\ w.rest[2] = "theme"
      /\ 3 \in DOMAIN w.rest /\ w.rest[3] = "collapsed"
  OBVIOUS
<1>5. w.key = "onboarded"
  OBVIOUS
<1> HIDE DEF w
<1>6. \A k \in Pref : \E j \in DOMAIN w.rest : w.rest[j] = k
  BY <1>4 DEF Pref
<1>7. shown' \in Shown
  <2>1. configs \in Seq(Config) /\ configs # <<>>
    BY DEF IInv, Typed, Finish, InWizard
  <2>2. configs[Current] \in Config
    BY <2>1, EmptySeq, LenProperties, ElementOfSeq DEF Current
  <2>3. configs[Current].theme \in Mode
    BY <2>2 DEF Config
  <2> QED
    BY <1>1, <1>2, <2>3 DEF Shown
<1> QED
  BY <1>1, <1>3, <1>5, <1>6, <1>7, StartStep

-------------------------------------------------------------------------------
(* A step that leaves the preferences, the writes and the store alone. *)
LEMMA QuietStep ==
  ASSUME IInv, Up, UNCHANGED <<shown, queue, disk, lost>>,
         phase' \in {"built", "ready"}, configs' \in Seq(Config),
         modal' = "wizard" => configs' # <<>>
  PROVE  IInv'
<1>1. Typed'
  BY DEF IInv, Typed
<1>2. Fresh'
  BY DEF Fresh
<1>3. Settling'
  BY DEF IInv, Settling, Up
<1> QED
  BY <1>1, <1>2, <1>3 DEF IInv

LEMMA BuildStep == ASSUME IInv, Build PROVE IInv'
<1>1. /\ phase = "loading" /\ phase' = "built" /\ shown' = Loaded(disk)
      /\ queue = <<>> /\ UNCHANGED <<modal, configs, queue, disk, lost>>
  BY DEF Build, IInv, Fresh
<1>2. shown' \in Shown
  BY <1>1 DEF IInv, Typed, Loaded, Default, Shown, Mode
<1>3. Typed'
  BY <1>1, <1>2 DEF IInv, Typed
<1>4. DOMAIN queue' = {}
  BY <1>1
<1>5. \A k \in Pref : Settled(queue', disk', k, shown'[k])
  BY <1>1, <1>4 DEF Settled, LastWriteIs, DiskHas
<1>6. Settling' /\ Fresh'
  BY <1>1, <1>5 DEF Settling, Fresh
<1> QED
  BY <1>3, <1>6 DEF IInv

LEMMA LoadFailsStep == ASSUME IInv, LoadFails PROVE IInv'
<1>1. /\ phase' = "failed" /\ UNCHANGED <<shown, modal, configs, queue, disk, lost>>
  BY DEF LoadFails
<1>2. Typed'
  BY <1>1 DEF IInv, Typed
<1>3. Settling' /\ Fresh'
  BY <1>1 DEF Settling, Fresh, Up
<1> QED
  BY <1>2, <1>3 DEF IInv

LEMMA WizardProps ==
  ASSUME IInv, Wizard PROVE configs' \in Seq(Config) /\ configs' # <<>>
<1>1. configs \in Seq(Config) /\ DefaultConfig \in Config
  BY DEF IInv, Typed, DefaultConfig, Config, Mode
<1>2. Len(configs) \in Nat
  BY <1>1, LenProperties
<1>3. configs' = Append(configs, DefaultConfig)
  BY DEF Wizard
<1>4. configs' \in Seq(Config) /\ Len(configs') = Len(configs) + 1
  BY <1>1, <1>3, AppendProperties
<1> QED
  BY <1>2, <1>4, EmptySeq

LEMMA CheckOnboardedStep == ASSUME IInv, CheckOnboarded PROVE IInv'
<1>1. /\ Up /\ phase' = "ready" /\ UNCHANGED <<shown, queue, disk, lost>>
      /\ Wizard \/ UNCHANGED <<modal, configs>>
  BY DEF CheckOnboarded, Up
<1>2. configs' \in Seq(Config) /\ (modal' = "wizard" => configs' # <<>>)
  BY <1>1, WizardProps DEF IInv, Typed
<1> QED
  BY <1>1, <1>2, QuietStep

LEMMA OpenWizardStep == ASSUME IInv, OpenWizard PROVE IInv'
<1>1. Up /\ Wizard /\ UNCHANGED <<phase, shown, queue, disk, lost>>
  BY DEF OpenWizard
<1> QED
  BY <1>1, WizardProps, QuietStep DEF Up

LEMMA WizardUpdateStep == ASSUME IInv, WizardUpdate PROVE IInv'
<1>1. Up /\ UNCHANGED <<phase, shown, modal, queue, disk, lost>> /\ configs # <<>>
  BY DEF WizardUpdate, InWizard, IInv, Typed
<1>2. configs \in Seq(Config)
  BY DEF IInv, Typed
<1>3. Len(configs) \in Nat /\ DOMAIN configs = 1..Len(configs)
      /\ \A i \in 1..Len(configs) : configs[i] \in Config
  BY <1>2, LenProperties, ElementOfSeq
<1>4. PICK c \in Config : configs' = [configs EXCEPT ![Current] = c]
  <2>1. Current \in DOMAIN configs /\ configs[Current] \in Config
    BY <1>1, <1>2, <1>3, EmptySeq DEF Current
  <2> DEFINE o == configs[Current]
  <2>2. CASE \E name \in {Unnamed, "Home"} : configs' = [configs EXCEPT ![Current].space = name]
    <3>1. PICK name \in {Unnamed, "Home"} : configs' = [configs EXCEPT ![Current].space = name]
      BY <2>2
    <3>2. [o EXCEPT !.space = name] \in Config
      BY <2>1 DEF Config
    <3>3. configs' = [configs EXCEPT ![Current] = [o EXCEPT !.space = name]]
      BY <3>1
    <3> QED
      BY <3>2, <3>3
  <2>3. CASE \E m \in Mode : configs' = [configs EXCEPT ![Current].theme = m]
    <3>1. PICK m \in Mode : configs' = [configs EXCEPT ![Current].theme = m]
      BY <2>3
    <3>2. [o EXCEPT !.theme = m] \in Config
      BY <2>1 DEF Config
    <3>3. configs' = [configs EXCEPT ![Current] = [o EXCEPT !.theme = m]]
      BY <3>1
    <3> QED
      BY <3>2, <3>3
  <2> QED
    BY <2>2, <2>3 DEF WizardUpdate
<1>5. configs' \in Seq(Config) /\ Len(configs') = Len(configs)
  <2>1. PICK n \in 1..Len(configs) : n = Current
    BY <1>1, <1>2, EmptySeq DEF Current
  <2>2. configs' = [configs EXCEPT ![n] = c]
    BY <1>4, <2>1
  <2>3. /\ [configs EXCEPT ![n] = c] \in Seq(Config)
        /\ Len([configs EXCEPT ![n] = c]) = Len(configs)
    BY <1>2, ExceptSeq
  <2> QED
    BY <2>2, <2>3
<1>6. configs' # <<>>
  BY <1>1, <1>2, <1>5, EmptySeq
<1> QED
  BY <1>1, <1>5, <1>6, QuietStep DEF Up

LEMMA WizardMoveStep ==
  ASSUME IInv, WizardNext \/ WizardBack \/ LeaveWizard PROVE IInv'
<1>1. /\ Up /\ UNCHANGED <<phase, shown, queue, disk, lost, configs>>
      /\ modal' \in {modal, "none"}
  BY DEF WizardNext, WizardBack, LeaveWizard, InWizard
<1>2. configs' \in Seq(Config) /\ (modal' = "wizard" => configs' # <<>>)
  BY <1>1 DEF IInv, Typed
<1> QED
  BY <1>1, <1>2, QuietStep DEF Up

-------------------------------------------------------------------------------
LEMMA TypedAfterPut ==
  ASSUME IInv, Commit \/ Aborts PROVE Typed' /\ Fresh'
<1> DEFINE h == Head(queue)
<1>1. /\ phase \in {"built", "ready"} /\ queue # <<>>
      /\ disk' = Stored(disk, h.key, h.value) \/ disk' = disk
      /\ modal' \in {modal, "none"} /\ UNCHANGED <<phase, shown, configs>>
      /\ queue \in Seq(Write) /\ shown \in Shown
  BY DEF Commit, Aborts, Continues, Up, IInv, Typed
<1>2. /\ Len(queue) \in Nat \ {0} /\ DOMAIN queue = 1..Len(queue)
      /\ h = queue[1] /\ queue[1] \in Write
      /\ Tail(queue) \in Seq(Write) /\ DOMAIN Tail(queue) = 1..(Len(queue) - 1)
      /\ \A i \in 1..(Len(queue) - 1) : Tail(queue)[i] = queue[i + 1]
  BY <1>1, TailProps
<1> DEFINE WriteTyped(x) == /\ x.key = "theme" => x.value \in Mode
                            /\ x.key = "collapsed" => x.value \in BOOLEAN
<1>3. \A i \in DOMAIN queue : WriteTyped(queue[i])
  BY DEF IInv, Typed
<1>4. \A i \in DOMAIN Tail(queue) : WriteTyped(Tail(queue)[i])
  <2>1. \A i \in DOMAIN Tail(queue) : i + 1 \in DOMAIN queue /\ Tail(queue)[i] = queue[i + 1]
    BY <1>2
  <2> HIDE DEF WriteTyped
  <2> QED
    BY <1>3, <2>1
<1>5. queue' \in Seq(Write) /\ \A i \in DOMAIN queue' : WriteTyped(queue'[i])
  <2>1. CASE h.rest = <<>> \/ Head(h.rest) = "close"
    <3>1. queue' = Tail(queue)
      BY <2>1 DEF Commit, Aborts, Continues
    <3> QED
      BY <1>2, <1>4, <3>1
  <2>2. CASE h.rest # <<>> /\ Head(h.rest) # "close"
    <3> DEFINE n == [key |-> Head(h.rest), value |-> ValueOf(Head(h.rest), h.wizard),
                     wizard |-> h.wizard, rest |-> Tail(h.rest)]
               t == Tail(queue)
    <3>1. queue' = Append(t, n)
      BY <2>2 DEF Commit, Aborts, Continues
    <3>2. h.rest \in Rest /\ h.wizard \in Nat
      BY <1>2 DEF Write
    <3>3. Head(h.rest) \in Key /\ Tail(h.rest) \in Rest
      BY <2>2, <3>2, RestTail
    <3>4. /\ \A x \in Key : ValueOf(x, h.wizard) \in Mode \cup BOOLEAN
          /\ ValueOf("theme", h.wizard) \in Mode
          /\ ValueOf("collapsed", h.wizard) \in BOOLEAN
      BY <1>1 DEF Key, ValueOf, Shown
    <3>5. n \in Write /\ WriteTyped(n)
      <4>1. n \in Write
        BY <3>2, <3>3, <3>4 DEF Write
      <4>2. n.key = "theme" => n.value = ValueOf("theme", h.wizard)
        OBVIOUS
      <4>3. n.key = "collapsed" => n.value = ValueOf("collapsed", h.wizard)
        OBVIOUS
      <4> HIDE DEF n, h
      <4> QED
        BY <3>4, <4>1, <4>2, <4>3
    <3> HIDE DEF n, t, WriteTyped
    <3>6. t \in Seq(Write) /\ \A i \in DOMAIN t : WriteTyped(t[i])
      BY <1>2, <1>4 DEF t
    <3>7. /\ Append(t, n) \in Seq(Write) /\ Len(t) \in Nat
          /\ DOMAIN t = 1..Len(t) /\ DOMAIN Append(t, n) = 1..(Len(t) + 1)
          /\ \A i \in 1..Len(t) : Append(t, n)[i] = t[i]
          /\ Append(t, n)[Len(t) + 1] = n
      BY <3>5, <3>6, AppendProps
    <3> QED
      BY <3>1, <3>5, <3>6, <3>7
  <2> QED
    BY <2>1, <2>2
<1>6. /\ "theme" \in DOMAIN disk' => disk'["theme"] \in Mode
      /\ "collapsed" \in DOMAIN disk' => disk'["collapsed"] \in BOOLEAN
  <2>1. WriteTyped(h) /\ /\ "theme" \in DOMAIN disk => disk["theme"] \in Mode
                         /\ "collapsed" \in DOMAIN disk => disk["collapsed"] \in BOOLEAN
    BY <1>2, <1>3 DEF IInv, Typed
  <2> HIDE DEF h
  <2> QED
    BY <1>1, <2>1 DEF Stored
<1>7. configs \in Seq(Config) /\ (modal = "wizard" => configs # <<>>)
  BY DEF IInv, Typed
<1> HIDE DEF h
<1>8. Typed'
  BY <1>1, <1>5, <1>6, <1>7 DEF Typed
<1> QED
  BY <1>1, <1>8 DEF Fresh

LEMMA CommitStep == ASSUME IInv, Commit PROVE IInv'
<1> DEFINE h == Head(queue)
           t == Tail(queue)
<1>1. /\ Up /\ queue # <<>> /\ disk' = Stored(disk, h.key, h.value)
      /\ UNCHANGED <<phase, shown, lost>> /\ queue \in Seq(Write)
  BY DEF Commit, Continues, IInv, Typed
<1>2. h \in Write /\ h.rest \in Rest /\ h.wizard \in Nat /\ t \in Seq(Write)
  BY <1>1, TailProps DEF Write
<1>3. Typed' /\ Fresh'
  BY TypedAfterPut
<1>4. ASSUME ~lost, NEW k \in Pref PROVE Settled(queue', disk', k, shown[k])
  <2>1. Settled(queue, disk, k, shown[k])
    BY <1>1, <1>4 DEF IInv, Settling
  <2>2. ASSUME \A j \in DOMAIN h.rest : h.rest[j] # k
        PROVE  Settled(t, disk', k, shown[k])
    BY <1>1, <2>1, <2>2, SettledTail
  <2>3. CASE h.rest = <<>> \/ Head(h.rest) = "close"
    <3>1. queue' = t
      BY <2>3 DEF Commit, Continues
    <3>2. CASE h.rest = <<>>
      BY <2>2, <3>1, <3>2
    <3>3. CASE h.rest # <<>> /\ Head(h.rest) = "close"
      <4>1. \A j \in DOMAIN h.rest : h.rest[j] = "close"
        BY <1>2, <3>3, RestTail
      <4> QED
        BY <2>2, <3>1, <4>1 DEF Pref
    <3> QED
      BY <2>3, <3>2, <3>3
  <2>4. CASE h.rest # <<>> /\ Head(h.rest) # "close"
    <3> DEFINE n == [key |-> Head(h.rest), value |-> ValueOf(Head(h.rest), h.wizard),
                     wizard |-> h.wizard, rest |-> Tail(h.rest)]
    <3>1. queue' = Append(t, n)
      BY <2>4 DEF Commit, Continues
    <3>2. /\ Tail(h.rest) \in Rest /\ Head(h.rest) \in Key
          /\ \A j \in DOMAIN h.rest :
               h.rest[j] = Head(h.rest) \/ \E i \in DOMAIN Tail(h.rest) : Tail(h.rest)[i] = h.rest[j]
      BY <1>2, <2>4, RestTail
    <3>3. \A x \in Key : ValueOf(x, h.wizard) \in Mode \cup BOOLEAN
      BY DEF IInv, Typed, Key, ValueOf, Shown
    <3>4. n \in Write
      BY <1>2, <3>2, <3>3 DEF Write
    <3>5. n.rest = Tail(h.rest) /\ n.key = Head(h.rest)
      OBVIOUS
    <3>6. n.key = k => n.value = shown[k]
      BY DEF ValueOf, Pref
    <3> HIDE DEF n
    <3>7. CASE n.key = k \/ \E j \in DOMAIN n.rest : n.rest[j] = k
      <4>1. Settled(Append(t, n), disk', k, shown[k])
        BY <1>2, <3>4, <3>6, <3>7, SettledByAppend
      <4> QED
        BY <3>1, <4>1
    <3>8. CASE n.key # k /\ \A j \in DOMAIN n.rest : n.rest[j] # k
      <4>1. \A j \in DOMAIN h.rest : h.rest[j] # k
        BY <3>2, <3>5, <3>8
      <4>2. Settled(t, disk', k, shown[k])
        BY <2>2, <4>1
      <4>3. Settled(Append(t, n), disk', k, shown[k])
        BY <1>2, <3>4, <3>8, <4>2, SettledAppendOther
      <4> QED
        BY <3>1, <4>3
    <3> QED
      BY <3>7, <3>8
  <2> QED
    BY <2>3, <2>4
<1>5. Settling'
  BY <1>1, <1>4 DEF Settling
<1> QED
  BY <1>3, <1>5 DEF IInv

LEMMA AbortsStep == ASSUME IInv, Aborts PROVE IInv'
<1>1. lost' = TRUE /\ phase' = phase /\ Typed' /\ Fresh'
  BY TypedAfterPut DEF Aborts, Continues
<1> QED
  BY <1>1 DEF IInv, Settling

LEMMA PutFailsStep == ASSUME IInv, PutFails PROVE IInv'
<1>1. /\ phase \in {"built", "ready"} /\ queue # <<>> /\ queue' = Tail(queue) /\ lost' = TRUE
      /\ UNCHANGED <<phase, shown, modal, configs, disk>> /\ queue \in Seq(Write)
  BY DEF PutFails, Up, IInv, Typed
<1>2. /\ Len(queue) \in Nat \ {0} /\ DOMAIN queue = 1..Len(queue)
      /\ queue' \in Seq(Write) /\ DOMAIN queue' = 1..(Len(queue) - 1)
      /\ \A i \in 1..(Len(queue) - 1) : queue'[i] = queue[i + 1]
  BY <1>1, TailProps
<1>3. \A i \in DOMAIN queue' : i + 1 \in DOMAIN queue /\ queue'[i] = queue[i + 1]
  BY <1>2
<1>4. Typed'
  BY <1>1, <1>2, <1>3 DEF IInv, Typed
<1> QED
  BY <1>1, <1>4 DEF IInv, Settling, Fresh

LEMMA RestartStep == ASSUME IInv, Restart PROVE IInv'
<1>1. /\ phase' = "loading" /\ shown' = Default /\ modal' = "none"
      /\ configs' = <<>> /\ queue' = <<>> /\ lost' = FALSE /\ disk' = disk
      /\ DOMAIN queue' = {}
  BY DEF Restart
<1>2. queue' \in Seq(Write) /\ configs' \in Seq(Config) /\ shown' \in Shown
  BY <1>1 DEF Shown, Default, Mode
<1>3. Typed'
  BY <1>1, <1>2 DEF IInv, Typed
<1> QED
  BY <1>1, <1>3 DEF IInv, Fresh, Settling, Up

-------------------------------------------------------------------------------
LEMMA NextIInv == ASSUME IInv, [Next]_vars PROVE IInv'
<1>1. CASE CycleTheme
  <2>1. [shown EXCEPT !.theme = CycleMode(@)] \in Shown
    BY ModeType DEF IInv, Typed, Shown
  <2> QED
    BY <1>1, <2>1, ChangeStep DEF CycleTheme
<1>2. CASE ToggleSidebar
  <2>1. [shown EXCEPT !.collapsed = ~@] \in Shown
    BY DEF IInv, Typed, Shown
  <2> QED
    BY <1>2, <2>1, ChangeStep DEF ToggleSidebar
<1>3. CASE UNCHANGED vars
  BY <1>3 DEF vars, IInv, Typed, Fresh, Settling, Up
<1> QED
  BY <1>1, <1>2, <1>3, BuildStep, LoadFailsStep, CheckOnboardedStep, OpenWizardStep,
     WizardUpdateStep, WizardMoveStep, FinishStep, CommitStep, AbortsStep, PutFailsStep,
     RestartStep
     DEF Next

(* In every state the preferences settle: what is on screen is on disk, or is
   the last write of its key in flight, or a function in flight will write it,
   unless a put has failed (App.savePrefs, App.finishWizard). *)
THEOREM PreferencesSettle == Spec => []Settling
<1>1. IInv => Settling
  BY DEF IInv
<1> QED
  BY <1>1, InitIInv, NextIInv, PTL DEF Spec

(* With nothing in flight and no failed put, a restart shows the theme and the
   sidebar as they are on screen, for any number of edits, wizards and writes in
   flight. *)
THEOREM RestartSafe == Spec => []RestartShowsTheSame
<1>1. IInv => RestartShowsTheSame
  <2> SUFFICES ASSUME IInv, Up, queue = <<>>, ~lost PROVE Loaded(disk) = shown
    BY DEF RestartShowsTheSame
  <2>1. DOMAIN queue = {} /\ shown \in Shown
    BY DEF IInv, Typed
  <2>2. \A k \in Pref : Loaded(disk)[k] = shown[k]
    BY <2>1 DEF IInv, Settling, Settled, WillWrite, DiskHas
  <2>3. shown = [theme |-> shown["theme"], collapsed |-> shown["collapsed"]]
    BY <2>1 DEF Shown
  <2> QED
    BY <2>2, <2>3 DEF Loaded, Pref
<1> QED
  BY <1>1, InitIInv, NextIInv, PTL DEF Spec

-------------------------------------------------------------------------------
(* The wizard on screen: past the profile page its space has a name, whether or
   not the window is up. *)
PastProfileNamed == modal = "wizard" /\ step > 1 => configs[Current].space # Unnamed

WizardInv == IInv /\ step \in Nat /\ PastProfileNamed

LEMMA UpdateKeepsName ==
  ASSUME IInv, PastProfileNamed, WizardUpdate PROVE PastProfileNamed'
<1> SUFFICES ASSUME step > 1 PROVE configs'[Current'].space # Unnamed
  BY DEF WizardUpdate, PastProfileNamed
<1>1. modal = "wizard" /\ configs \in Seq(Config) /\ configs # <<>>
  BY DEF WizardUpdate, InWizard, IInv, Typed
<1>2. Len(configs) \in Nat \ {0} /\ DOMAIN configs = 1..Len(configs)
  BY <1>1, LenProperties, EmptySeq
<1>3. PICK m \in Mode : configs' = [configs EXCEPT ![Current].theme = m]
  BY DEF WizardUpdate
<1>4. configs[Current] \in Config
  BY <1>1, <1>2, ElementOfSeq DEF Current
<1>5. Len(configs') = Len(configs)
  BY <1>2, <1>3
<1>6. configs'[Current].space = configs[Current].space
  BY <1>2, <1>3, <1>4 DEF Current, Config
<1> QED
  BY <1>1, <1>5, <1>6 DEF Current, PastProfileNamed

LEMMA WizardInvStep == ASSUME WizardInv, [Next]_vars PROVE WizardInv'
<1>1. IInv'
  BY NextIInv DEF WizardInv
<1>2. CASE WizardUpdate
  BY <1>1, <1>2, UpdateKeepsName DEF WizardInv, WizardUpdate
<1>3. CASE WizardNext
  BY <1>1, <1>3 DEF WizardInv, WizardNext, CanAdvance, PastProfileNamed, Current
<1>4. CASE WizardBack
  BY <1>1, <1>4 DEF WizardInv, WizardBack, PastProfileNamed, Current
<1>5. CASE CheckOnboarded \/ OpenWizard
  BY <1>1, <1>5 DEF WizardInv, CheckOnboarded, OpenWizard, Wizard, PastProfileNamed, Current
<1>6. CASE Commit \/ Aborts
  BY <1>1, <1>6 DEF WizardInv, Commit, Aborts, Continues, PastProfileNamed, Current
<1>7. CASE LeaveWizard \/ Restart
  BY <1>1, <1>7 DEF WizardInv, LeaveWizard, Restart, PastProfileNamed
<1>8. CASE Build \/ LoadFails \/ CycleTheme \/ ToggleSidebar \/ Finish \/ PutFails
           \/ UNCHANGED vars
  BY <1>1, <1>8
  DEF WizardInv, PastProfileNamed, Current, Build, LoadFails, CycleTheme, ToggleSidebar, Change,
      Finish, PutFails, vars
<1> QED
  BY <1>2, <1>3, <1>4, <1>5, <1>6, <1>7, <1>8 DEF Next

(* Nobody passes the profile page without a space name, however they go back and
   forth, with any number of wizards and with writes in flight (CanAdvance in
   SetupWizard.next). *)
THEOREM SpaceIsNamed == Spec => []RequiredFieldFilled
<1>1. Init => WizardInv
  BY InitIInv DEF Init, WizardInv, PastProfileNamed
<1>2. WizardInv => RequiredFieldFilled
  BY DEF WizardInv, PastProfileNamed, RequiredFieldFilled, InWizard
<1> QED
  BY <1>1, <1>2, WizardInvStep, PTL DEF Spec

-------------------------------------------------------------------------------
(* The copilot panel.  The invariant is Numbering. *)
CopilotInv == CopilotTypeOK /\ Numbering

LEMMA CopilotInitInv == CopilotInit => CopilotInv
<1> SUFFICES ASSUME CopilotInit PROVE CopilotInv
  OBVIOUS
<1>1. /\ inbox = <<>> /\ outbox = <<>> /\ stream = <<>>
      /\ Len(inbox) = 0 /\ Len(outbox) = 0
      /\ DOMAIN inbox = 1..0 /\ DOMAIN outbox = 1..0
  BY DEF CopilotInit
<1>2. inbox \in Seq(Request) /\ outbox \in Seq(Response) /\ stream \in Seq(Bubble)
  BY <1>1
<1>3. CopilotTypeOK
  <2>1. worker \in {"none", "alive", "dead"} /\ open \in BOOLEAN
    BY DEF CopilotInit
  <2>2. seq \in 0..MaxCalls /\ asked \in Question /\ pending \subseteq 1..MaxCalls
    BY CopilotBounds DEF CopilotInit, Question
  <2> QED
    BY <1>2, <2>1, <2>2 DEF CopilotTypeOK
<1>4. Numbering
  BY <1>1 DEF CopilotInit, Numbering
<1> QED
  BY <1>3, <1>4 DEF CopilotInv

(* What Call appends to the inbox. *)
Posted(kinds, q, first) ==
  [i \in DOMAIN kinds |-> [id |-> first + i, kind |-> kinds[i], question |-> q]]

LEMMA PostedType ==
  ASSUME NEW kinds \in Seq(Kind), NEW q \in Question, NEW first \in Nat,
         first + Len(kinds) <= MaxCalls
  PROVE  /\ Posted(kinds, q, first) \in Seq(Request)
         /\ Len(Posted(kinds, q, first)) = Len(kinds)
         /\ \A i \in 1..Len(kinds) : Posted(kinds, q, first)[i].id = first + i
<1>1. Len(kinds) \in Nat /\ DOMAIN kinds = 1..Len(kinds) /\ \A i \in 1..Len(kinds) : kinds[i] \in Kind
  BY LenProperties
<1>2. \A i \in 1..Len(kinds) :
        [id |-> first + i, kind |-> kinds[i], question |-> q] \in Request
  BY <1>1, CopilotBounds DEF Request
<1>3. Posted(kinds, q, first) \in [1..Len(kinds) -> Request]
  BY <1>1, <1>2 DEF Posted
<1>4. Posted(kinds, q, first) \in Seq(Request)
  BY <1>1, <1>3
<1> QED
  BY <1>1, <1>3, <1>4 DEF Posted

(* Call keeps the numbering. *)
LEMMA CallStep ==
  ASSUME CopilotInv, NEW kinds \in Seq(Kind), NEW q \in Question, Call(kinds, q),
         UNCHANGED outbox
  PROVE  /\ seq' \in 0..MaxCalls /\ pending' \subseteq 1..MaxCalls
         /\ inbox' \in Seq(Request) /\ Numbering'
<1> DEFINE new == Posted(kinds, q, seq)
<1>1. /\ seq + Len(kinds) <= MaxCalls /\ seq' = seq + Len(kinds)
      /\ pending' = pending \cup (seq + 1)..(seq + Len(kinds))
      /\ inbox' = inbox \o new
  BY DEF Call, Posted
<1>2. /\ seq \in Nat /\ inbox \in Seq(Request) /\ Len(inbox) \in Nat
      /\ outbox \in Seq(Response) /\ Len(outbox) \in Nat /\ Len(kinds) \in Nat
      /\ pending \subseteq 1..MaxCalls /\ MaxCalls \in Nat
  BY CopilotBounds, LenProperties DEF CopilotInv, CopilotTypeOK
<1>3. /\ new \in Seq(Request) /\ Len(new) = Len(kinds)
      /\ \A i \in 1..Len(kinds) : new[i].id = seq + i
  BY <1>1, <1>2, PostedType
<1> HIDE DEF new
<1>4. /\ inbox' \in Seq(Request) /\ Len(inbox') = Len(inbox) + Len(kinds)
      /\ DOMAIN inbox' = 1..(Len(inbox) + Len(kinds))
      /\ \A i \in 1..(Len(inbox) + Len(kinds)) :
           inbox'[i] = IF i <= Len(inbox) THEN inbox[i] ELSE new[i - Len(inbox)]
  <2>1. /\ inbox \o new \in Seq(Request) /\ Len(inbox \o new) = Len(inbox) + Len(new)
        /\ \A i \in 1..(Len(inbox) + Len(new)) :
             (inbox \o new)[i] = IF i <= Len(inbox) THEN inbox[i] ELSE new[i - Len(inbox)]
    BY <1>2, <1>3, ConcatProperties
  <2>2. DOMAIN (inbox \o new) = 1..(Len(inbox) + Len(new))
    BY <2>1, LenProperties
  <2> QED
    BY <1>1, <1>3, <2>1, <2>2
<1>5. seq' \in 0..MaxCalls /\ pending' \subseteq 1..MaxCalls
  <2>1. seq' \in 0..MaxCalls
    BY <1>1, <1>2
  <2>2. (seq + 1)..(seq + Len(kinds)) \subseteq 1..MaxCalls
    BY <1>1, <1>2
  <2> QED
    BY <1>1, <1>2, <2>1, <2>2
<1>6. Numbering'
  <2> DEFINE answered == seq - Len(inbox) - Len(outbox)
  <2>1. /\ answered \in Nat
        /\ \A i \in 1..Len(inbox) : inbox[i].id = answered + Len(outbox) + i
        /\ \A i \in DOMAIN outbox : outbox[i].id = answered + i
        /\ pending = (answered + 1)..seq
    BY <1>2, LenProperties DEF CopilotInv, Numbering
  <2>2. seq' - Len(inbox') - Len(outbox') = answered
    BY <1>1, <1>2, <1>4
  <2>3. \A i \in DOMAIN inbox' : inbox'[i].id = answered + Len(outbox) + i
    <3> SUFFICES ASSUME NEW i \in 1..(Len(inbox) + Len(kinds))
                 PROVE  inbox'[i].id = answered + Len(outbox) + i
      BY <1>4
    <3>1. CASE i <= Len(inbox)
      BY <3>1, <1>2, <1>4, <2>1
    <3>2. CASE i > Len(inbox)
      <4>1. i - Len(inbox) \in 1..Len(kinds)
        BY <3>2, <1>2
      <4>2. inbox'[i].id = seq + (i - Len(inbox))
        <5>1. inbox'[i] = new[i - Len(inbox)]
          BY <3>2, <1>2, <1>4
        <5>2. new[i - Len(inbox)].id = seq + (i - Len(inbox))
          BY <4>1, <1>3
        <5> QED
          BY <5>1, <5>2
      <4> QED
        BY <4>2, <1>2
    <3> QED
      BY <3>1, <3>2, <1>2
  <2>4. pending' = (answered + 1)..seq'
    BY <1>1, <1>2, <2>1
  <2>5. outbox' = outbox /\ answered >= 0
    BY <2>1
  <2> HIDE DEF answered
  <2> QED
    BY <2>1, <2>2, <2>3, <2>4, <2>5 DEF Numbering
<1> QED
  BY <1>4, <1>5, <1>6

(* What toggleCopilot, askCopilot and a reply add to the panel are bubbles. *)
LEMMA SayType ==
  ASSUME NEW role \in {"me", "ai", "suggest"}, NEW q \in Question
  PROVE  Say(role, q) \in Seq(Bubble)
  BY DEF Say, Bubble

LEMMA GreetedType == CopilotTypeOK => Greeted \in Seq(Bubble)
  BY SayType, CopilotBounds DEF CopilotTypeOK, Greeted, Question

LEMMA BubblesConcat ==
  ASSUME NEW s \in Seq(Bubble), NEW t \in Seq(Bubble)
  PROVE  s \o t \in Seq(Bubble)
  BY ConcatProperties

(* The calls that one task of the main thread makes. *)
LEMMA KindsType ==
  /\ <<"chips", "ask">> \in Seq(Kind)
  /\ <<"chips">> \in Seq(Kind)
  /\ <<"nudge">> \in Seq(Kind)
<1>1. "chips" \in Kind /\ "ask" \in Kind /\ "nudge" \in Kind
  BY DEF Kind
<1> QED
  BY <1>1

(* A step that calls at most once per task and touches nothing else that the
   numbering speaks of. *)
LEMMA MainStep ==
  ASSUME CopilotInv,
         NoCall \/ \E kinds \in Seq(Kind), q \in Question : Call(kinds, q),
         UNCHANGED <<worker, outbox>>,
         open' \in BOOLEAN, asked' \in Question, stream' \in Seq(Bubble)
  PROVE  CopilotInv'
<1>1. CASE NoCall
  BY <1>1 DEF NoCall, CopilotInv, CopilotTypeOK, Numbering
<1>2. CASE \E kinds \in Seq(Kind), q \in Question : Call(kinds, q)
  <2>1. PICK kinds \in Seq(Kind), q \in Question : Call(kinds, q)
    BY <1>2
  <2>2. /\ seq' \in 0..MaxCalls /\ pending' \subseteq 1..MaxCalls
        /\ inbox' \in Seq(Request) /\ Numbering'
    BY <2>1, CallStep
  <2> QED
    BY <2>2 DEF CopilotInv, CopilotTypeOK
<1> QED
  BY <1>1, <1>2

LEMMA AskStep == ASSUME CopilotInv, Ask PROVE CopilotInv'
<1>1. asked + 1 \in Question /\ asked' = asked + 1 /\ open' = TRUE /\ UNCHANGED <<worker, outbox>>
  BY CopilotBounds DEF Ask, CopilotInv, CopilotTypeOK, Question
<1>2. /\ Greeted \in Seq(Bubble) /\ Say("me", asked + 1) \in Seq(Bubble)
      /\ Say("ai", asked + 1) \in Seq(Bubble)
  BY <1>1, GreetedType, SayType DEF CopilotInv
<1>3. Greeted \o Say("me", asked + 1) \in Seq(Bubble)
  BY <1>2, BubblesConcat
<1>4. Greeted \o Say("me", asked + 1) \o Say("ai", asked + 1) \in Seq(Bubble)
  BY <1>2, <1>3, BubblesConcat
<1>5. stream' \in Seq(Bubble)
  BY <1>3, <1>4 DEF Ask
<1>6. NoCall \/ \E kinds \in Seq(Kind), q \in Question : Call(kinds, q)
  BY <1>1, KindsType DEF Ask
<1> QED
  BY <1>1, <1>5, <1>6, MainStep

LEMMA ToggleStep == ASSUME CopilotInv, NEW force \in BOOLEAN, Toggle(force) PROVE CopilotInv'
<1>1. open' \in BOOLEAN /\ UNCHANGED <<worker, outbox, asked>>
  BY DEF Toggle
<1>2. stream' \in Seq(Bubble) /\ asked' \in Question /\ 0 \in Question
  BY <1>1, GreetedType, CopilotBounds DEF Toggle, CopilotInv, CopilotTypeOK, Question
<1>3. NoCall \/ \E kinds \in Seq(Kind), q \in Question : Call(kinds, q)
  BY <1>2, KindsType DEF Toggle
<1> QED
  BY <1>1, <1>2, <1>3, MainStep

LEMMA NudgeStep == ASSUME CopilotInv, Nudge PROVE CopilotInv'
<1>1. UNCHANGED <<worker, outbox, open, asked>> /\ 0 \in Question
  BY CopilotBounds DEF Nudge, Question
<1>2. open' \in BOOLEAN /\ asked' \in Question /\ stream \in Seq(Bubble)
  BY <1>1 DEF CopilotInv, CopilotTypeOK
<1>3. stream \o Say("suggest", 0) \in Seq(Bubble)
  BY <1>1, <1>2, SayType, BubblesConcat
<1>4. stream' \in Seq(Bubble)
  BY <1>2, <1>3 DEF Nudge
<1>5. NoCall \/ \E kinds \in Seq(Kind), q \in Question : Call(kinds, q)
  BY <1>1, KindsType DEF Nudge
<1> QED
  BY <1>1, <1>2, <1>4, <1>5, MainStep

LEMMA WorkerDiesStep == ASSUME CopilotInv, WorkerDies PROVE CopilotInv'
  BY DEF WorkerDies, CopilotInv, CopilotTypeOK, Numbering

(* The head of a channel leaves it. *)
LEMMA TailChannel ==
  ASSUME NEW S, NEW s \in Seq(S), s # <<>>
  PROVE  /\ Len(s) \in Nat \ {0} /\ DOMAIN s = 1..Len(s) /\ Head(s) = s[1] /\ s[1] \in S
         /\ Tail(s) \in Seq(S) /\ Len(Tail(s)) = Len(s) - 1
         /\ DOMAIN Tail(s) = 1..(Len(s) - 1)
         /\ \A i \in 1..(Len(s) - 1) : Tail(s)[i] = s[i + 1]
<1>1. Len(s) \in Nat \ {0} /\ DOMAIN s = 1..Len(s)
  BY EmptySeq, LenProperties
<1>2. Tail(s) \in Seq(S) /\ Len(Tail(s)) = Len(s) - 1 /\ Head(s) \in S
      /\ \A i \in 1..Len(Tail(s)) : Tail(s)[i] = s[i + 1]
  BY HeadTailProperties
<1>3. DOMAIN Tail(s) = 1..(Len(s) - 1)
  BY <1>2, LenProperties
<1>4. Head(s) = s[1]
  OBVIOUS
<1> QED
  BY <1>1, <1>2, <1>3, <1>4

LEMMA WorkerStepStep == ASSUME CopilotInv, WorkerStep PROVE CopilotInv'
<1>1. PICK item \in BOOLEAN :
        outbox' = Append(outbox, [id |-> Head(inbox).id, kind |-> Head(inbox).kind,
                                  question |-> Head(inbox).question, item |-> item])
  BY DEF WorkerStep
<1> DEFINE r == [id |-> Head(inbox).id, kind |-> Head(inbox).kind,
                 question |-> Head(inbox).question, item |-> item]
<1>2. /\ inbox # <<>> /\ inbox' = Tail(inbox)
      /\ UNCHANGED <<worker, seq, pending, open, asked, stream>>
  BY DEF WorkerStep
<1>3. inbox \in Seq(Request) /\ outbox \in Seq(Response)
  BY DEF CopilotInv, CopilotTypeOK
<1>4. /\ Len(inbox) \in Nat \ {0} /\ DOMAIN inbox = 1..Len(inbox)
      /\ Head(inbox) = inbox[1] /\ inbox[1] \in Request
      /\ Tail(inbox) \in Seq(Request) /\ Len(Tail(inbox)) = Len(inbox) - 1
      /\ DOMAIN Tail(inbox) = 1..(Len(inbox) - 1)
      /\ \A i \in 1..(Len(inbox) - 1) : Tail(inbox)[i] = inbox[i + 1]
  BY <1>2, <1>3, TailChannel
<1>5. r \in Response /\ r.id = inbox[1].id
  BY <1>4 DEF Request, Response
<1>6. Len(outbox) \in Nat /\ DOMAIN outbox = 1..Len(outbox)
  BY <1>3, LenProperties
<1> HIDE DEF r
<1>7. /\ outbox' \in Seq(Response) /\ Len(outbox') = Len(outbox) + 1
      /\ DOMAIN outbox' = 1..(Len(outbox) + 1)
      /\ \A i \in 1..Len(outbox) : outbox'[i] = outbox[i]
      /\ outbox'[Len(outbox) + 1] = r
  <2>1. outbox' = Append(outbox, r)
    BY <1>1 DEF r
  <2> QED
    BY <2>1, <1>3, <1>5, <1>6
<1>8. CopilotTypeOK'
  BY <1>2, <1>4, <1>7 DEF CopilotInv, CopilotTypeOK
<1>9. Numbering'
  <2> DEFINE answered == seq - Len(inbox) - Len(outbox)
  <2>1. /\ answered >= 0 /\ seq \in Nat
        /\ \A i \in DOMAIN inbox : inbox[i].id = answered + Len(outbox) + i
        /\ \A i \in DOMAIN outbox : outbox[i].id = answered + i
        /\ pending = (answered + 1)..seq
    BY CopilotBounds DEF CopilotInv, CopilotTypeOK, Numbering
  <2>2. seq' - Len(inbox') - Len(outbox') = answered /\ answered \in Nat
    BY <1>2, <1>4, <1>6, <1>7, <2>1
  <2>3. \A i \in DOMAIN inbox' : inbox'[i].id = answered + Len(outbox') + i
    <3> SUFFICES ASSUME NEW i \in 1..(Len(inbox) - 1)
                 PROVE  inbox'[i].id = answered + Len(outbox') + i
      BY <1>2, <1>4
    <3>1. inbox'[i] = inbox[i + 1] /\ i + 1 \in DOMAIN inbox
      BY <1>2, <1>4
    <3>2. inbox[i + 1].id = answered + Len(outbox) + (i + 1)
      BY <3>1, <2>1
    <3>3. answered + Len(outbox) + (i + 1) = answered + Len(outbox') + i
      <4> HIDE DEF answered
      <4> QED
        BY <1>6, <1>7, <2>2
    <3> QED
      BY <3>1, <3>2, <3>3
  <2>4. \A i \in DOMAIN outbox' : outbox'[i].id = answered + i
    <3> SUFFICES ASSUME NEW i \in 1..(Len(outbox) + 1)
                 PROVE  outbox'[i].id = answered + i
      BY <1>7
    <3>1. CASE i \in DOMAIN outbox
      BY <3>1, <1>6, <1>7, <2>1
    <3>2. CASE i = Len(outbox) + 1
      <4>1. outbox'[i].id = inbox[1].id
        BY <3>2, <1>5, <1>7
      <4>2. inbox[1].id = answered + Len(outbox) + 1
        BY <1>4, <2>1
      <4> QED
        BY <4>1, <4>2, <3>2, <1>6, <2>2
    <3> QED
      BY <3>1, <3>2, <1>6
  <2> HIDE DEF answered
  <2> QED
    BY <1>2, <2>1, <2>2, <2>3, <2>4 DEF Numbering
<1> QED
  BY <1>8, <1>9 DEF CopilotInv

(* The reply that arrives is the oldest call on its way: its promise is there,
   and it is the one that is forgotten. *)
LEMMA DeliverStep == ASSUME CopilotInv, Deliver PROVE CopilotInv'
<1> DEFINE answered == seq - Len(inbox) - Len(outbox)
<1>1. /\ outbox # <<>> /\ outbox' = Tail(outbox)
      /\ UNCHANGED <<worker, seq, inbox, open, asked>>
  BY DEF Deliver
<1>2. /\ inbox \in Seq(Request) /\ outbox \in Seq(Response) /\ stream \in Seq(Bubble)
      /\ seq \in Nat /\ pending \subseteq 1..MaxCalls
  BY CopilotBounds DEF CopilotInv, CopilotTypeOK
<1>3. /\ Len(outbox) \in Nat \ {0} /\ DOMAIN outbox = 1..Len(outbox)
      /\ Head(outbox) = outbox[1] /\ outbox[1] \in Response
      /\ Tail(outbox) \in Seq(Response) /\ Len(Tail(outbox)) = Len(outbox) - 1
      /\ DOMAIN Tail(outbox) = 1..(Len(outbox) - 1)
      /\ \A i \in 1..(Len(outbox) - 1) : Tail(outbox)[i] = outbox[i + 1]
  BY <1>1, <1>2, TailChannel
<1>4. Len(inbox) \in Nat
  BY <1>2, LenProperties
<1>5. /\ answered \in Nat
      /\ \A i \in DOMAIN inbox : inbox[i].id = answered + Len(outbox) + i
      /\ \A i \in DOMAIN outbox : outbox[i].id = answered + i
      /\ pending = (answered + 1)..seq
      /\ seq = answered + Len(inbox) + Len(outbox)
  BY <1>2, <1>3, <1>4 DEF CopilotInv, Numbering
<1>6. Head(outbox).id = answered + 1
  BY <1>3, <1>5
<1>7. seq' - Len(inbox') - Len(outbox') = answered + 1
  BY <1>1, <1>3, <1>4, <1>5
<1> HIDE DEF answered
<1>8. Head(outbox).id \in pending
  BY <1>3, <1>4, <1>5, <1>6
<1>9. /\ pending' = pending \ {Head(outbox).id}
      /\ stream' = stream \o ReplyShown(Head(outbox))
  BY <1>8 DEF Deliver
<1>10. ReplyShown(Head(outbox)) \in Seq(Bubble)
  <2>1. Head(outbox).question \in Question /\ 0 \in Question
    BY <1>3, CopilotBounds DEF Response, Question
  <2>2. /\ Say("ai", Head(outbox).question) \in Seq(Bubble)
        /\ Say("suggest", 0) \in Seq(Bubble) /\ <<>> \in Seq(Bubble)
    BY <2>1, SayType
  <2> QED
    BY <2>2 DEF ReplyShown
<1>11. stream' \in Seq(Bubble)
  BY <1>2, <1>9, <1>10, BubblesConcat
<1>12. CopilotTypeOK'
  BY <1>1, <1>2, <1>3, <1>9, <1>11 DEF CopilotInv, CopilotTypeOK
<1>13. Numbering'
  <2>1. \A i \in DOMAIN inbox' : inbox'[i].id = (answered + 1) + Len(outbox') + i
    <3> SUFFICES ASSUME NEW i \in DOMAIN inbox
                 PROVE  inbox[i].id = (answered + 1) + Len(outbox') + i
      BY <1>1
    <3>1. i \in Nat
      BY <1>2, LenProperties
    <3>2. answered + Len(outbox) + i = (answered + 1) + Len(outbox') + i
      BY <3>1, <1>1, <1>3, <1>5
    <3> QED
      BY <3>2, <1>5
  <2>2. \A i \in DOMAIN outbox' : outbox'[i].id = (answered + 1) + i
    <3> SUFFICES ASSUME NEW i \in 1..(Len(outbox) - 1)
                 PROVE  outbox'[i].id = (answered + 1) + i
      BY <1>1, <1>3
    <3>1. outbox'[i] = outbox[i + 1] /\ i + 1 \in DOMAIN outbox
      BY <1>1, <1>3
    <3>2. outbox[i + 1].id = answered + (i + 1)
      BY <3>1, <1>5
    <3> QED
      BY <3>1, <3>2, <1>5
  <2>3. pending' = ((answered + 1) + 1)..seq'
    BY <1>1, <1>5, <1>6, <1>9
  <2>4. answered + 1 >= 0
    BY <1>5
  <2> QED
    BY <1>7, <2>1, <2>2, <2>3, <2>4 DEF Numbering
<1> QED
  BY <1>12, <1>13 DEF CopilotInv

LEMMA StepIInv == CopilotInv /\ [CopilotNext]_copilotVars => CopilotInv'
<1> SUFFICES ASSUME CopilotInv, [CopilotNext]_copilotVars PROVE CopilotInv'
  OBVIOUS
<1>1. CASE Ask
  BY <1>1, AskStep
<1>2. CASE \E force \in BOOLEAN : Toggle(force)
  BY <1>2, ToggleStep
<1>3. CASE Nudge
  BY <1>3, NudgeStep
<1>4. CASE WorkerStep
  BY <1>4, WorkerStepStep
<1>5. CASE Deliver
  BY <1>5, DeliverStep
<1>6. CASE WorkerDies
  BY <1>6, WorkerDiesStep
<1>7. CASE UNCHANGED copilotVars
  BY <1>7 DEF copilotVars, CopilotInv, CopilotTypeOK, Numbering
<1> QED
  BY <1>1, <1>2, <1>3, <1>4, <1>5, <1>6, <1>7 DEF CopilotNext

LEMMA Invariance == CopilotSpec => []CopilotInv
  BY CopilotInitInv, StepIInv, PTL DEF CopilotSpec

(* Types, for any number of calls and questions. *)
THEOREM CopilotTypeCorrect == CopilotSpec => []CopilotTypeOK
<1>1. CopilotInv => CopilotTypeOK
  BY DEF CopilotInv
<1> QED
  BY <1>1, Invariance, PTL

(* The promises of CopilotClient are exactly the calls on their way: none is
   resolved early, twice or forgotten, and none stays behind. *)
THEOREM PromisesAreExact == CopilotSpec => []PendingExact
<1>1. CopilotInv => PendingExact
  <2> SUFFICES ASSUME CopilotInv PROVE PendingExact
    OBVIOUS
  <2> DEFINE answered == seq - Len(inbox) - Len(outbox)
  <2>1. /\ inbox \in Seq(Request) /\ outbox \in Seq(Response) /\ seq \in Nat
    BY CopilotBounds DEF CopilotInv, CopilotTypeOK
  <2>2. /\ Len(inbox) \in Nat /\ DOMAIN inbox = 1..Len(inbox)
        /\ Len(outbox) \in Nat /\ DOMAIN outbox = 1..Len(outbox)
    BY <2>1, LenProperties
  <2>3. /\ answered \in Nat
        /\ \A i \in 1..Len(inbox) : inbox[i].id = answered + Len(outbox) + i
        /\ \A i \in 1..Len(outbox) : outbox[i].id = answered + i
        /\ pending = (answered + 1)..seq
        /\ seq = answered + Len(inbox) + Len(outbox)
    <3>1. /\ answered >= 0
          /\ \A i \in DOMAIN inbox : inbox[i].id = answered + Len(outbox) + i
          /\ \A i \in DOMAIN outbox : outbox[i].id = answered + i
          /\ pending = (answered + 1)..seq
      BY DEF CopilotInv, Numbering
    <3>2. answered \in Int /\ seq = answered + Len(inbox) + Len(outbox)
      BY <2>1, <2>2
    <3> HIDE DEF answered
    <3> QED
      BY <2>2, <3>1, <3>2
  <2> HIDE DEF answered
  <2>4. {m.id : m \in ToSet(inbox)} = (answered + Len(outbox) + 1)..seq
    <3>1. {m.id : m \in ToSet(inbox)} = {inbox[i].id : i \in 1..Len(inbox)}
      BY <2>2 DEF ToSet
    <3>2. \A n \in (answered + Len(outbox) + 1)..seq :
            /\ n - answered - Len(outbox) \in 1..Len(inbox)
            /\ inbox[n - answered - Len(outbox)].id = n
      BY <2>2, <2>3
    <3>3. \A i \in 1..Len(inbox) : inbox[i].id \in (answered + Len(outbox) + 1)..seq
      BY <2>2, <2>3
    <3> QED
      BY <3>1, <3>2, <3>3
  <2>5. {m.id : m \in ToSet(outbox)} = (answered + 1)..(answered + Len(outbox))
    <3>1. {m.id : m \in ToSet(outbox)} = {outbox[i].id : i \in 1..Len(outbox)}
      BY <2>2 DEF ToSet
    <3>2. \A n \in (answered + 1)..(answered + Len(outbox)) :
            n - answered \in 1..Len(outbox) /\ outbox[n - answered].id = n
      BY <2>2, <2>3
    <3>3. \A i \in 1..Len(outbox) :
            outbox[i].id \in (answered + 1)..(answered + Len(outbox))
      BY <2>2, <2>3
    <3> QED
      BY <3>1, <3>2, <3>3
  <2>6. (answered + 1)..seq =
          (answered + Len(outbox) + 1)..seq \cup (answered + 1)..(answered + Len(outbox))
    BY <2>2, <2>3
  <2> QED
    BY <2>3, <2>4, <2>5, <2>6 DEF PendingExact
<1> QED
  BY <1>1, Invariance, PTL
-------------------------------------------------------------------------------
(* Answers come in order because every question is on its way once, in the order
   of the questions: those answered, then those the worker has answered, then
   those posted to it.  M holds the messages of a list that are about a question. *)
Carried(s, M) == {s[i].question : i \in {j \in DOMAIN s : s[j] \in M}}
Increasing(s, M) ==
  \A i, j \in DOMAIN s : s[i] \in M /\ s[j] \in M /\ i < j => s[i].question < s[j].question
Below(X, Y) == \A x \in X, y \in Y : x < y

AnswerBubble == {b \in Bubble : b.role = "ai" /\ b.question # 0}
AskMessage == {m \in Request \cup Response : m.kind = "ask"}

Answered == Carried(stream, AnswerBubble)
Replied == Carried(outbox, AskMessage)
Waiting == Carried(inbox, AskMessage)

OrderInv ==
  /\ worker = "none" => inbox = <<>> /\ outbox = <<>>
  /\ Increasing(stream, AnswerBubble)
  /\ Increasing(outbox, AskMessage)
  /\ Increasing(inbox, AskMessage)
  /\ Below(Answered, Replied) /\ Below(Answered, Waiting) /\ Below(Replied, Waiting)
  /\ Answered \cup Replied \cup Waiting = 1..asked

LEMMA Joined ==
  ASSUME NEW S, NEW s \in Seq(S), NEW t \in Seq(S), NEW M,
         Increasing(s, M), Increasing(t, M), Below(Carried(s, M), Carried(t, M))
  PROVE  Increasing(s \o t, M) /\ Carried(s \o t, M) = Carried(s, M) \cup Carried(t, M)
<1> DEFINE u == s \o t
<1>1. /\ Len(s) \in Nat /\ DOMAIN s = 1..Len(s)
      /\ Len(t) \in Nat /\ DOMAIN t = 1..Len(t)
      /\ DOMAIN u = 1..(Len(s) + Len(t))
      /\ \A i \in 1..(Len(s) + Len(t)) : u[i] = IF i <= Len(s) THEN s[i] ELSE t[i - Len(s)]
  <2>1. u \in Seq(S) /\ Len(u) = Len(s) + Len(t)
        /\ \A i \in 1..(Len(s) + Len(t)) : u[i] = IF i <= Len(s) THEN s[i] ELSE t[i - Len(s)]
    BY ConcatProperties
  <2> HIDE DEF u
  <2> QED
    BY <2>1, LenProperties
<1> HIDE DEF u
<1>2. \A i \in DOMAIN u : \/ i \in DOMAIN s /\ u[i] = s[i]
                          \/ i > Len(s) /\ i - Len(s) \in DOMAIN t /\ u[i] = t[i - Len(s)]
  BY <1>1
<1>3. Increasing(u, M)
  <2> SUFFICES ASSUME NEW i \in DOMAIN u, NEW j \in DOMAIN u, u[i] \in M, u[j] \in M, i < j
               PROVE  u[i].question < u[j].question
    BY DEF Increasing
  <2>1. CASE j \in DOMAIN s /\ u[j] = s[j]
    <3>1. i \in DOMAIN s /\ u[i] = s[i]
      BY <1>1, <2>1
    <3> QED
      BY <2>1, <3>1 DEF Increasing
  <2>2. CASE j > Len(s) /\ j - Len(s) \in DOMAIN t /\ u[j] = t[j - Len(s)]
    <3>1. CASE i \in DOMAIN s /\ u[i] = s[i]
      BY <2>2, <3>1 DEF Below, Carried
    <3>2. CASE i > Len(s) /\ i - Len(s) \in DOMAIN t /\ u[i] = t[i - Len(s)]
      <4>1. i - Len(s) < j - Len(s)
        BY <1>1
      <4> QED
        BY <2>2, <3>2, <4>1 DEF Increasing
    <3> QED
      BY <1>2, <3>1, <3>2
  <2> QED
    BY <1>2, <2>1, <2>2
<1>4. Carried(u, M) = Carried(s, M) \cup Carried(t, M)
  <2>1. Carried(u, M) \subseteq Carried(s, M) \cup Carried(t, M)
    BY <1>2 DEF Carried
  <2>2. \A i \in DOMAIN s : i \in DOMAIN u /\ u[i] = s[i]
    BY <1>1
  <2>3. \A i \in DOMAIN t : Len(s) + i \in DOMAIN u /\ u[Len(s) + i] = t[i]
    <3> TAKE i \in DOMAIN t
    <3>1. Len(s) + i \in 1..(Len(s) + Len(t)) /\ ~(Len(s) + i <= Len(s)) /\ (Len(s) + i) - Len(s) = i
      BY <1>1
    <3> QED
      BY <1>1, <3>1
  <2>4. Carried(s, M) \subseteq Carried(u, M)
    BY <2>2 DEF Carried
  <2>5. Carried(t, M) \subseteq Carried(u, M)
    <3> SUFFICES ASSUME NEW i \in DOMAIN t, t[i] \in M PROVE t[i].question \in Carried(u, M)
      BY DEF Carried
    <3> QED
      BY <2>3 DEF Carried
  <2> QED
    BY <2>1, <2>4, <2>5
<1> QED
  BY <1>3, <1>4 DEF u

(* A list of one message. *)
LEMMA OneMessage ==
  ASSUME NEW m, NEW M
  PROVE  /\ Increasing(<<m>>, M)
         /\ Carried(<<m>>, M) = IF m \in M THEN {m.question} ELSE {}
<1>1. DOMAIN <<m>> = {1} /\ <<m>>[1] = m
  OBVIOUS
<1> QED
  BY <1>1 DEF Increasing, Carried

LEMMA NoMessage ==
  ASSUME NEW M PROVE Increasing(<<>>, M) /\ Carried(<<>>, M) = {}
  BY DEF Increasing, Carried

(* The head of a list leaves it. *)
LEMMA Beheaded ==
  ASSUME NEW S, NEW s \in Seq(S), s # <<>>, NEW M, Increasing(s, M)
  PROVE  /\ Increasing(Tail(s), M)
         /\ Carried(s, M) = Carried(Tail(s), M) \cup (IF Head(s) \in M THEN {Head(s).question} ELSE {})
         /\ Head(s) \in M => Below({Head(s).question}, Carried(Tail(s), M))
<1> DEFINE t == Tail(s)
<1>1. /\ Len(s) \in Nat \ {0} /\ DOMAIN s = 1..Len(s) /\ Head(s) = s[1]
      /\ DOMAIN t = 1..(Len(s) - 1)
      /\ \A i \in 1..(Len(s) - 1) : t[i] = s[i + 1]
  BY TailChannel
<1> HIDE DEF t
<1>2. /\ \A i \in DOMAIN t : i + 1 \in DOMAIN s /\ t[i] = s[i + 1]
      /\ \A i, j \in DOMAIN t : i < j => i + 1 < j + 1
      /\ \A i \in DOMAIN s : i = 1 \/ (i - 1 \in DOMAIN t /\ t[i - 1] = s[i])
      /\ 1 \in DOMAIN s /\ \A i \in DOMAIN t : 1 < i + 1
  <2>1. ASSUME NEW i \in DOMAIN s, i # 1 PROVE i - 1 \in DOMAIN t /\ t[i - 1] = s[i]
    <3>1. i - 1 \in 1..(Len(s) - 1) /\ (i - 1) + 1 = i
      BY <1>1, <2>1
    <3> QED
      BY <1>1, <3>1
  <2> QED
    BY <1>1, <2>1
<1>3. Increasing(t, M)
  BY <1>2 DEF Increasing
<1>4. Carried(s, M) = Carried(t, M) \cup (IF s[1] \in M THEN {s[1].question} ELSE {})
  BY <1>2 DEF Carried
<1>5. s[1] \in M => Below({s[1].question}, Carried(t, M))
  BY <1>2 DEF Below, Carried, Increasing
<1> QED
  BY <1>1, <1>3, <1>4, <1>5 DEF t
(* What the main thread says: only Say("ai", q) about a question is an answer. *)
LEMMA Saying ==
  ASSUME NEW s \in Seq(Bubble), NEW role \in {"me", "ai", "suggest"}, NEW q \in Question,
         Increasing(s, AnswerBubble)
  PROVE  /\ ~(role = "ai" /\ q # 0) =>
              /\ Increasing(s \o Say(role, q), AnswerBubble)
              /\ Carried(s \o Say(role, q), AnswerBubble) = Carried(s, AnswerBubble)
         /\ role = "ai" /\ q # 0 /\ Below(Carried(s, AnswerBubble), {q}) =>
              /\ Increasing(s \o Say(role, q), AnswerBubble)
              /\ Carried(s \o Say(role, q), AnswerBubble) = Carried(s, AnswerBubble) \cup {q}
<1> DEFINE b == [role |-> role, question |-> q]
<1>1. /\ b \in Bubble /\ b.question = q
      /\ b \in AnswerBubble <=> role = "ai" /\ q # 0
  BY DEF Bubble, AnswerBubble
<1>2. Say(role, q) = <<b>> /\ <<b>> \in Seq(Bubble)
  BY <1>1 DEF Say
<1> HIDE DEF b
<1>3. /\ Increasing(<<b>>, AnswerBubble)
      /\ Carried(<<b>>, AnswerBubble) = IF b \in AnswerBubble THEN {q} ELSE {}
  BY <1>1, OneMessage
<1>4. ASSUME Below(Carried(s, AnswerBubble), Carried(<<b>>, AnswerBubble))
      PROVE  /\ Increasing(s \o <<b>>, AnswerBubble)
             /\ Carried(s \o <<b>>, AnswerBubble) = Carried(s, AnswerBubble) \cup Carried(<<b>>, AnswerBubble)
  BY <1>2, <1>3, <1>4, Joined
<1>5. CASE ~(role = "ai" /\ q # 0)
  <2>1. Carried(<<b>>, AnswerBubble) = {}
    BY <1>1, <1>3, <1>5
  <2>2. Below(Carried(s, AnswerBubble), Carried(<<b>>, AnswerBubble))
    BY <2>1 DEF Below
  <2> QED
    BY <1>2, <1>4, <1>5, <2>1, <2>2
<1>6. CASE role = "ai" /\ q # 0
  <2>1. Carried(<<b>>, AnswerBubble) = {q}
    BY <1>1, <1>3, <1>6
  <2> QED
    BY <1>2, <1>4, <1>6, <2>1
<1> QED
  BY <1>5, <1>6

LEMMA Greeting ==
  ASSUME CopilotTypeOK, Increasing(stream, AnswerBubble)
  PROVE  /\ Greeted \in Seq(Bubble)
         /\ Increasing(Greeted, AnswerBubble)
         /\ Carried(Greeted, AnswerBubble) = Answered
<1>1. CASE stream = <<>>
  <2>1. 0 \in Question /\ <<>> \in Seq(Bubble) /\ Increasing(<<>>, AnswerBubble)
    BY NoMessage, CopilotBounds DEF Question
  <2>2. Say("ai", 0) \in Seq(Bubble) /\ <<>> \o Say("ai", 0) = Say("ai", 0)
    BY <2>1, SayType, ConcatEmptySeq
  <2>3. /\ Increasing(<<>> \o Say("ai", 0), AnswerBubble)
        /\ Carried(<<>> \o Say("ai", 0), AnswerBubble) = Carried(<<>>, AnswerBubble)
    BY <2>1, Saying
  <2> QED
    BY <1>1, <2>2, <2>3 DEF Greeted, Answered
<1>2. CASE stream # <<>>
  BY <1>2 DEF Greeted, CopilotTypeOK, Answered
<1> QED
  BY <1>1, <1>2

(* A message is put at the end of a channel. *)
LEMMA Sent ==
  ASSUME NEW S, \A x \in S : x \in AskMessage <=> x.kind = "ask",
         NEW s \in Seq(S), NEW m \in S, Increasing(s, AskMessage)
  PROVE  /\ m.kind # "ask" =>
              /\ Increasing(s \o <<m>>, AskMessage)
              /\ Carried(s \o <<m>>, AskMessage) = Carried(s, AskMessage)
         /\ m.kind = "ask" /\ Below(Carried(s, AskMessage), {m.question}) =>
              /\ Increasing(s \o <<m>>, AskMessage)
              /\ Carried(s \o <<m>>, AskMessage) = Carried(s, AskMessage) \cup {m.question}
<1>1. m \in AskMessage <=> m.kind = "ask"
  OBVIOUS
<1>2. /\ Increasing(<<m>>, AskMessage)
      /\ Carried(<<m>>, AskMessage) = IF m \in AskMessage THEN {m.question} ELSE {}
  BY OneMessage
<1>3. <<m>> \in Seq(S)
  OBVIOUS
<1>4. ASSUME Below(Carried(s, AskMessage), Carried(<<m>>, AskMessage))
      PROVE  /\ Increasing(s \o <<m>>, AskMessage)
             /\ Carried(s \o <<m>>, AskMessage) = Carried(s, AskMessage) \cup Carried(<<m>>, AskMessage)
  <2> DEFINE t == <<m>>
  <2>1. /\ t \in Seq(S) /\ Increasing(t, AskMessage)
        /\ Below(Carried(s, AskMessage), Carried(t, AskMessage))
    BY <1>2, <1>3, <1>4
  <2> HIDE DEF t
  <2>2. /\ Increasing(s \o t, AskMessage)
        /\ Carried(s \o t, AskMessage) = Carried(s, AskMessage) \cup Carried(t, AskMessage)
    BY <2>1, Joined
  <2> QED
    BY <2>2 DEF t
<1>5. CASE m.kind # "ask"
  <2>1. Carried(<<m>>, AskMessage) = {}
    BY <1>1, <1>2, <1>5
  <2>2. Below(Carried(s, AskMessage), Carried(<<m>>, AskMessage))
    BY <2>1 DEF Below
  <2> QED
    BY <1>4, <1>5, <2>1, <2>2
<1>6. CASE m.kind = "ask"
  <2>1. Carried(<<m>>, AskMessage) = {m.question}
    BY <1>1, <1>2, <1>6
  <2> QED
    BY <1>4, <1>6, <2>1
<1> QED
  BY <1>5, <1>6

LEMMA AskKinds ==
  /\ \A x \in Request : x \in AskMessage <=> x.kind = "ask"
  /\ \A x \in Response : x \in AskMessage <=> x.kind = "ask"
  BY DEF AskMessage

(* What a task of the main thread posts: chips and nudges are not about a question. *)
LEMMA PostedQuietly ==
  ASSUME NEW s \in Seq(Request), Increasing(s, AskMessage), NEW q \in Question,
         NEW first \in Nat, first + 1 <= MaxCalls, NEW k \in {"chips", "nudge"}
  PROVE  /\ Increasing(s \o Posted(<<k>>, q, first), AskMessage)
         /\ Carried(s \o Posted(<<k>>, q, first), AskMessage) = Carried(s, AskMessage)
<1> DEFINE m == [id |-> first + 1, kind |-> k, question |-> q]
<1>1. Posted(<<k>>, q, first) = <<m>>
  BY DEF Posted
<1>2. m \in Request /\ m.kind # "ask"
  BY CopilotBounds DEF Request, Kind
<1> HIDE DEF m
<1>3. /\ Increasing(s \o <<m>>, AskMessage)
      /\ Carried(s \o <<m>>, AskMessage) = Carried(s, AskMessage)
  BY <1>2, AskKinds, Sent, Zenon
<1> QED
  BY <1>1, <1>3

LEMMA PostedQuestion ==
  ASSUME NEW s \in Seq(Request), Increasing(s, AskMessage), NEW q \in Question,
         NEW first \in Nat, first + 2 <= MaxCalls, Below(Carried(s, AskMessage), {q})
  PROVE  /\ Increasing(s \o Posted(<<"chips", "ask">>, q, first), AskMessage)
         /\ Carried(s \o Posted(<<"chips", "ask">>, q, first), AskMessage) =
              Carried(s, AskMessage) \cup {q}
<1> DEFINE m == [id |-> first + 1, kind |-> "chips", question |-> q]
           n == [id |-> first + 2, kind |-> "ask", question |-> q]
           t == <<m, n>>
<1>1. Posted(<<"chips", "ask">>, q, first) = t
  BY DEF Posted
<1>2. m \notin AskMessage /\ n \in AskMessage /\ n.question = q /\ m \in Request /\ n \in Request
  BY CopilotBounds DEF Request, Kind, AskMessage
<1>3. t \in Seq(Request) /\ DOMAIN t = {1, 2} /\ t[1] = m /\ t[2] = n
  <2> HIDE DEF m, n
  <2> QED
    BY <1>2
<1> HIDE DEF m, n, t
<1>4. Increasing(t, AskMessage)
  BY <1>2, <1>3 DEF Increasing
<1>5. Carried(t, AskMessage) = {q}
  BY <1>2, <1>3 DEF Carried
<1>6. /\ Increasing(s \o t, AskMessage)
      /\ Carried(s \o t, AskMessage) = Carried(s, AskMessage) \cup Carried(t, AskMessage)
  <2>1. Below(Carried(s, AskMessage), Carried(t, AskMessage))
    BY <1>5
  <2> QED
    BY <1>3, <1>4, <2>1, Joined
<1> QED
  BY <1>1, <1>5, <1>6

LEMMA OrderInitInv == CopilotInit => OrderInv
  BY NoMessage DEF CopilotInit, OrderInv, Answered, Replied, Waiting, Below

LEMMA AskOrder == ASSUME CopilotInv, OrderInv, Ask PROVE OrderInv'
<1> DEFINE q == asked + 1
<1>1. /\ q \in Question /\ q # 0 /\ asked' = q /\ UNCHANGED <<worker, outbox>>
      /\ asked \in Nat /\ CopilotTypeOK
  BY CopilotBounds DEF Ask, CopilotInv, CopilotTypeOK, Question
<1>2. \A X \in SUBSET (1..asked) : Below(X, {q})
  BY <1>1 DEF Below
<1>3. /\ Answered \subseteq 1..asked /\ Replied \subseteq 1..asked /\ Waiting \subseteq 1..asked
      /\ 1..q = (1..asked) \cup {q}
  BY <1>1 DEF OrderInv
<1> HIDE DEF q
<1>4. /\ Greeted \in Seq(Bubble)
      /\ Increasing(Greeted, AnswerBubble)
      /\ Carried(Greeted, AnswerBubble) = Answered
  BY <1>1, Greeting DEF OrderInv
<1>5. /\ Greeted \o Say("me", q) \in Seq(Bubble)
      /\ Increasing(Greeted \o Say("me", q), AnswerBubble)
      /\ Carried(Greeted \o Say("me", q), AnswerBubble) = Answered
  BY <1>1, <1>4, Saying, SayType, BubblesConcat
<1>6. /\ Increasing(outbox', AskMessage) /\ Carried(outbox', AskMessage) = Replied
  BY <1>1 DEF OrderInv, Replied
<1>7. CASE worker = "none"
  <2>1. /\ stream' = Greeted \o Say("me", q) \o Say("ai", q) /\ inbox' = inbox
    BY <1>7 DEF Ask, NoCall, q
  <2>2. /\ Increasing(stream', AnswerBubble)
        /\ Carried(stream', AnswerBubble) = Answered \cup {q}
    BY <1>1, <1>2, <1>3, <1>5, <2>1, Saying
  <2>3. Replied = {} /\ Waiting = {}
    BY <1>7, NoMessage DEF OrderInv, Replied, Waiting
  <2> QED
    BY <1>1, <1>3, <1>6, <2>1, <2>2, <2>3 DEF OrderInv, Answered, Replied, Waiting, Below
<1>8. CASE worker # "none"
  <2>1. stream' = Greeted \o Say("me", q) /\ Call(<<"chips", "ask">>, q)
    BY <1>8 DEF Ask, q
  <2>2. /\ seq \in Nat /\ seq + 2 <= MaxCalls
        /\ inbox' = inbox \o Posted(<<"chips", "ask">>, q, seq)
    <3>1. Len(<<"chips", "ask">>) = 2
      OBVIOUS
    <3> QED
      BY <1>1, <2>1, <3>1 DEF Call, Posted, CopilotTypeOK
  <2>3. inbox \in Seq(Request) /\ Increasing(inbox, AskMessage) /\ Below(Carried(inbox, AskMessage), {q})
    BY <1>1, <1>2, <1>3 DEF OrderInv, Waiting, CopilotTypeOK
  <2>4. /\ Increasing(inbox', AskMessage)
        /\ Carried(inbox', AskMessage) = Waiting \cup {q}
    BY <1>1, <2>2, <2>3, PostedQuestion DEF Waiting
  <2>5. Below(Answered, Waiting \cup {q}) /\ Below(Replied, Waiting \cup {q})
    BY <1>2, <1>3 DEF OrderInv, Below
  <2> QED
    BY <1>1, <1>3, <1>5, <1>6, <1>8, <2>1, <2>4, <2>5 DEF OrderInv, Answered, Replied, Waiting
<1> QED
  BY <1>7, <1>8

(* Steps that neither ask nor answer. *)
LEMMA QuietOrder ==
  ASSUME CopilotInv, OrderInv, UNCHANGED <<worker, outbox, asked>>,
         NoCall \/ \E k \in {"chips", "nudge"} : worker # "none" /\ Call(<<k>>, 0),
         stream' \in {stream, Greeted, stream \o Say("suggest", 0)}
  PROVE  OrderInv'
<1>1. CopilotTypeOK /\ 0 \in Question
  BY CopilotBounds DEF CopilotInv, Question
<1>2. /\ Increasing(stream', AnswerBubble)
      /\ Carried(stream', AnswerBubble) = Answered
  <2>1. CASE stream' = stream
    BY <2>1 DEF OrderInv, Answered
  <2>2. CASE stream' = Greeted
    BY <1>1, <2>2, Greeting DEF OrderInv
  <2>3. CASE stream' = stream \o Say("suggest", 0)
    BY <1>1, <2>3, Saying DEF OrderInv, Answered, CopilotTypeOK
  <2> QED
    BY <2>1, <2>2, <2>3
<1>3. /\ Increasing(inbox', AskMessage)
      /\ Carried(inbox', AskMessage) = Waiting
      /\ worker = "none" => inbox' = <<>>
  <2>1. CASE NoCall
    BY <2>1 DEF NoCall, OrderInv, Waiting
  <2>2. CASE \E k \in {"chips", "nudge"} : worker # "none" /\ Call(<<k>>, 0)
    <3>1. PICK k \in {"chips", "nudge"} : worker # "none" /\ Call(<<k>>, 0)
      BY <2>2
    <3>2. /\ seq \in Nat /\ seq + 1 <= MaxCalls /\ inbox' = inbox \o Posted(<<k>>, 0, seq)
      <4>1. Len(<<k>>) = 1
        OBVIOUS
      <4> QED
        BY <1>1, <3>1, <4>1 DEF Call, Posted, CopilotTypeOK
    <3> QED
      BY <1>1, <3>1, <3>2, PostedQuietly DEF OrderInv, Waiting, CopilotTypeOK
  <2> QED
    BY <2>1, <2>2
<1> QED
  BY <1>2, <1>3 DEF OrderInv, Answered, Replied, Waiting

LEMMA WorkerStepOrder == ASSUME CopilotInv, OrderInv, WorkerStep PROVE OrderInv'
<1>1. PICK item \in BOOLEAN :
        outbox' = Append(outbox, [id |-> Head(inbox).id, kind |-> Head(inbox).kind,
                                  question |-> Head(inbox).question, item |-> item])
  BY DEF WorkerStep
<1> DEFINE m == Head(inbox)
           r == [id |-> m.id, kind |-> m.kind, question |-> m.question, item |-> item]
<1>2. /\ inbox # <<>> /\ inbox' = Tail(inbox) /\ worker # "none"
      /\ UNCHANGED <<worker, asked, stream>>
      /\ inbox \in Seq(Request) /\ outbox \in Seq(Response)
  BY DEF WorkerStep, CopilotInv, CopilotTypeOK
<1>3. m \in Request
  BY <1>2, TailChannel
<1>4. r \in Response /\ r.kind = m.kind /\ r.question = m.question
  BY <1>3 DEF Request, Response
<1>5. m \in AskMessage <=> m.kind = "ask"
  BY <1>3, AskKinds
<1> HIDE DEF m, r
<1>6. outbox' = outbox \o <<r>>
  <2>1. outbox' = Append(outbox, r)
    BY <1>1 DEF m, r
  <2> QED
    BY <1>2, <1>4, <2>1, AppendIsConcat
<1>7. /\ Increasing(inbox', AskMessage)
      /\ Waiting = Carried(inbox', AskMessage) \cup (IF m.kind = "ask" THEN {m.question} ELSE {})
      /\ m.kind = "ask" => Below({m.question}, Carried(inbox', AskMessage))
  BY <1>2, <1>5, Beheaded DEF OrderInv, Waiting, m
<1>8. CASE m.kind = "ask"
  <2>1. /\ Below(Carried(outbox, AskMessage), {m.question})
        /\ Below(Answered, {m.question})
    BY <1>7, <1>8 DEF OrderInv, Below, Replied
  <2>2. /\ Increasing(outbox', AskMessage)
        /\ Carried(outbox', AskMessage) = Replied \cup {m.question}
    <3>1. Increasing(outbox, AskMessage) /\ r.kind = "ask" /\ Below(Carried(outbox, AskMessage), {r.question})
      BY <1>4, <1>8, <2>1 DEF OrderInv
    <3>2. /\ Increasing(outbox \o <<r>>, AskMessage)
          /\ Carried(outbox \o <<r>>, AskMessage) = Carried(outbox, AskMessage) \cup {r.question}
      <4>1. \A x \in Response : x \in AskMessage <=> x.kind = "ask"
        BY AskKinds
      <4>2. outbox \in Seq(Response) /\ r \in Response
        BY <1>2, <1>4
      <4> QED
        BY <3>1, <4>1, <4>2, Sent
    <3> QED
      BY <1>4, <1>6, <3>2 DEF Replied
  <2>3. /\ Below(Answered, Replied \cup {m.question})
        /\ Below(Answered, Carried(inbox', AskMessage))
        /\ Below(Replied \cup {m.question}, Carried(inbox', AskMessage))
    BY <1>7, <1>8, <2>1 DEF OrderInv, Below
  <2>4. Answered \cup (Replied \cup {m.question}) \cup Carried(inbox', AskMessage) = 1..asked
    BY <1>7, <1>8 DEF OrderInv
  <2> QED
    BY <1>2, <1>7, <2>2, <2>3, <2>4 DEF OrderInv, Answered, Replied, Waiting
<1>9. CASE m.kind # "ask"
  <2>1. /\ Increasing(outbox', AskMessage)
        /\ Carried(outbox', AskMessage) = Replied
    BY <1>2, <1>4, <1>6, <1>9, AskKinds, Sent DEF OrderInv, Replied
  <2>2. Carried(inbox', AskMessage) = Waiting
    BY <1>7, <1>9
  <2> QED
    BY <1>2, <1>7, <2>1, <2>2 DEF OrderInv, Answered, Replied, Waiting
<1> QED
  BY <1>8, <1>9

(* The reply that arrives is always expected. *)
LEMMA Delivered ==
  ASSUME CopilotInv, Deliver
  PROVE  /\ stream' = stream \o ReplyShown(Head(outbox)) /\ outbox' = Tail(outbox)
         /\ Head(outbox) \in Response
         /\ UNCHANGED <<worker, inbox, open, asked>>
<1> DEFINE answered == seq - Len(inbox) - Len(outbox)
<1>1. /\ outbox # <<>> /\ outbox' = Tail(outbox) /\ UNCHANGED <<worker, seq, inbox, open, asked>>
      /\ inbox \in Seq(Request) /\ outbox \in Seq(Response) /\ seq \in Nat
  BY CopilotBounds DEF Deliver, CopilotInv, CopilotTypeOK
<1>2. /\ Len(outbox) \in Nat \ {0} /\ 1 \in DOMAIN outbox /\ Head(outbox) = outbox[1]
      /\ outbox[1] \in Response /\ Len(inbox) \in Nat
  BY <1>1, TailChannel, LenProperties
<1>3. /\ answered \in Int /\ seq = answered + Len(inbox) + Len(outbox)
      /\ outbox[1].id = answered + 1 /\ pending = (answered + 1)..seq
  BY <1>1, <1>2 DEF CopilotInv, Numbering
<1> HIDE DEF answered
<1>4. Head(outbox).id \in pending
  BY <1>2, <1>3
<1> QED
  BY <1>1, <1>2, <1>4 DEF Deliver

LEMMA DeliverOrder == ASSUME CopilotInv, OrderInv, Deliver PROVE OrderInv'
<1> DEFINE r == Head(outbox)
<1>1. /\ stream' = stream \o ReplyShown(r) /\ outbox' = Tail(outbox)
      /\ UNCHANGED <<worker, inbox, open, asked>>
      /\ r \in Response /\ outbox # <<>>
      /\ stream \in Seq(Bubble) /\ outbox \in Seq(Response)
  BY Delivered DEF Deliver, CopilotInv, CopilotTypeOK
<1>2. r.question \in Question /\ 0 \in Question
  BY <1>1, CopilotBounds DEF Response, Question
<1>3. r \in AskMessage <=> r.kind = "ask"
  BY <1>1, AskKinds
<1>4. /\ Increasing(outbox', AskMessage)
      /\ Replied = Carried(outbox', AskMessage) \cup (IF r.kind = "ask" THEN {r.question} ELSE {})
      /\ r.kind = "ask" => Below({r.question}, Carried(outbox', AskMessage))
  BY <1>1, <1>3, Beheaded DEF OrderInv, Replied
<1> HIDE DEF r
<1>5. CASE r.kind = "ask"
  <2>1. r.question # 0 /\ Below(Answered, {r.question})
    BY <1>4, <1>5 DEF OrderInv, Below
  <2>2. ReplyShown(r) = Say("ai", r.question)
    BY <1>5 DEF ReplyShown
  <2>3. /\ Increasing(stream', AnswerBubble)
        /\ Carried(stream', AnswerBubble) = Answered \cup {r.question}
    <3> DEFINE n == r.question
    <3>1. /\ n \in Question /\ n # 0 /\ Below(Carried(stream, AnswerBubble), {n})
          /\ Increasing(stream, AnswerBubble) /\ stream' = stream \o Say("ai", n)
      BY <1>1, <1>2, <2>1, <2>2 DEF OrderInv, Answered
    <3> HIDE DEF n
    <3>2. /\ Increasing(stream \o Say("ai", n), AnswerBubble)
          /\ Carried(stream \o Say("ai", n), AnswerBubble) = Carried(stream, AnswerBubble) \cup {n}
      BY <1>1, <3>1, Saying
    <3> QED
      BY <3>1, <3>2 DEF Answered, n
  <2>4. /\ Below(Answered \cup {r.question}, Carried(outbox', AskMessage))
        /\ Below(Answered \cup {r.question}, Waiting)
        /\ Below(Carried(outbox', AskMessage), Waiting)
    BY <1>4, <1>5, <2>1 DEF OrderInv, Below
  <2>5. (Answered \cup {r.question}) \cup Carried(outbox', AskMessage) \cup Waiting = 1..asked
    BY <1>4, <1>5 DEF OrderInv
  <2>6. worker = "none" => outbox' = <<>>
    BY <1>1 DEF OrderInv
  <2> QED
    BY <1>1, <1>4, <2>3, <2>4, <2>5, <2>6 DEF OrderInv, Answered, Replied, Waiting
<1>6. CASE r.kind # "ask"
  <2>1. Carried(outbox', AskMessage) = Replied
    BY <1>4, <1>6
  <2>2. ReplyShown(r) \in {<<>>, Say("suggest", 0)}
    BY <1>6 DEF ReplyShown
  <2>3. /\ Increasing(stream', AnswerBubble)
        /\ Carried(stream', AnswerBubble) = Answered
    <3>1. CASE ReplyShown(r) = <<>>
      <4>1. stream' = stream
        BY <1>1, <3>1, ConcatEmptySeq
      <4> QED
        BY <4>1 DEF OrderInv, Answered
    <3>2. CASE ReplyShown(r) = Say("suggest", 0)
      BY <1>1, <1>2, <3>2, Saying DEF OrderInv, Answered
    <3> QED
      BY <2>2, <3>1, <3>2
  <2>4. worker = "none" => outbox' = <<>>
    BY <1>1 DEF OrderInv
  <2> QED
    BY <1>1, <1>4, <2>1, <2>3, <2>4 DEF OrderInv, Answered, Replied, Waiting
<1> QED
  BY <1>5, <1>6

LEMMA OrderStep == CopilotInv /\ OrderInv /\ [CopilotNext]_copilotVars => OrderInv'
<1> SUFFICES ASSUME CopilotInv, OrderInv, [CopilotNext]_copilotVars PROVE OrderInv'
  OBVIOUS
<1>1. CASE Ask
  BY <1>1, AskOrder
<1>2. CASE \E force \in BOOLEAN : Toggle(force)
  BY <1>2, QuietOrder DEF Toggle
<1>3. CASE Nudge
  BY <1>3, QuietOrder DEF Nudge
<1>4. CASE WorkerStep
  BY <1>4, WorkerStepOrder
<1>5. CASE Deliver
  BY <1>5, DeliverOrder
<1>6. CASE WorkerDies \/ UNCHANGED copilotVars
  BY <1>6 DEF WorkerDies, copilotVars, OrderInv, Answered, Replied, Waiting
<1> QED
  BY <1>1, <1>2, <1>3, <1>4, <1>5, <1>6 DEF CopilotNext

(* The answers up to the i-th place are to the questions from 1 to its own. *)
LEMMA OrderedAnswers == ASSUME CopilotInv, OrderInv PROVE AnswersInOrder
<1> SUFFICES ASSUME NEW i \in AnswerAt(stream)
             PROVE  /\ stream[i].question = Cardinality({j \in AnswerAt(stream) : j <= i})
                    /\ stream[i].question <= asked
  BY DEF AnswersInOrder
<1> DEFINE q == stream[i].question
           T == {j \in AnswerAt(stream) : j <= i}
           f == [j \in T |-> stream[j].question]
<1>1. /\ stream \in Seq(Bubble) /\ asked \in Nat
      /\ Len(stream) \in Nat /\ DOMAIN stream = 1..Len(stream)
      /\ \A j \in DOMAIN stream : stream[j] \in Bubble
  BY LenProperties, ElementOfSeq, CopilotBounds DEF CopilotInv, CopilotTypeOK, Question
<1>2. \A j : j \in AnswerAt(stream) <=> j \in DOMAIN stream /\ stream[j] \in AnswerBubble
  BY <1>1 DEF AnswerAt, AnswerBubble
<1>3. Answered = {stream[j].question : j \in AnswerAt(stream)}
  BY <1>2 DEF Answered, Carried
<1>4. Answered \subseteq 1..asked /\ q \in 1..asked
  BY <1>3 DEF OrderInv
<1>5. \A j, k \in AnswerAt(stream) : j < k => stream[j].question < stream[k].question
  BY <1>2 DEF OrderInv, Increasing
<1>6. 1..q \subseteq Answered
  <2> SUFFICES ASSUME NEW p \in 1..q PROVE p \in Answered
    OBVIOUS
  <2>1. p \in 1..asked /\ p <= q
    BY <1>1, <1>4
  <2>2. q \in Answered
    BY <1>3
  <2> HIDE DEF q
  <2>3. ~(q < p)
    BY <1>4, <2>1
  <2>4. p \notin Replied /\ p \notin Waiting
    BY <2>2, <2>3 DEF OrderInv, Below
  <2> QED
    BY <2>1, <2>4 DEF OrderInv
<1>7. f \in Bijection(T, 1..q)
  <2>1. \A j \in AnswerAt(stream) : j \in Nat /\ stream[j].question \in 1..asked
    BY <1>1, <1>2, <1>3, <1>4
  <2>2. f \in [T -> 1..q]
    <3> SUFFICES ASSUME NEW j \in T PROVE stream[j].question \in 1..q
      OBVIOUS
    <3>1. j = i \/ j < i
      BY <2>1
    <3> QED
      BY <1>5, <2>1, <3>1
  <2>3. \A j, k \in T : f[j] = f[k] => j = k
    <3> SUFFICES ASSUME NEW j \in T, NEW k \in T, f[j] = f[k], j # k PROVE FALSE
      OBVIOUS
    <3>1. j < k \/ k < j
      BY <2>1
    <3> QED
      BY <1>5, <2>1, <3>1
  <2>4. \A p \in 1..q : \E j \in T : f[j] = p
    <3> SUFFICES ASSUME NEW p \in 1..q PROVE \E j \in T : f[j] = p
      OBVIOUS
    <3>1. PICK j \in AnswerAt(stream) : stream[j].question = p
      BY <1>3, <1>6
    <3>2. ~(i < j)
      BY <1>4, <1>5, <3>1
    <3> QED
      BY <2>1, <3>1, <3>2
  <2> HIDE DEF f, T, q
  <2> QED
    BY <2>2, <2>3, <2>4 DEF Bijection, Injection, Surjection, IsInjective
<1> HIDE DEF f, T, q
<1>8. IsFiniteSet(1..q) /\ Cardinality(1..q) = q /\ q \in Nat
  BY <1>4, FS_Interval
<1>9. IsFiniteSet(T)
  <2>1. IsFiniteSet(1..Len(stream)) /\ T \subseteq 1..Len(stream)
    BY <1>1, <1>2, FS_Interval DEF T
  <2> QED
    BY <2>1, FS_Subset
<1>10. Cardinality(T) = Cardinality(1..q)
  BY <1>7, <1>8, <1>9, FS_Bijection DEF ExistsBijection
<1> QED
  BY <1>4, <1>8, <1>10 DEF T, q

(* However many questions are asked, the panel answers them in their order, each
   once, with chips and nudges in between, the panel closed or open, and whether a
   worker, the local engine or nobody any more answers. *)
THEOREM AnswersAreInOrder == CopilotSpec => []AnswersInOrder
<1>1. CopilotInv /\ OrderInv => AnswersInOrder
  BY OrderedAnswers
<1> QED
  BY <1>1, OrderInitInv, OrderStep, Invariance, PTL DEF CopilotSpec
===============================================================================
