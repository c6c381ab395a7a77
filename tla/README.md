# Verification of Browser 2030B

TLA+ models of the parts of Browser 2030B whose behaviour depends on order,
concurrency, failure or long histories, the TLC runs that check them on small
instances, and the TLAPS proofs that hold for instances of every size. Source
paths are relative to `src/`.

## 1. The system

Browser 2030B is a Rust workspace (capability broker, policy engine, network,
storage, GPU and renderer glue, agent runtime, sync, extension hosts) and a
TypeScript desktop shell, with a Kotlin and a Swift core for mobile. The
rendering engines are fetched from upstream and are not in the repository: what
is here is the policy around them. Most crates are libraries of deterministic
types; concurrency comes from the broker (`&self` methods called by many
threads), from the async functions of the shell, from its web worker, and from
callers on the other side of a network or a process boundary.

### Inventory

| Component | State it keeps | Operations | What is hard, and what must hold |
|---|---|---|---|
| Capability broker, `engine/ipc` | id counter, registry id → origin, the wall clock; tokens are values held by processes | mint, attenuate, clone, verify, revoke | mint is three separately synchronised steps; tokens travel, are narrowed and revoked through any copy; the clock can be set back. No amplification, exact registry, accepted ⇒ granted and live, refusal is final |
| Layered policy, `admin/policy-engine/src/precedence.rs` | a sorted vector of layer values for each key | set, resolve | `resolve` trusts the order that `set` maintains. Highest layer wins, writes of lower layers do not matter |
| Policy command line and simulator, `admin/policy-engine/src/main.rs` | two loops over the arguments, locks, a resolver | `resolve`, the simulator's scenario | options in any order, locks before or after the values they lock. The report is what was asked |
| Provenance and signing, `admin/policy-engine/src/{provenance,signing}.rs` | the span being built | with_input, to_log_line, verify_bundle | several signatures of an algorithm. Both signatures needed; one line for one decision |
| Audit log, `admin/policy-engine/src/audit.rs` | the leaves | append, root | odd levels of the tree. Tampering and truncation change the root |
| Extension decisions, `extensions/{mv2-shim,mv3-host,mv4-host,policy-bridge}` | none of its own; reads the effective policy | parse, to_mv4, evaluate | a manifest passes three translations before the decision, the policy changes between decisions. Sign-off for blocking webRequest, enterprise binds |
| Session of the desktop shell, `ui/shell-desktop/src/{main,storage,wizard,theme}.ts` | preferences in memory and in IndexedDB, the wizard, pending writes | start, loadPrefs, savePrefs, commands, wizard pages, finishWizard | async functions overlap, a crash falls between two writes, a write or the open fails. What is stored is what was shown; onboarding is all or nothing |
| Copilot panel and worker, `main.ts`, `copilot/worker.ts` | message counter, map of promises, two channels, the bubbles | ask, toggle, nudge, reply | replies, nudges and the panel interleave, the worker may die. Order of answers, no promise lost, every question answered |
| Renderer selection and isolation, `engine/{blink,gecko}-integration` | two maps site → process, two counters | select, process_for, process_for_frame | two numberings and two derivations of a site. A site keeps its process, sites never share one |
| Network policy, `engine/net` | none; the policy in force is passed in | negotiate, HTTPS decision, TLS and post-quantum policy, partition | five decisions compose, the policy changes between navigations. No downgrade, no plaintext beside TLS |
| Sync, `sync/{server,client,e2ee}` | versioned blobs for each record | put, get, list, seal, open | lost, repeated, late uploads of several devices. Versions never go back; what an answer said stays true |
| Agent runtime, MCP host, redaction, `ai/` | tools, grants for each site, the runtime's journal; a journal an embedder keeps | grant, register, step; record, undo; redact | supervision and policy in one order; undo in a journal called append-only. Nothing runs without approval and permission, the journal is what stands |
| Tabs, `ui/shell-desktop/src/tabs` | order, groups, the active tab | add, close, move, groups | long sequences of legal calls. A closed tab leaves no trace |
| Command palette, `command-palette/fuzzy.ts`, `main.ts` | text, highlight, open | type, arrows, Enter, click | the list shrinks under the highlight. What runs is what is shown |
| Permissions, `permissions.ts`, `SecurityPolicy.kt`, `site_settings.rs` | grants, locks, one slot for each capability | set, lock, query, revoke | expiry, layers, a clock that may be set back. Nothing is permitted unasked, lower layers cannot lift |
| Background tabs, `memory_saver.rs`, `throttling.rs`, `performance.ts` | time in the background, time since the last interaction, flags of a tab | decide, tier, tabsToFreeze | three thresholds over two measures that must agree |
| Store client, `extensions/store-client` | none | install: two awaits | the store may change between listing and package |
| History search, `engine/storage/src/semantic_history.rs` | the entries | add, search | ranking with equal scores and empty pages |
| Page work: `compositor.rs`, `energy.rs`, `fingerprint.rs` | little | batch, estimate, spend | boundaries |

How they interact. The shell's window asks the policy plane and the permission
store before it acts; policy values flow from the layered resolver to the
extension bridge and, as documented, to every component; the broker hands
tokens to the processes that isolation creates; sync carries the profile that
storage keeps. Only some of these calls exist in code: the bridge calls the
resolver, the command line and the simulator call resolver and provenance, the
agent runtime calls the host, the sync client calls e2ee, the shell calls its
own classes. The others are drawn in `docs/00-architecture.md` and have no code
yet. Where a module composes parts that do not call one another, it either says
whose order of calls it assumes (`Navigation`: the browser shell's) or keeps
them strictly apart (`Window`, `PolicyEngine`: a behaviour is of one part).

## 2. Plan

Done, in this order: the broker with its abstract specification; the layered
policy and the extension decisions; the session; the copilot; isolation; the
audit log; the command line, provenance and signing; navigation; sync with its
abstract register; the agent; the window's parts.

What would come next, most useful first:

1. The spaces of a window together with the side panel and the layouts, once
   the shell composes them: `SpaceManager` has no caller today.
2. A model in which the agent's texts pass redaction, once `agent-runtime` calls
   it; today only its documentation says so.

## 3. Modules and code

*Vectors.* `Arrangement` says what retain, filter and a stable sort do to a
vector, as functions of positions: the positions that stay, in the order they
are put in. The resolver's vector, the inputs of a span, the strip, the palette's
and the history's rankings and the findings of redaction are defined with it;
being no recursion it can be reasoned about.

*Broker.* `CapabilityAuthority` (abstract): a process can use an authority only
because a grant gave it or a process that could use it passed it on; a revoked
grant is gone for all. No registry, clock or threads.
`CapabilityBroker` models `engine/ipc/src/lib.rs`. `next_id` and `issued` are the
broker's atomic counter and its mutex-protected map; `held[p]` are the token
values in a process; `now` is `now_secs()`. `MintTakeId`, `MintRegister`,
`MintStamp` are mint cut at its synchronisation points; `MintPanic` is the
overflow of `now + ttl` in a build that checks it, `ExpiryFrom` the wrap in one
that does not. `Attenuate`, `Pass` (Clone), `Revoke` and the operator `Verify`
are one step each because they are pure or hold the lock throughout. `grants`
and `revoked` are history.

*Policy engine.* `LayeredPolicy` (abstract): one cell for each key and layer, the
highest filled cell wins. `PolicyResolver` models `Resolver`: `SetIn` is retain,
push and stable sort of the vector, `Resolved` its last entry; it implements
`LayeredPolicy`. `PolicyCommand` adds `run_resolve`, one action for each turn of
either loop (`CollectLock`; `ReadKey`, `ReadSet`, `Skip`), the exit, and
`verify_bundle` over sequences of signatures, of which the caller's closure says
whether they are genuine. `AuditLog` models append and the Merkle root, with
hashes that never collide. `ExtensionPolicy` is written over `LayeredPolicy`
directly (the resolver implements it) and models the three translations of a
manifest (`ParseMv2`, `ParseMv3`, `ToMv4`) and `Evaluate` in the order of its
checks. `PolicyEngine` puts them together. Its trace part builds spans input by
input, takes their lines, and runs the simulator's scenario through the resolver
to print its one; the audit part appends what its callers like, because no code
appends the line of a span; the others are the library, the command line, bundles
and the bridge. The variable `use` says of which part a behaviour is, since they
share no state in the code. `lastWritten` is history: what each layer wrote last
for a key, remembered apart from the vectors that `resolve` reads.

*Shell.* `ShellSession`: `shown` is the App's theme and sidebar, `disk` the prefs
store, `queue` the writes that IndexedDB has been given, each with what its
async function does next. `set` resolves when its put has succeeded, and the
function goes on to the next `await` (`Continues`); then the transaction commits
(`Commit`) or aborts unnoticed (`Aborts`). IndexedDB finishes the transactions of
one store in the order of their creation, and nothing reads the store in between,
which is why `queue` is a FIFO and both are one step. `Restart` drops memory and
queue. `PutFails` and `LoadFails` are rejected promises. `lost` says that a put
failed or was aborted since the start.
`CopilotClient`: `Call` numbers and posts, `WorkerStep` is the worker's
onmessage, `Deliver` the main thread's, `ReplyShown` the continuation that runs when a
promise resolves. Its names start with `copilot` where `ShellSession` has the
same, because one module of proofs is about both. `Ask`, `Toggle`, `Nudge` are the handlers; `WorkerDies` is the
error event that nothing listens to.

*Window.* Six parts that share no state, each a module with its own variables,
`Init` and `Next`; `Window` runs any of them and leaves the others alone:
`TabStrip` (the strip, its groups and the active tab of `main.ts`),
`CommandPalette` (text, highlight, Enter, over `fuzzyMatch` and `rank` as they
score), `SitePermissions` (`PermissionStore`, Android's `SecurityPolicy` and
`SiteSettings`: three editions of one question; the clock may be set back),
`BackgroundTab` (one tab over time, as the memory saver, the throttling of timers
and the shell's panel judge it; `away` is the time in the background, which the
first two are passed, `untouched` the time since the last interaction, which the
panel takes and which passes in the foreground too), `StoreInstall` (the two
awaits of `install`, each answered with any listing and any package) and
`History` (the index and its ranking; `Cosine` is a table of the f32 scores that
the code computes for two embeddings, rounding included, in their order).
`PageWork` holds pure algorithms: batches of draw calls, energy, the
fingerprinting budget with costs in fractions of any size.

*Navigation.* `RendererIsolation` models `select`, `site_for_url`,
`principal_for` and the two process maps; an address is its scheme and its text
cut at separators. `NetPolicy` has the decisions of `engine/net`. `Navigation`
composes them: a page is asked for, upgraded or not, connected under the policy
in force, and only then given a process; frames are embedded and ask for
storage; the policy changes at any time. The order of these calls is an
assumption, because the shell that would make them is not in the repository.

*Sync.* `SyncRegister` (abstract) is one register for each record whose version
never goes back. `Sync`: `Prepare` is `prepare_upload` with `seal`; `Upload` is its
caller, who picks the account, collection and name to put it under and the
version, since the data type it is tagged with reaches no server. `ServerPut` is
`SyncStore::put` for a request that arrives late, again or never, `ApplyDownload`
is `get`, `open` and `apply_download`. The network is the set `sent`: whatever
is in it may arrive at any time. A download answered late is one that shows any
state an accepted put once made. The cipher is taken for a perfect one that
authenticates nothing, as `open` does.

*Agent.* `Agent` follows the ownership of the code: a policy is filled (`Grant`),
a host is built on it (`NewHost`, `Register`), the host is handed to a runtime
(`NewRuntime`), which steps. Its journal is private and nothing undoes in it;
`Record` and `Undo` are of a journal that an embedder keeps, which shares nothing
with a runtime. `Redaction` has the detectors, Luhn's
checksum, `redact`, `parse_did` and `verify_presentation`; `Send` redacts a text.

`...Proofs` hold the proofs and nothing else (`PolicyEngineProofs` those of the
whole policy engine, `ShellProofs` those of session and copilot, `WindowProofs`
those of the window's parts); `SharedLemmas` has what they share: least and
greatest numbers of a set, induction over a set of numbers, and what
`Arrangement` returns; `MC...` give constants that a
configuration file cannot express, and check pure operators against reference
definitions in their ASSUMEs. Operators marked "Faulty variant" are not used by
any specification: each is a plausible bug in the code, and for each property
there is one that TLC finds.

## 4. Runs

| Run | Instance | Distinct states | Shows |
|---|---|---|---|
| broker | 2 processes, 2 threads, 1 origin, 2 authorities, 2 ids, ttl 1..2, times 0..2 | 106 577 | `NoAmplification`, `AcceptedIsGranted`, `RegistryTracksGrants`, `RefusalIsFinal`; implements `CapabilityAuthority` |
| policy_engine | library: 2 keys, 4 layers, locks; every command line of up to three options; bundles of up to 3 signatures; spans of up to 2 inputs; logs of up to 7 entries; 1 extension, user and enterprise writing, all manifests | 19 736 | `EngineTypeOK`, `ResolveIsPrecedence`, `ImplementsTable`, `ReportIsWhatWasAsked`, `AcceptedIsDualSigned`, `TamperEvident`, `TruncationEvident`, `Mv2BlockingNeedsApproval`, `EnterpriseBinds` |
| extension_policy_mv3 | 2 extensions | violated | section 6 |
| session_safety | 2 edits, 1 wizard, 2 writes in flight | 3 055 954 | `RestartShowsTheSame`, `RequiredFieldFilled` |
| session_onboarding | 1 edit, 1 wizard | violated | section 6 |
| copilot_order | 2 questions, 6 messages | 53 243 | `AnswersInOrder`, `PendingExact`, `AnsweredWhileWorkerRuns` |
| copilot_dead | 1 question, 4 messages | violated | section 6 |
| navigation | 5 addresses of 4 sites, 4 kinds of servers, 3 policies, 2 pages, 3 frames | 106 491 | `SameSiteSharesProcess`, `DifferentSitesNeverShare`, `PlaintextOnlyWhereAllowed`, `PlaintextNeverSharesWithTls`, `StricterIsSafer`, `PartitionsAreApart` |
| sync | 2 devices, one with a mistyped passphrase, 3 records of 2 accounts, 2 texts, 2 versions, 3 uploads | 133 857 | `AnswersStayTrue`, `ReadsAreWrites`, `ListIsWhatWasAccepted`; implements `SyncRegister` |
| agent | 2 sites, 2 permissions granted, 8 tools, 3 actions; a journal of up to 3 records; texts of two words out of nine, every setting | 15 600 | `NothingUngated`, `JournalIsWhatStands`, `NothingDetectableLeaves` |
| window | 3 tabs, 2 groups; 3 commands, texts of up to 3 letters; 2 origins, 1 permission, times 0..2; looks at a tab every 100 s up to 2000 s; 2 extensions, 3 packages, any listings; 5 pages, 4 visits | 42 296 | `WindowConsistent`, `SelectionInList`, `PermittedOnlyOnWord`, `LowerLayerCannotLift`, `FrozenIsThrottled`, `OnlyDeeper`, `ConsentCoversPackage`, `FindsTheClosest` |
| palette_omnibox | as window | violated | section 6 |

The ASSUMEs of the MC modules, evaluated with these runs, compare pure
operators with a reference: greedy fuzzy matching finds exactly the labels that
contain the query as a subsequence (`PaletteAssumption`); batches keep the list
of draw calls and merge all neighbours that agree (`BatchAssumption`); energy of
two windows never exceeds that of both together (`EnergyAssumption`); no sequence
of accesses, of halves and of negative costs among them, overdraws a privacy
budget or is granted what it was refused (`BudgetAssumption`); a negotiated key
exchange is the best both sides can do (`HandshakeAssumption`); a decision has
one log line whatever the order of its inputs (`LineAssumption`); redaction
settings only hide findings and a slip in a card number is no card
(`RedactionAssumption`); DIDs (`DidAssumption`).

Why the bounds are enough. Broker: two threads suffice for every race on the
counter, two ids for a confusion of grants, two processes for delegation, two
authorities to give one up; the tokens of an id all carry the origin it was
registered for, so a second origin adds no interleaving (the theorems are for
any number of them); `Width = 3` makes a ttl overflow.
Policy engine: four layers are all there are; a lock before, between and after
two values takes three options; three signatures are one more than needed; logs
of five to seven lines are odd on their lowest level, their second, or both; a
decision is about one extension and reads no other's settings.
Session: a savePrefs and a finishWizard, or two savePrefs, in flight at once are
all pairs of async functions there are. Copilot: one question overtaking another
needs two; six messages leave room for chips and a nudge between them.
Navigation: no property relates more than two frames or pages, and the addresses
cover each way to derive a site; two pages have two policies between them. Sync:
an overwritten, a repeated and a refused request are three; a mistyped passphrase
beside the right one covers both kinds of readers. Agent: an undo between two
records and one after them need three. Window: a group of two with a tab outside
is three tabs; the 2000 s go past each threshold; of the pages, one has no words
and two have equal cosines but scores that differ in the last place. All bounds are named constants;
the modules take any values. The run has a clock that only goes forward, as
`RefusalIsFinal` needs; that the other broker properties hold under one that is
set back (`SkewSpec`) is proved.

`CHECK_DEADLOCK FALSE` is set for the broker (ids, the clock and the room of a
process run out and every token may be revoked), the policy engine (a command
line ends, an accepted bundle is the last, the log is bounded), the session
(edits and wizards run out; a rejected start leaves only Restart), the copilot
(messages run out), the agent (its actions do) and the window (visits do): in
each the bound ends the instance, or the program itself ends, as a command line
does. Deadlock is checked for sync and navigation and for the extension
decisions, which never stop.

Symmetry is used for the broker, over processes, threads, origins and
authorities, and for sync, over the texts of records: none of these does the
code or a property tell apart. It is not used with a liveness property.

Fairness. Only `CopilotClient` has a liveness property, and assumes weak
fairness of `WorkerStep` and `Deliver`: an event loop runs whatever was posted
to it. Nothing is assumed of the user, of the nudge timer, or of a worker that
has died. Nothing else in the modelled code promises that something happens:
the broker, the resolver, the stores and the agent answer calls, and who calls
is outside the repository; sync has no retry.

## 5. Proofs

| Theorem | Module | Of |
|---|---|---|
| TypeCorrect, NeverAmplified, RegistryIsExact, VerifyIsSound | CapabilityBrokerProofs | `SkewSpec` |
| RefusalStands, BrokerImplementsAuthority | CapabilityBrokerProofs | `Spec` |
| ResolverPrecedence | PolicyEngineProofs | `Spec` of `PolicyResolver` |
| PrecedenceHolds, ResolverImplementsTable, ReportIsAsked, BothSignaturesVerify, TamperingShows, TruncationShows, EnterpriseDecides, Mv2SignOff, EngineTypeCorrect | PolicyEngineProofs | `EngineSpec` |
| LinesAreReproducible | PolicyEngineProofs | any decision, any inputs |
| CopilotTypeCorrect, PromisesAreExact, AnswersAreInOrder | ShellProofs | `CopilotSpec` |
| PreferencesSettle, RestartSafe, SpaceIsNamed | ShellProofs | `Spec` |
| TypeCorrect, SitesKeepTheirProcess, SitesAreApart | RendererIsolationProofs | `Spec` |
| NavigationIsLoading, NavigationKeepsProcesses, PlaintextIsAllowed, StricterIsNoWeaker, PlaintextIsApart, PartitionsApart | RendererIsolationProofs | `NavSpec` |
| TypeCorrect, AnswersAreKept, ListIsComplete, ReadsAreOfWrites, Refinement | SyncProofs | `Spec` |
| GateHolds, JournalIsExact, RedactionIsIdempotent | AgentProofs | `Spec` |
| StricterHidesMore, SlipShows, DidsRoundTrip | AgentProofs | any text, any word |
| SaverAgreesWithThrottling, LeftAloneOnlyDeeper, HighestLayerCounts, NothingBecomesPermittedUnasked, InstalledAsShown, StripIsConsistent, HighlightStaysInList, ClosestAreFound | WindowProofs | `WindowSpec` |
| MatchesAreExact, BudgetHolds, EnergyHolds, BatchesHold | WindowProofs | any query, any accesses, samples and items |

Together they state every invariant and every safety property that the passing
runs check; those without a specification are about what the code computes, and
the ASSUMEs of the MC modules evaluate the same formulas. They hold for any number of processes, threads, ids, origins, keys,
arguments, signatures, log lines, questions, messages, edits, writes in flight,
addresses, devices, records, versions, sites, tools, actions, tabs, commands,
letters, visits and words, under the named assumptions of the modules:

- bounds are naturals (`CopilotBounds`, `InputAssumption`, `TimeAssumption` and
  others), `MaxTime` fits `Width` (`BrokerAssumption`), versions are naturals,
  `NoBlob` and `Garbage` are no content; a card has at least one digit
  (`CardAssumption`);
- values that stand for "none" are none of the values: `Unset`, `NoKey`;
- what is enumerated has the shape the code gives it: arguments are sequences of
  strings, what follows `--key` is a key and what `split_once` returns is a value
  of that key (`WordsAssumption`); a bundle is a sequence of signatures
  (`BundleAssumption`); inputs of a span are pairs (`InputAssumption`); policies are policies of the crate; an upgraded address
  is an address (`UrlAssumption`); labels, pages and buckets are finite
  (`LabelAssumption`, `PageAssumption`); scores are ordered like naturals, and one
  is above zero exactly when the embeddings share a bucket, which f32 rounding
  does not change for vectors of counts (`CosineAssumption`);
- `HostAssumption`: a host has no bar. The partition key joins its parts with a
  bar and nothing in `partition_key` refuses one, so the theorem needs what the
  parsers of addresses ensure.

Induction. The provers take no induction rule with an operator in it. Where a
proof needs one it goes by the least number that is not in a set (`Induction`,
`Least`, `Greatest` in `SharedLemmas`), and what is computed step by step is a
recursive function (`AuditLog!Levels`, `Redaction!Sums`,
`CommandPalette!Scanned`, `PageWork!Spending`, `PageWork!Batching`, `Attaching`),
whose values are followed that way; `Iterates` says that such a function exists.

*Arrangements.* `Arranged(I, Order)` puts the n-th member of I where n - 1 come
before it. `ArrangedLists` shows by induction on the size of I that for a strict
total order this lists every member once and in order, `ListsUnique` that only
one list does, `SortedIsArranged` that a list which is in order already stays as
it is, `KeepIs` what retain leaves. Sorted vectors, filters and rankings below
are corollaries.

*Broker.* `NoAmplification` and `RegistryTracksGrants` are not inductive. Their
strengthening `IInv` adds that ids not yet handed out are known nowhere
(`UnusedIdsAreFresh`) and that the id of a mint in progress belongs to that call
alone and is registered for its origin once the call says so
(`JobsOwnTheirIds`); without these two a second mint could register over the
first. `AcceptedIsGranted` then follows in each state: what verify accepts is
covered by a grant, and a registered id is not revoked. `RefusalIsFinal` needs
that a revoked or foreign id is never registered again and that time grows,
hence `Spec` and not `SkewSpec`.

*Refinement of the authority.* `usable` maps to what verify accepts, `granted` to
the ids of the grants. MintTakeId, MintRegister, MintPanic and Attenuate are
stutters, MintStamp is MakeGrant (of no authority when the token is dead on
arrival), Pass is Delegate, Revoke is Revoke, Tick is Lapse. Each has its lemma.

*Resolver.* `ResolverInv`: the vector of a key is strictly ordered by layer, so
each layer is in it at most once, its last entry is the winner and it has at most
four. `SetIn` keeps this because retain leaves none of the layer that is pushed;
the stable sort is needed for the order, not for its stability. The table that
it implements is read off the vector (`Cells`), and a set is `LayeredPolicy`'s
`Set` on it. `ResolverInv` also says that these cells are the last writes, which
`lastWritten` remembers on its own, so `resolve` answers with what the winner
wrote last (`LastIsWinner`, `AnswersAsWritten`).

*Command line.* `ReadInv` follows the two loops: in the first, the locks are those
of the options before `at`; in the second, `key` is the last key before `at` and
each cell of a key is what the last `--set` for it before `at` asked for. In
a well-formed line options stand at odd positions, so neither loop ever takes a
value for an option (`OptionsAlternate`). The report is then the winner of the cells. `BothSignaturesVerify`: `find` takes
the first signature of an algorithm, which more signatures at the end do not
change.

*Audit log.* A round of hashing maps different lists of one length to different
lists (`ParentInjective`), and each halves the length, so equal roots go down to
equal leaves (`RootsDiffer`). For a truncation the two trees may have different
heights: from the root down the same hashes occur in both (`RootDetermines`), so
the heights agree, which is why less than half can be cut off, and the kept
entries hold all that was lost. `SpanInv` says that the inputs of a span are a
set, in their order, whatever order they came in. `LinesAreReproducible` says the
same of any number of inputs: after n of them the span holds those n, arranged.

*Extension policy.* If the enterprise layer has set a key it is the winner of
that key, so a step that leaves enterprise cells alone leaves every decision
alone.

*Session.* `RestartShowsTheSame` speaks of an empty queue only. The
strengthening is `Settling`, a statement of every state in which no put has
failed: for each preference, a function in flight will still write it, or the
last write queued for it is of the value shown, or none is queued and the disk
has it. savePrefs and finishWizard preserve it because each reads the value when
its turn comes (`ValueOf`), so the last to write a preference writes the current
one; a change starts a function that will. `Fresh` adds that a window that is
loading has nothing in flight. `RequiredFieldFilled` is strengthened to windows
that are not up (`PastProfileNamed`).

*Copilot.* `PendingExact` follows from `Numbering`: what is on its way, replies
first, are the latest calls in order, numbered without a gap. The order of both
channels is needed for it, although the property does not speak of order. `AnswersInOrder` needs
more: every question asked is in exactly one place, and those answered precede
those the worker has answered, which precede those posted to it (`OrderInv`).

*Isolation.* `IInv` says that each map is an injection into the ids its counter
has passed, and that what was handed out is what the map says. Across engines
the ranges must be disjoint; the code does not ensure this, so `SitesAreApart`
assumes it (`RangesApart`) and section 6 says when it fails.

*Navigation.* Every step of `NavSpec` is one of `RendererIsolation` or leaves its
variables alone (`NavigationIsLoading`). `NavInv` adds that what is remembered of
a page is what `Connect` says of it under the policy that was in force, and that
its process was handed out to its address. `PlaintextOnlyWhereAllowed` and
`StricterIsSafer` are then case analyses of the decisions (`DecidedAddress`,
`NegotiatedGroup`, `Connected`); `PlaintextNeverSharesWithTls` follows from the
scheme being part of the site. `PartitionsApart` cuts a key at its first bar: what
is before it is the top-level site, which has none, so keys that agree agree in
the site (`JoinedTwice`), and what is after it is the embedded address, of which
the scheme is cut off at its first separator (`EmbeddedIs`).

*Sync.* `AnswersStayTrue` needs `StoredWasAccepted`: what the server stores under
a key was accepted under that key. Then an accepted put can only be replaced by
one that is not stale. `ReadsAreWrites` is kept because a
download is of an accepted put, and what was accepted is never forgotten
(`ReadInv`). The refinement maps
`records` to the register: a put that is not stale is `RWrite`, everything else
stutters.

*Agent.* `NothingUngated` is kept because grants and tools cannot change once a
runtime exists, and nothing is recorded before (`DoneInv`). For
`JournalIsWhatStands` the witness `at`, which says for each entry which action it
is (`Tracks`), is carried along: a record extends it, an undo cuts its last value,
and that value is the largest action standing. A runtime only records. `RedactionIsIdempotent`: no
detector answers on a placeholder (it has no @, no digit, no prefix of a key, and
brackets), and what is kept is what no detector answered on; so a redacted text
has no findings under the settings it was redacted with. `SlipShows`: a slip in
one digit changes Luhn's sum by 1 to 9, so of the two sums one is no multiple of
ten. `DidsRoundTrip`: the word is cut at its first two colons and glued again.

*Window.* Each proof is about one part; steps of the others leave its variables
alone. `SitesInv` adds that only a recorded grant has a layer;
`NothingBecomesPermittedUnasked` needs of a step that the clock does not go back,
for then what has lapsed stays lapsed (`NothingLapsesBack`). `StoreInv` says that
while a package is awaited the review is of the listing. `TabInv` says that a tab
was last touched before it went to the background, so what the engine discards
after half an hour the panel has offered after ten minutes.
`StripInv`: the strip lists opened tabs, each once, groups have only tabs of the
strip, and the active tab is one of them or the strip is empty; closing needs
that what is left of a list without a tab is the list of the others, moving that
it is a rearrangement. `PaletteInv` adds only that the highlight is a number: each
handler clamps to the list it has just computed, and what is shown when the
palette opens is at its top. `ClosestAreFound`: scores are numbers and equal ones go by age,
so the ranking is of a strict total order (`ScoresOrder`) and a truncated one has
its first members; a shared word makes one bucket of both embeddings positive,
and so the score (`SharedWordCounts`). `BudgetHolds`: after n accesses what
remains is not negative (`SpendingIs`), and without negative costs it only
shrinks. `MatchesAreExact`: after n
letters of a label the greedy scan has placed as many letters of the query as any
embedding can, so it ends with all of them if one exists. `BatchesHold`: a call
that is drawn once more draws one item more at its end, and what follows a call
of another layer or kind is another call.

Model-checked only: liveness (`AnsweredWhileWorkerRuns`), which the provers do not
reach; the handshake (`HandshakeAssumption`), whose three groups and levels TLC
evaluates completely; and the four runs of section 6, which are
counterexamples.

## 6. Where code and documents disagree

Runs that TLC refutes:

- `copilot_dead`: a worker that fails after construction leaves every later
  question unanswered. The local engine is used only if the constructor throws.
- `session_onboarding`: finishWizard stores `onboarded` first. A crash before
  the next write leaves a profile without configuration for good.
- `extension_policy_mv3`: the V3 host ignores `webRequestBlocking` among the
  permissions, so no sign-off is asked.
- `palette_omnibox`: ArrowDown in an empty list leaves the highlight at -1; when
  the text matches again, Enter takes it for an omnibox intent although commands
  are shown.

Read off the code and the models, without a run of their own:

- A ttl above `u64::MAX - now` wraps: the token is dead when mint returns it, or
  mint panics after it has registered the id (`ExpiryFrom`, `MintPanic`). The
  safety properties hold in either build.
- verify knows ids and origins, not brokers: every broker counts from 1, so one
  accepts a token of another with the same id and origin, though the doc says
  "one this broker minted".
- audit.rs has a test named for append changing the root; repeating the last
  entries of an odd level keeps it. `TruncationEvident` says exactly how far this
  goes.
- The usage text at the head of `main.rs` of the policy engine names an option
  `--layer`; the code knows `--set`.
- storage.ts promises a fallback whenever IndexedDB is unavailable; it exists
  only when `indexedDB` is undefined. A failed open ends `start()` (`LoadFails`).
- Notes are kept in memory only, though their panel says "stored locally".
- finishWizard stores the live wizard's configuration, so Back and an emptied
  name while `onboarded` is being written reach the store; and when it ends it
  closes whatever modal is open.
- Blink numbers processes from 1000, Gecko from 2000, and nothing is given back:
  the 1001st Blink site shares an id with the first Gecko process.
- `principal_for` does not cut a host at `?` and `#`; `site_for_url` does.
- `docs/00-architecture.md` says "one renderer process per origin"; both maps
  work by site, so `a.com` and `www.a.com:8443` share one.
- `https_only::Decision::Blocked` is never returned: what HttpsOnly cannot
  upgrade fails at the handshake.
- Two devices that put the same version overwrite each other and both are told
  Ok; a repeated upload of the current version does the same. `apply_download`
  sees no version, so a late answer replaces newer content on the device.
- `agent-runtime` documents that its texts are redacted; nothing in it calls
  redaction.
- `OneTime` in `SiteSettings` counts as granted until the next set; a grant of a
  higher layer on Android that has lapsed still keeps lower layers out.
- No edition removes a grant that lapses: a clock that is set back, or an older
  `now` passed in, revives it (`SetBack`).
- A tab that was audible past its limits is discarded as soon as the sound
  stops; the shell's panel offers to freeze a tab that captures, and one that was
  looked at for ten minutes without a touch as soon as it is left, while the
  engine still calls it active.
- `install` never compares the id of the listing with the id it asked for, and
  nothing compares the permissions that a listing names, which the user is shown,
  with those of the package that has its digest. `ConsentCoversPackage` has the
  clause on what was shown for listings that tell the truth (`Truthful`).
- `set` of storage.ts resolves when the put succeeds, before the transaction
  commits; one that aborts then goes unnoticed (`Aborts`).
- provenance.rs speaks of "a stable serialization for the audit log"; no code
  appends a line to one. The simulator prints its line.
- `prepare_upload` tags a record with its data type; nothing ties the tag to the
  collection under which the record is put.
- journal.rs is "append-only" and has `undo`; the runtime keeps its journal private
  and offers no undo, though lib.rs speaks of reversibility.
- search ranks by f32 cosines of rounded unit vectors: pages with the same cosine
  may rank either way, whichever is older.
- `try_spend` takes a negative cost and raises what is left.
- `batch` merges neighbours only, though it is documented as grouping by layer
  and kind; an empty energy window gives NaN.
- layouts.ts: panes "always tile the full viewport"; a grid of three leaves a
  hole.
  `SpaceManager.create` takes any `cookieJarId`; `isIsolated` is where sharing
  shows.

## 7. Not modelled

`PROJECT.json` lists every component with its status. Left out for good: the
upstream engines and the JavaScript bindings, OPA with the Rego text and the
schemas, the Tauri glue, the wasm edition, build and packaging, what the copilot
says, picture in picture, reader and devtools panels. They are configuration,
wording or glue without state, or not in the repository.

Within modelled components: `Message` of the ipc crate has no behaviour; JSON
errors of manifests; wizard fields other than the space name and the theme;
per-site themes and `autoByTime`; `toggleCollapse` and `setMuted`; the omnibox
classifier; `Profile` and zoom; canvas noise, the attestation list, the capture
match; `CertSigAlg` and `ct_required`, which nothing uses; FNV-1a itself. Spaces,
side panel and layouts have no caller that composes them, and their lists add no
interaction to the strip's. The Swift policy repeats the Kotlin one line by line;
the tab lists of mobile are lists with a selection. Dashboard, friction, privacy
score, about pages and native apps are pure helpers that unit tests cover.
