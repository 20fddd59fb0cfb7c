# A TLA+ model of llm-ffw

`llm_ffw` is a Python library that inspects and rewrites the text an application
sends to a language model and receives from it. Two things in it are difficult.
The first is concurrency: scans run in a bounded pool of worker processes that
time out, crash and are replaced while requests keep arriving, catalogs are
swapped at run time, and asynchronous callers come and go. The second is text:
rules with limits of their own find things that overlap, what one of them removes
changes what the others see, and a stream must decide all this before the text has
ended. This directory models both. Paths below are relative to the repository.

## Inventory

| Component | Source | State | Operations | What makes it correct |
|---|---|---|---|---|
| Process pool | `llm_ffw/process_pool.py` | lifecycle state, semaphore, executor, two futures per scan | start, submit/scan/process, shutdown, terminate, kill, timeout quarantine | no slot lost or released twice; work enters only while RUNNING; a graceful close drains; CLOSED is final; callers return although workers hang |
| Synchronous facade | `llm_ffw/facade.py` | `_lifecycle_lock` around the pool | start, close, terminate, kill, sanitize_* | operations are serialised and return; a close that returns leaves the pool CLOSED |
| Manager | `llm_ffw/manager.py` | state, active and retired generations, leases, two locks | start, reload, reload_builtin_catalog, restart, close, sanitize_* | no generation closes under a request; no workers leak; a reload terminates and changes the catalog as asked |
| Async facades | `llm_ffw/async_facade.py` | accepting/closed flags, semaphore, pending futures, asyncio lock | run, start, reload, restart, close, terminate, kill | a slot follows the scan and not its caller; nothing runs after the drain; lifecycle tasks end |
| Streaming | `streaming.py`, `_stream_coordinator.py`, `_incremental_stream.py`, `_payment_card_stream.py` | buffers, offsets, retained window, stream state | constructor, feed, finish, cancel | the stream equals the redaction of the whole text; what it keeps is bounded, and dropped when it ends |
| Policy | `policy.py`, `redaction.py`, `findings.py` | none (immutable results) | apply, apply_with_rescan, staged scan, JSON postcondition | spans survive removal and rescan; overlapping findings are covered; output that passes is valid |
| Scanner | `engine.py`, `inspection.py`, `normalizers.py`, `literal_matcher.py` | none | scan | order, scope filter, original offsets; limits hide nothing |
| Rules | `rules/`, `unsafe_url.py` | none | scan | a limit or another match never hides a match |
| Tool traffic | `tool_call.py`, `tool_result.py`, `structured_content.py`, `rules/tool_call.py`, `rules/tool_result.py` | a stack and counters while validating | construction, validate | exactly what schema, limits, linkage and scanner admit passes |
| Catalogs, configuration | `secret_catalog.py`, `config.py`, `discovery.py`, `capabilities.py`, ... | none | construction | validation |

How they interact: an application calls a facade. `AsyncFirewall` runs the
synchronous facade in a thread pool; `AsyncFirewallManager` does the same with
the manager; the manager leases one `Firewall` per request and replaces it on
reload; a `Firewall` owns one `ProcessScannerPool`; the pool submits to a
`ProcessPoolExecutor`, whose manager thread calls the pool back with each answer,
and applies the policy in the caller's thread, which may submit a second scan.
A `RuleEngine` takes the same steps without a pool. A `FirewallStream` either
keeps the whole text and hands it to a `RuleEngine`, or runs a coordinator, which
feeds a card detector and, behind it, the engine for secrets.

What is hard here: callbacks that run in three different threads (the caller,
another caller that cancels, the executor's manager thread); timeouts that race
answers and quarantine the requests of others; `shutdown`, which waits without
holding a lock; cleanup that fails in the middle; reloads that drain while new
requests arrive; cancelled tasks whose work goes on. In the text part: two
detectors that are ahead of each other by a changing number of characters;
findings that overlap, touch, nest or are empty; spans mapped back through
removals; second scans; limits in every rule. `PROJECT.json` lists each hazard at
its line with the properties that cover it.

## Modules

Concurrency:

* `BoundedAdmission` - abstract: a gate that opens at most once, capacity, work
  that enters through the open gate and leaves once.
* `ProcessPool` - the pool; implements `BoundedAdmission`. `MCProcessPool` adds
  the symmetry sets, `ProcessPool_proofs` the theorems.
* `FirewallLifecycle` - extends `ProcessPool` with the facade and its lock: only
  the facade calls the pool's lifecycle operations. Its theorems are in
  `ProcessPool_proofs` too.
* `GenerationSwap` - abstract: readers pin the current version; a version is
  disposed of only when nobody pins it and it was replaced or the gate is shut;
  a successor is prepared only when no other version lingers.
* `FirewallManager` - the manager; implements `GenerationSwap`. Theorems in
  `FirewallManager_proofs`.
* `AsyncFacade` - the request runner and the lifecycle of both async facades;
  implements `BoundedAdmission`. Theorems in `AsyncFacade_proofs`.

Text, each building on the ones above it:

* `Redaction` - spans, findings, their order, merging and the rewriting of a text.
* `SecretScan`, `CardScan` - the secret and payment-card rules over a whole text,
  secret catalogs, and the card detector of a stream.
* `IncrementalStream` - the streaming engine and its coordinator, as functions on
  records of their attributes. `Policy` - actions, overrides, removal maps.
* `FirewallStream` - the stream as a state machine, with whole-text processing as
  its specification. `MCFirewallStream` has its configurations,
  `FirewallStream_proofs` its theorems.
* `Inspection` - normalisation, runs of hidden characters, and the three rules
  that remove them. `TextRules` - banned literals, repetition, JSON output.
  `ConnectionScan` - connection strings. `LinkScan` - external resources and
  unsafe URLs.
* `RuleEngine` - one call of `RuleEngine.process`, step by step, over these rules.
* `ToolGate` - extends it with the rules for tool calls and tool results, which
  use a scanner for content. `MCRuleEngine` has the engines and requests of both.
* `Folding` - what a fold over a sequence and a recursion over the numbers
  compute, for any step: lemmas that say nothing of the program, which the proofs
  about its loops instantiate.
* `Redaction_proofs` - merging, rewriting and removal maps. `RuleEngine_proofs` -
  one call of the engine. `ToolGate_proofs` - tool calls and results.

Definitions named "Mutant of X" are not used by the specifications. Each is a
plausible bug in X, kept to show that a property notices it.

### ProcessPool

`state`, `attached` (`_executor is not None`), `lifecycle` (holder of
`_lifecycle_lock`) and `permits` are the attributes. A caller `r` is one call of
`scan`, `process` or `submit`; `pc[r]` is its position in `_submit` and in the
wait for its result, `raw[r]` the executor's future, `result[r]` the one the
caller got, `cb[r]` and `runner[r]` the stage of the callback `complete` and the
thread that runs it. `op[t]` and `captured[t]` are a lifecycle thread and its
local `executor`. `exec`, `cancelling` and `killed` describe the executor.

A section under `_state_lock` is one action; so is each of the three stages of
`complete` (mark broken, release, publish), since the code runs them without a
common lock. A lock held across a blocking call is a variable. The standard
library's executor is external: `Dispatch`, `WorkerAnswers`, `WorkerDies`,
`FailOutstanding`, `DropQueued`, `SignalWorkers`, with its manager thread running one
callback at a time. `Rescan` is the second scan of `process()`, with a slot of
its own. Text, findings and the time of a timeout are abstracted: a timeout may
fire at any moment while the answer is outstanding.

Only the outcome of `executor.submit` under a broken or closing executor, of a
scan (value or error), and of cleanup (`CleanupMayFail`) is left open.

### FirewallLifecycle

`call[t]` and `stage[t]` follow a thread through `start`, `close`, `terminate` or
`kill` ("force"), from its call to the release of `facadeLock`; `EnterPool` takes
the pool's own first action and `InPool` its later ones. Requests take no facade
lock. The facade never calls `submit`, so `Abandon` is not part of it.

### FirewallManager

Sections under `_condition` are actions, the condition's waits are guards (every
change that can end a wait notifies). `reloadLock` and `lifecycleLock` are held
across blocking calls. A generation's firewall is reduced to `fw[g]`; `Started` is
running or crashed. Requests repeat for ever, generation identifiers are reused
when nothing refers to them, so runs are unbounded in length with three
identifiers: active, previous and candidate never coexist with a fourth.

### AsyncFacade

What a task does between two awaits is one action. `job[r]` is the work in the
thread pool, whose slot `Completed` gives back on the loop; `task[r]` is the
awaiting task, which `CancelTask` may take away. The semaphore's first-in
first-out order is abstracted. Cancelling a lifecycle task has no effect on the
state, because the cleanup is awaited with a shield, and so has no action.

### Redaction, Policy, Inspection and the rules

A text is a sequence of characters, a character a symbol of a small alphabet: one
or two of each class the code tells apart, and one symbol for a fixed word such as
`https://` or `password=`, which counts for one character in limits and spans. A
span keeps the code's zero-based, half-open offsets. Severity, messages, previews
and metadata are left out; a finding is its rule, its action and its span.

Where the code runs a regular expression or a cursor, the model defines what it
finds: the first offset of a kind (`FirstWhere`), the run that the lookarounds
leave no choice about (`RunEnd`), the prefix alternation with the longest prefix
first (`PrefixesAt`), and folds over offsets where an earlier match decides what
is looked at next (`Tokens`, `FindURLs`, `SeeField`). Every limit of the code is a
constant or part of a configuration.

### IncrementalStream and FirewallStream

The records `NewEngine`, `NewDetector` and `NewCoordinator` hold the attributes of
the three objects (`pending`, `offset`, `open` for an unbounded token that goes
on, `waiting` for external findings, `source`, `held`, ...). `EngineFeed`,
`CoordinatorFeed` and so on map such a record and a chunk to the next record and
the text released. In `FirewallStream` a chunk is one step; `released` collects
what feed and finish returned, `source` every character that was accepted.
`Resolve` is the constructor's choice between incremental and buffered execution.

The loops of `Redaction`, `Policy`, `RuleEngine` and `ToolGate` are folds with a
step of their own each (`InsertSpan`, `MergeStep`, `Add`, ...): one round of the
loop is one operator, which the runs can mutate and the proofs reason about.

### RuleEngine

`Write` builds the argument; from there each step is one of the code's: the whole
scan or the staged one, removal, second scan, policy, JSON postcondition.
`result` holds the `FirewallResult`; an exception is the phase "raised".

### ToolGate

`request` is one tool call or batch of results. `Build` is the construction of the
data under its own limits; `ValidateCall` starts the loop over the stack, of which
`Visit` is one round; `Inspect` is the content scan of one string, which uses
`RuleEngine`'s scan. `JSONValues` are the values that occur in requests, at any
depth; `IsValue` and `IsRequest` say what the constructors let through, and TLC
evaluates them for the requests of the run.

## Runs

| Run | Asks | Bounds |
|---|---|---|
| `pool_safety` | type, slots, drained close, refinement of `BoundedAdmission` | 2 callers, 2 threads, 1 slot, cleanup may raise |
| `pool_liveness` | callers return and slots come back although workers hang; terminate or kill ends a waiting shutdown | 1 caller, 2 threads, 1 slot |
| `pool_force` (violated) | terminate or kill closes the pool | 1 caller, 1 thread |
| `firewall` | facade lock, close leaves CLOSED, operations return | 1 caller, 2 threads, cleanup may raise |
| `firewall_escalation` (violated) | terminate or kill returns while a close waits for a hung worker | 1 caller, 2 threads |
| `manager` | leases, leaks, catalogs, exclusive reload, refinement of `GenerationSwap`, operations return | 2 requests, 2 operators, 3 generations, 2 catalogs, cleanup may raise |
| `async` | slots follow work, drained close, idle closed runner, refinement of `BoundedAdmission`, operations return | 3 requests, 2 lifecycle tasks, 2 slots, 1 thread |
| `async_kill` (violated) | terminate or kill that returns has closed the firewall | 1 request, 1 lifecycle task |
| `stream` | a finished stream released and found what the whole text gives; what it keeps is bounded; an ended one keeps nothing | 22 configurations, texts of up to 5, 7 or 11 characters, cards of 2 digits, 1 token, 1 or 2 card candidates |
| `stream_partial` (violated) | the same of signatures with other alphabets | texts of up to 6 characters |
| `stream_retention` (violated) | `AUTO` buffers or keeps a bounded amount of text | 1 configuration, 1 token, cards of 2 digits |
| `pipeline` | rewriting, second scans, hidden characters, JSON, staging, literals, limits, tool traffic | 27 engines, texts of up to 4 to 16 characters, 1 candidate per rule, literals of 2 to 5 characters; some thousand tool requests |

Two callers and one slot are the least that make callers compete, cancel queued
work and quarantine each other; two threads the least that let a second lifecycle
operation overtake the first. Nothing in these systems is counted without end
that would need an artificial bound. In the text runs the length of the text is
the bound (`maxInput`, which the code has too): it leaves room for each candidate,
one more than the limit, what stands before and behind, and chunks that cut it
anywhere. Cards have two digits instead of 13 to 19, which makes the widest
candidate three characters. The code holds back 42 characters, the widest
candidate of 37 with two of context on either side and one to spare. The model's 4
is not in proportion but stricter, the candidate and one character behind it:
what holds with it does not rest on the surplus.
The limits are the smallest that can be exceeded. With one literal reported and
literals of 2 to 5 characters, a group may have four raw matches; engine `Rows` has
room for five in a row, of which a longer literal hides three, and so reaches the
cap and its overflow.

Deadlock is not checked, because every one of these systems may stop: all calls
done, pool closed, stream finished; that nobody waits for ever is stated as a
liveness property instead.

### Fairness

*Pool.* Callers, callbacks and lifecycle threads keep running and timers fire:
they are threads of a running process, and the facades require a finite timeout.
Signalled workers die; the executor's manager thread resolves what a broken or
cancelling executor holds. Workers need not answer and nobody need call.
*Facade, run `firewall`.* Workers in addition answer or die: a graceful close has
no other way to end. Run `firewall_escalation` drops that, and grants that no
thread is starved of the lock, so that its counterexample is the lock and not
starvation. *Manager.* A request ends and a thread inside an operation proceeds.
*Async.* Jobs end, since the synchronous request has a timeout, the loop runs its
callbacks, and lifecycle tasks proceed. The text modules are
sequential and promise nothing under fairness.

### What the violated runs show

* `pool_force`: after a start that failed, or a timeout that quarantined the
  pool, `_executor` is `None` and the state BROKEN; `terminate()` and `kill()`
  then raise `RuntimeError` and the pool stays BROKEN, while their docstrings
  promise to close it permanently. `shutdown()` does close it.
* `firewall_escalation`: `Firewall.close()` holds `_lifecycle_lock` while the pool
  joins its executor. With a hung worker, `Firewall.terminate()` and `kill()` wait
  behind it for ever. On the bare pool the same escalation works.
* `async_kill`: an async `close()` whose synchronous close raised sets `_closed`;
  `terminate()` and `kill()` return afterwards without reaching the firewall.
* `stream_partial`: at the end of a chunk the engine holds back what may be the
  beginning of a prefix, also when that reaches into a token that is already
  certain. The token is redacted, and what was held back of it comes out in clear
  with the next chunk. With the built-in catalog, feeding `xoxb-`, thirty letters
  and `-sk_`, and then `?`, gives `[REDACTED]sk_?` instead of `[REDACTED]_?`.
  Run `stream` has signatures whose alphabets exclude this.
* `stream_retention`: `_constrain_plan` cuts every plan at the start of a card it
  would cut. An unbounded token that may begin inside a card, as one with the
  prefix `1` does in `4111-1111-1111-1111`, is then planned anew with each chunk and
  never opened: all of it stays pending, in `AUTO` mode, which should have fallen
  back to buffering. No built-in signature begins with a digit.

### What the properties leave out, because the code does it

Each is an exception spelled out in a property, found by checking it without, and
confirmed on the code.

* `NothingIsHidden`: a secret that begins inside a token of another signature is
  skipped (`rules/secrets.py:60-64`). `xoxb-`, thirty letters, `-sk_live_` and the
  body of a Stripe key give `[REDACTED]_live_` and that body: the Slack alphabet
  has `-`, `s` and `k`, and its boundary lacks `_`. Additional catalogs can do
  the same to the built-in ones, although the README rejects prefix overlaps
  "instead of weakening built-in coverage" (`README.md:1443`).
* `NothingIsHidden`: image markup that is longer than its limit is reported only
  up to the limit and nothing behind it is inspected
  (`rules/external_resource.py`), unlike an overlong list of URLs, which covers the
  rest (`rules/unsafe_url.py:90-92`); and a bare Markdown destination that reaches
  the limit is neither found nor reported. With `max_markup_chars=16`,
  `![x](https://outside.example/p?d=one)` passes.
* `NothingIsHidden`: when one password too many waits for a context, later ones are
  dropped even if the first have expired by the time the context comes
  (`rules/connection_string.py:275`). With `max_candidates=1` and
  `max_connection_chars=20`, `pwd=aaaa;pwd=bbbb;pwd=cccc;server=x` keeps `cccc`. The
  property does not lift the limits on a credential's and a connection string's
  length: an overlong password before its `Server=` swallows the line and is
  never found, and an unquoted value with a space right at the limit ends there.
* `RaisesOnlyForEmptySpan`: a JSON document that ends too early, with a removed
  character at its end, gets an empty span in the second scan; mapped back it ends
  before it starts, and `process` raises `ValueError` instead of blocking
  (`policy.py:37-50`).
* `NoHiddenCharacterSurvives`: tag characters that begin with U+E0001 right behind
  a valid flag are not found (`inspection.py:163-177`). The property is about
  policies that leave these rules alone: one that overrides them also loses
  their blocking of overflows, as the documentation says.
* `StagingDefersBlocksAndRemovals`: a block or a removal by an ordinary rule in the
  text before hidden characters are removed happens in a whole scan and not in a
  staged one (`policy.py:330-369`). Whether there was one is judged by what the
  policy makes of the first whole scan's findings; one engine has a policy that
  tolerates the hidden characters and so stages nothing.
* `FindsWhatBatchDoes`: an incremental stream that meets a token too many only in
  `finish()` redacts it and reports no finding for it.
* `RetainsBoundedText`: once the card detector has overflowed, the coordinator
  keeps everything that follows (`_stream_coordinator.py:61-82`); and it is about
  catalogs none of whose prefixes begins with a character that cards are made of,
  for the reason that `stream_retention` shows.

## Proofs

TLAPS checks the following for every value of the constants that satisfies the
module's assumption: finitely many requests, at least one slot, identifiers that
differ from the "nobody" value; for text, engines and requests that the
constructors accept. Every theorem about a state machine has an inductive
invariant, defined at the end of the component's module or, for `RuleEngine` and
`ToolGate`, in the module of its proofs.

*`ProcessPool_proofs`* (assumes `PoolAssumption`). `IndInv` is the conjunction of

* `VariablesTyped`;
* `CallerCoherent`, how a caller's position, its callback and its futures relate:
  without it a release could not be attributed to an owner;
* `LifecycleCoherent`, what the holder of `_lifecycle_lock` finds: needed because
  `shutdown` overlaps with everything else and must not reopen the pool;
* `PermitsConserved` and `CloseIsQuiescent`, themselves checked properties.

`PermitsConserved` is the counting argument: only `AcquireSlot`, `Unwind` and
`CallbackRelease` move a slot, and each adds or removes one owner (`OwnerAdded`,
`OwnerRemoved`, `SameHolders`). From `IndInv` follow `TypeCorrect`,
`SlotsConserved`, `RunningServed`, `AnswersReleaseFirst`, `GracefulCloseDrains`, and
with the table of lifecycle moves (`LifecycleMoves`) `ClosedFinal`.
`PoolImplementsAdmission` is the refinement: only `Submit` lets work in
(`SubmitEnters`, below the bound because those inside own slots and the caller
itself owns one) and only `CallbackRelease` lets it out.

*`ProcessPool_proofs`*, second part, about `FirewallLifecycle`. `FacadeImplementsPool`: every step of the facade is
a step or a stutter of the pool, which carries all theorems above over to a pool
inside a firewall. `FacadeInv` adds that only the lock's holder is inside a pool
operation and that nothing moves a pool that it closes; `CloseLeavesClosed`
follows. On the bare pool it is false: a `terminate` that fails between a
`shutdown`'s join and its end leaves BROKEN.

*`FirewallManager_proofs`* (assumes `ManagerAssumption`). `ReloadInv` joins types
and counted leases with `LocksHeld` (at most one thread reloads or closes),
`LocalsAssigned` and `CatalogPlanned` (what a reload read at its check is still
true when it activates). That the manager is RELOADING only while somebody reloads
follows step by step (`SomeoneStep`): every way to give a candidate up ends in an
assignment to the state. Types and leases need each other: a counter stays
natural because its generation has a lessee (`ReleaseCounts`). `FirewallsAccounted`
adds where each firewall that was not shut down is referred to: `NothingLeaks`
alone is not inductive, because a failed reload forgets its candidate, which
must have been discarded, and a close ends when its list is empty, which must
have held every generation. `SwapPrepared` adds what `GenerationSwap` asks of each
step: a candidate that is activated is started and is not the active one, nothing
retired lingers while one is prepared, and what is being closed has no lease.
`SwapInv`, their conjunction, gives `FirewallsNeverLeak` and
`ManagerImplementsSwap`.

*`AsyncFacade_proofs`* (assumes `AsyncAssumption`). `IndInv` adds to the checked
invariants that a waiting task has no earlier work in the pool, that nothing is
admitted from `StopAccepting` on, and that a closed runner is shut and empty.
`RunnerImplementsAdmission` is the refinement.

*`FirewallStream_proofs`* (no assumption on catalogs, texts or chunks).
`StreamInv` says where text can be: an engine with an overflow or an unbounded token
has nothing pending, a coordinator without cards holds nothing, a buffered stream
leaves its coordinator untouched and an incremental one its buffer. Lemmas for
`PlanSegment`, `ApplyPlan`, `EngineFeed`, `CoordinatorFeed` and their `finish` carry
it through the objects. `EndedStreamsAreEmpty` is `EndedStreamsHoldNoText` for every
catalog, limit and way to cut a text; `BufferedStreamsAreWhole` says that a
buffered stream releases nothing early or when blocked, and finds what the whole
text gives.

*`Folding`*. The provers know nothing of the community modules' folds, and cannot
instantiate an induction theorem that takes a predicate. Both are got round here:
`LeastElement` comes from the well-foundedness of the natural numbers, induction
speaks of a set (`InductionTo`) where it would speak of a predicate, and from it
`FoldTrace` says that a fold passes through one accumulator per element, each the
step's result on the one before; `FoldInvariant` is induction over a fold,
`IterationTrace` the same for a function defined from its value at the number
before, `FoldMore` what one more element adds, and `FlattenTrace` and
`FlattenRange` what flattening passes through and holds. All of these are
mathematics and no results about the program. The module is instantiated once per
step of a loop.

*`Redaction_proofs`* (no assumption on text or findings). A span's border may be
that of others, inside others, or a span may be empty; the proof follows the
three loops of the code. Sorting keeps the set of spans and puts their starts in
order; merging gives spans that are sorted, disjoint and cover the same offsets
(its accumulator ends behind everything that was merged); rebuilding goes from
span to span. `SanitizedIsUncovered`: what is left is exactly the characters that
no finding to redact or remove covers, in order, with one marker per redacted
stretch. `RemovalsCompose`: findings in a text from which stretches were removed,
mapped back by the removal map and enforced together with those removals on the
original, give what rewriting the second text would. It needs that the map is
exact: each offset of the second text maps to where the character came from, a
span's end maps to behind its last character, and what lies between is either
covered or removed.

*`RuleEngine_proofs`* (assumes `EngineAssumption`: engines that `IsConfiguration`
admits). `IInv` joins the phases with

* `Engine`, that the engine is one of those that constructors accept;
* `Findings`, that the first scan's findings lie inside the text. That holds
  whatever the rules report (`ScanFits`): offsets are looked up among the
  boundaries that `normalize_text` returns, which lead back into the text in order
  (`LeadsBack`), and a scan with offsets that are not there raises;
* `RemovalMap`, that the map is the one the first findings give, and the second
  findings lie inside its text;
* `Result` and `SecondResult`, what the result was made from. Without them the
  JSON check could not be shown to keep what the policy had decided.

They give `CallsAreWellFormed` (`TypeOK`), `ResultsKeepUncoveredText`
(`KeepsUncoveredText`) and `SecondScanIsEnforced` (`EnforcesWhatWasScanned`).
`PassedOutputIsJSON` (`PassedOutputIsValid`) adds `JSONInv`: whichever scan is the
last has seen whether its text is JSON, a result that keeps this text reports what
the scan saw, and a text that was rewritten is looked at again.
TLC finds `IInv` to hold in every state of `pipeline`.

*`ToolGate_proofs`* (assumes in addition `GateAssumption` and `RequestAssumption`).
The code takes one node at a time from a stack, adds to two counters and stops at
the first fault. `Admissible` speaks of all nodes at once, depth by depth. What
joins them is a ledger (`LedgerIsKept`): for any weight given to the nodes, the
nodes on the stack with all below them weigh one node less after each visit, and
nothing when the stack is empty. With three weights (1 per node, its characters,
1 per node at fault) this says that a request has its shape exactly when what is
pending keeps within what is left of the limits. Nodes one deeper than the limit
are counted and faulty, so that the depth needs no argument of its own. Inspection
has no counters; there a value is tainted if a string of it has a finding or a
value below it is tainted, the least set closed upwards, and a turn of the loop
keeps whether anything on the stack is tainted. What is inspected has to be known
to lie within the limits: `IsClean` looks no deeper. `GateInv` says this of
each place a request can be at (TLC: 110,475 states, on the engines with tool
traffic alone, with the nodes and values of a request in the place of all
sequences of them). `RequestsPassExactlyIfAdmissible` is
`PassesExactlyTheAdmissible`; `GateImplementsEngine` carries the theorems about
`RuleEngine` over to the specification that `pipeline` runs.

Model-checked only:

* every liveness property: fairness and ENABLED are beyond the prover;
* `ReleasesWhatBatchDoes` and `FindsWhatBatchDoes`, that an incremental stream
  equals whole-text processing, `RetainsBoundedText`, and `FirewallStream`'s
  `TypeOK`. The loops are folds (`TokenStep`, `DecideStep`, `CandidateStep`,
  `HoldStep`), but each needs its own account of what is certain at a chunk's end;
* `NoHiddenCharacterSurvives`, `RaisesOnlyForEmptySpan`,
  `StagingDefersBlocksAndRemovals`, `CapLosesNoLiteral` and `NothingIsHidden`, which
  say what single rules find and not what becomes of it. Several sort or filter
  with the standard operators `SelectSeq` and `SortSeq`, which the provers leave
  opaque.

That CLOSED is final is proved only.

## Not modelled

* In the rules: IBANs, credential assignments, e-mail addresses, phone numbers, IP
  and MAC addresses, JWTs, private keys and authorization headers. Each matches
  its own expression and validates what matched; none meets another rule except
  through the scanner, which is modelled.
* Of the modelled rules: escapes, keys, objects and long numbers in JSON output;
  percent-decoding; ports, hostname suffixes, IP literals other than plain numbers,
  character references and a second kind of quotation mark in URLs and markup. The
  markup limit is at least two. Which of several reasons a tool request is refused
  for, and where.
* The built-in catalogs and policies as tables; configuration, discovery and
  capabilities: immutable data, validation and descriptions.
* A failure inside a stream's feed or finish other than a chunk that is too much:
  it has the effects of cancel. In the stream model, whole-text processing
  never raises.
* Asynchronous exceptions (`KeyboardInterrupt`) between any two lines, and the
  interpreter's own locking inside `concurrent.futures`: in particular, whether
  its manager thread runs callbacks while it holds the executor's lock.
* Binding an async facade to one event loop and tearing the loop down during
  cleanup.
* Benchmarks, tools, tests and CI.

## Plan

1. The remaining rules with limits of their own (credential assignments,
   authorization headers, JWTs), under `NothingIsHidden`.
2. A stream whose signatures have any alphabets, should the engine come to cut
   text only behind what is certain; then `stream_partial` joins `stream`.
3. Proofs: `FirewallStream`'s `TypeOK` and that a step of an incremental stream only
   ever appends to what it released; `CapLosesNoLiteral`, with `FoldInvariant`; then the
   bound of `RetainsBoundedText`.
