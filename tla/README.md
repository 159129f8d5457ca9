# Verification of mcp-diet

`mcp-diet` is a middleware between an MCP client (a model's host) and an MCP server. It starts
the server as a child process, relays newline-delimited JSON-RPC in both directions, and
compresses the `tools/list` results on the way: the tools the model is likely to use next keep
their full schema, the others get a short one. When the model calls a compressed tool, the proxy
tells the client to list again. This directory holds TLA+ models of that program, the TLC runs
that check them and TLAPS proofs about them.

1. [The system](#the-system)
2. [Modules](#modules)
3. [Runs](#runs)
4. [Proofs](#proofs)
5. [Disagreements between the code and what it says](#disagreements-between-the-code-and-what-it-says)
6. [What is not modelled](#what-is-not-modelled)
7. [Plan](#plan)

## The system

| Component | State | Operations | Used by |
| --- | --- | --- | --- |
| `graph.Graph` | nodes with use counts, last use, outgoing edges and their total; execution counter; last two tools | `Record` (with `touch`, `trimEdges`, `evict`), `TransitionProb`, `UseShare`, `StepsSince` | session, pruner |
| `prune.TermWindow` | terms with decaying weights, their running total | `Add` (with `trim`), `Score` | session, pruner |
| `prune.Prune` | none | score, rank, spend the budget, compress or drop, emit; `Tokenize`, `EstimateTokens`, `truncate` | session |
| `prune.Config` | none | defaults, `Normalize`, `LoadConfig`, `isPinned` | all |
| `session.Session` | graph, term window, pending requests by kind, compressed set, reveal map, capabilities, statistics, one mutex | `ObserveClient`, `ObserveServer`, `PruneToolsResult`, `Capabilities`, `Stats` | both pumps of the proxy |
| `proxy.Proxy` | `notifyPending`, the two pumps' positions, the child process and its pipes | `Run`, `pumpClient`, `pumpServer`, `rewriteServerFrame`, `maybeNotify`, the watcher | `cmd` |
| `jsonrpc` | reader's buffer, writer's lock | `Parse`, `ReadFrame`, `WriteFrame`, batches | proxy |
| `mcp` | none | parse the payloads the session looks at | session |
| `cmd` | none | flags, `analyze`, `shellSplit` | - |

How they interact. `Run` starts the child, a watcher goroutine and a goroutine for `pumpClient`,
and runs `pumpServer` itself. Both pumps call into the one session, under its mutex, and both
write to the client through one line-atomic writer. `notifyPending` is an atomic flag the pumps
share *outside* the mutex: `maybeNotify` (client pump) swaps it to true, `rewriteServerFrame`
(server pump) stores false once a line with a pruned list is complete. The session owns the graph
and the term window; neither is safe without the session's lock, and neither is used without it.

What is hard here:

- The interleaving of the two pumps: observing a list, pruning it, clearing the flag and writing
  the line are four separate moments, and the other pump may run between any two.
- State that describes *messages in flight*: the compressed set is what the last list to be pruned
  said, not what the client holds.
- Bounded containers with three eviction policies (nodes, edges, terms) and one that depends on a
  time window (reveals), all with derived totals that must stay in step.
- Shutdown: either peer may close, crash or block, in any order, in the middle of a frame.
- Promises that depend on the configuration: the reveal window against the budget.
- Loops over text that keep flags and counters from one rune to the next (`shellSplit`, `Tokenize`,
  `EstimateTokens`, `truncate`, the hand-written JSON string), and settings that four sources decide.

What makes each component correct:

- graph: both budgets hold after every call; no edge leads to or from a forgotten tool; a node's
  total is the sum of its counts; eviction is least-recently-used and never takes the two tools
  the successor signals start from; the counts are never more than what happened.
- term window: bounded; the total is the sum on both of its code paths; the weakest leave.
- session: the reveal map is bounded without costing a tool its window; the reveal promise holds
  where the budget affords it; each pending entry is awaited by someone.
- proxy: apart from the form of listed tools and the injected notification it is a lossless FIFO
  pipe; no reveal is lost; no undeclared or duplicate notification; every request, of the client or
  of the server, is answered.
- pass and text: each tool is emitted once in the form its rank decides, and the statistics add up;
  a compressed tool is still one JSON string on one line; each loop computes what its definition
  by positions says.
- config: no combination of file and flags starts the pruner with a setting out of range, or the graph
  with a limit that empties it.
- lifecycle: `Run` returns; what the child wrote reaches the client; a graceful stop stays graceful.

`PROJECT.json` lists the hazards at their lines, with the property that covers each.

## Modules

| Module | Models | Uses |
| --- | --- | --- |
| `Ranking` | "sort by a strict total order, take a prefix", the algorithm shared by edges, nodes, terms and tools | - |
| `ToolGraph` | `graph/graph.go`, one action `Record` | `Ranking` |
| `MCToolGraph` | `ToolGraph` beside the full history of executions | `ToolGraph` |
| `TermWindow` | `prune/terms.go`, one action `Add` | `Ranking` |
| `MCTermWindow` | `TermWindow` beside the history of batches | `TermWindow` |
| `PruneTiers` | the decision of `prune.Prune`: the tier of each tool | `Ranking` |
| `Pass` | `prune.Prune` as it runs: sort, tiers by rank, emission, statistics; `isPinned` | `PruneTiers` |
| `Text` | `Tokenize`, `EstimateTokens`, `truncate`, `appendJSONString` | - |
| `Config` | `prune/config.go`, the flags of `run` and `analyze`, the limits of `graph.New` | - |
| `ShellSplit` | `cmd/mcp-diet/shellsplit.go`, `resolveServerArgv` | - |
| `MCInputs` | every input of the last four up to a bound | `Pass`, `Text`, `Config`, `ShellSplit` |
| `Session` | `session/session.go`, one action per method | `PruneTiers` |
| `Proxy` | `proxy/proxy.go` in operation: two pumps, a client, a server, the pipes | `Session`, `Relay` |
| `Relay` | the abstract promise: a FIFO pipe in each direction | - |
| `MCProxy` | the lists of the runs | `Proxy` |
| `Lifecycle` | `proxy.Run`: start, pumps, frame reader, watcher, child, end | - |
| `RankingProofs`, `ToolGraphProofs`, `TermWindowProofs`, `SessionProofs`, `LifecycleProofs` | theorems | the module they are named for |
| `ProxyProofs` | theorems about `Proxy`: the pipe, the session in it, the handshake, the requests | `Proxy`, `SessionProofs` |
| `NoticeProofs` | theorems about `Proxy`: its lists, its flag and its notifications | `ProxyProofs` |
| `InputProofs` | theorems about the pass, texts, command lines and settings | `MCInputs`, `RankingProofs` |

### How the state corresponds to the code

**Ranking.** Each comparator of the code ends in a tie-break on distinct keys, so it is a strict
total order and the sorted slice is determined by the set: the index of an element is the number
of elements before it. `FirstN` is the prefix. `RankingProofs` proves what this representation
relies on: ranks are injective, cover `0 .. |S|-1`, and a prefix of n has `min(n, |S|)` elements.

**ToolGraph.** A map from names to nodes is a set `nodes` and total functions that are 0 outside
it. `Record` is one action: it runs under the session's lock from the first assignment to the end
of `evict`. It follows the order of the code: the node is touched and stamped, the edge from `last`
is added and the edges of `last` are trimmed (only those can have grown), the context moves, nodes
are evicted oldest first - the new `last` and `prev` are skipped and not replaced by younger
victims - and the edges that lead to them go, with their share of the totals. Names are positive
integers so that their order is the code's. Counters are unbounded: the code's `uint32` edge counts
would need 2^32 executions of one pair in one session to wrap.

**TermWindow.** All weights are `decay^age` with the same `decay`, so an age says as much as a
weight: younger is heavier, and the deletion threshold 1e-4 is a largest age `MaxAge`. `total` is a
sum of such weights, kept as how often each age occurs in it; the incremental path of `Add`
(`total += 1 - w`) and the recount in `trim` are both modelled as the code does them. Floating-point
rounding of that sum is not.

**PruneTiers.** `Tier` is what `Prune` decides for each tool of a page. The six signals of `score`
are a nondeterministic base in `0 .. MaxBase` plus the reveal bonus, which is exact: it is the only
signal with a promise attached. Whether compression would shrink a tool is a property of the tool.
The pass-through cases are `PassThrough`.

**Pass.** The same decision as the code computes it: the permutation of the indices that is sorted
by the comparator (there is one, as the comparator is a strict total order), a tier per rank, then an
emission loop that appends a form and adds to the statistics, falls back to the full form where
compression does not pay, and keeps the order of the list or the ranks. A loop, here and in the next
modules, is the recursive function of its iterations: `Emitted(tools, policy)[n]` is what it has
after n of them. A tool carries a
name (a sequence of letters, for the `*` patterns of `isPinned`), a score and the sizes of its two
forms. `PassFollowsTiers` compares it with `PruneTiers`, which is what `Session` and `Proxy` use.

**Text.** Runes are classes: a lower and an upper letter, of one byte and of two, an underscore, the
blanks, quote and backslash, another control character, a byte that is not UTF-8. Each loop keeps the flags
and counters of the code (`TermsTo`, `TokensTo`); the two nested loops of `Tokenize` are one over runes,
with the segment being read as its state. What is beyond `MaxScan` bytes (4096 in the code) is cut
off before (`ScanPart`), also in the middle of a rune. The properties state the results without the
loops: the terms are the segments between boundaries, each found in `Tokenize` by its place among those
that begin no later; the estimate is a sum over the runs, each known by its first rune; a cut text is a
prefix with an ellipsis; a JSON string is read by a forward automaton of the client (`ReadTo`), which is
external, and reads as the text it was written from.

**Config.** A configuration is a function from names to integers, `TermDecay` in percent. The
defaults, the file on top of them, the flags (-1 when not given) on top of that, and `Normalize`
twice, as `run` does; `analyze` differs by the flag it lacks. `Normalize` leaves the two limits of the
graph alone; `NewLimits` is what `graph.New` makes of them, and `LimitsHonoured` what the graph should
get: the limit of the file where it is positive, else that of an empty file.

**ShellSplit.** The scanner with its mode, the word so far and the flag that tells an empty word from
none; the code's `i++` after a backslash is the flag `taken`, with which the loop passes over the next
rune (`Scanned`). The property writes words in every style of quoting and splits them again.

**Session.** One action per method; `ObserveClient` is split by message kind as the code's switch
is. Maps keyed by request id are sets of ids. `seq` stands for the graph's execution counter.
A list is pruned when it holds a tool, also when the response carries an `"error": null` beside its
result: `PruneToolsResult` does not look at `HasErr`. `SessionCall` lets any frame arrive at any time,
which is weaker than what the proxy does; `SessionCalls` is the specification made of it, and
`SessionSpec`, which the runs check, is the same with two bounds on the steps of `SessionNext`.

**Proxy.** Each action is what a goroutine does between two points at which the other can interfere:
lock releases, atomics and writes. `pumpClient`: read a line, observe each frame (each its own lock
section), forward, then `maybeNotify` in three steps (capability under the lock, swap, write).
`pumpServer`: read, observe each frame, prune a list response, store the flag when the line
changed, write. Lines are sequences of frames, so batches (`explode`, and the batch path of
`rewriteServerFrame`) are the general case. The client and the server are environments: the client
initialises, lists, calls tools it has seen, cancels, fetches pages and refreshes when told to; a
`Pipelined` one does not wait for answers, and an `Eager` one not even for that of its `initialize`, so
that the capability is learned while requests are flowing. The
server answers in any order, alone or in batches, and drops a request that was cancelled. It also
asks: it numbers its own requests, so that an id of its own may be that of a pending `tools/list`, and
the client answers them. What peers owe each other (`owed`, `asking`, `unasked`) is bookkeeping for
the liveness property.

**Relay** is what remains when the form of tools and the injected notifications are left out: in
each direction the lines that were sent and not passed on, and the inbox of the receiver. A line
can only enter at the back, leave whole and in order into the inbox, and be taken by its receiver;
`InjectsNotice` is the only thing the pipe may add. The refinement maps the first to the line a pump
holds followed by the lines it has still to read, and the second to the pipe behind the pump, each
frame reduced to what it carries (`Carried`): of a tools/list the names of its tools.

**Lifecycle.** Frames are sizes, in chunks of one `ReadSlice`; the last chunk carries the newline.
Pipes to the child block their writer when full. `ReadFrame`'s limit is checked per chunk, as the
code does; a last frame without a newline is delivered. `Run` waits for the process only after
`pumpServer` ended, does not wait for `pumpClient`, and the watcher kills the child when the
context ends. A child that is gone leaves what it wrote in the pipe. The client always takes what is
written to it unless it hangs up, which makes the next write fail (with the real `os.Stdout` the
process would get SIGPIPE instead; a client that reads nothing for ever would block both pumps in
the writer, and is not modelled).

Definitions marked as mutants in the modules are plausible faults of the code; no specification
uses them. They are there to confirm that each property can fail.

## Runs

All runs are exhaustive for their constants; `inputs` enumerates inputs, one behaviour each.
`CHECK_DEADLOCK FALSE` appears everywhere because every model may end: the bound on calls is
reached, or the client has nothing more to say. That nothing gets stuck is what the liveness
properties say.

| Run | Shows |
| --- | --- |
| `graph` | Seven executions of four tools with three nodes and two edges per node. The bounds, the totals and the two eviction policies hold (least recently used for nodes, weakest for edges); compared with the recorded history the graph never overcounts, knows every recently used tool with the right distance, and is exactly the statistics of the history as long as no limit was hit. |
| `terms` | Four batches over four terms, room for two, fading after two batches. The total holds, and whatever was mentioned recently enough to fit is held with the age of its last mention. |
| `session` | Five calls, one list, one pin, a reveal set of two for four tools. The reveal set stays bounded, the bound never costs a tool its window, and with the smallest budget that affords the promise no list compresses a tool called inside the window. |
| `proxy_sequential` | A client that waits for answers, four tools of which two fit the budget, scores free, fair scheduling: no reveal is lost, at most one notification is outstanding, and a tool the model reached for comes back in full unless it leaves the window first. |
| `proxy_pipelined` | A client that does not wait, not even for the end of the handshake, a server that asks under an id the client uses too: `notifyPending` is never stuck, each list the client gets was pruned, session and client agree on what is compressed once no list is in flight, every pending entry is awaited, and no notification is sent, swapped for or flagged that the server did not declare. |
| `proxy_pipe` | Batches, two pages, errors, cancellations and a request of the server: the proxy implements `Relay`, every request of either side is answered or cancelled, and an entry of the session that nothing can remove any more is left by one thing only, a cancellation that the server heeds. |
| `lifecycle` | The client closes or hangs up, the child exits, crashes or writes a frame above the limit, the context ends, in any combination: nothing the child wrote is lost, a graceful exit costs no answer, cancellation ends `Run`, and so does either side, unless the pump gave up early. |
| `inputs` | Every command line, text, tool list and pair of settings up to the bounds: what was quoted arrives, terms and estimates are those of the segments and runs, a text is cut within its budget and reads back as JSON, the pass decides as `PruneTiers` does and its statistics add up, the settings are safe, the last valid one given is in force, and no limit of the graph comes out as zero. |
| `session_revealed`, `proxy_lost_refresh`, `proxy_list_error`, `lifecycle_oversized` | A statement of the documentation or the comments that the code does not keep: see [below](#disagreements-between-the-code-and-what-it-says). |

### Why the bounds are enough

- `graph`: four tools over three nodes force evictions in which the victim has several incoming and
  outgoing edges; two edges per node force trims of edges with different and with equal counts.
  Seven calls are enough to evict, to bring the victim back, and to evict again. The node limit
  three is the smallest at which an eviction has a candidate outside the context. The proofs cover all
  other limits, the non-positive ones included.
- `terms`: room for two of four means that one batch can exceed the window on its own; `MaxAge` 2
  lets a term fade or be trimmed, whichever comes first, within four batches.
- `session`: `MaxNodes` 2 is smaller than what the window (`RevealSteps` 1, that is two executions)
  and one older call hold, so the trim runs with entries inside and outside the window.
  Three places are what one pin and two windowed tools need: `PromiseAffordable` is tight.
- `proxy_*`: with one tool more than the budget a reveal competes for a place; with two more
  (`proxy_sequential`) a second reveal can follow the first before any new list. The longest
  interesting scenario is initialize, list, reveal, second reveal, list: `MaxRequests` (five for
  `proxy_sequential`; four for `proxy_pipelined`, where the server asks as well and the second reveal
  need not wait) bounds the ids of the requests the client makes on its own account; refreshes and
  further pages may go beyond. `proxy_pipe` is about moving lines, where three requests with a batch
  of two (`MaxLine`), two pages and a cancellation in any order suffice.
- `lifecycle`: a pipe of one chunk blocks as soon as possible; frames of one, two and five chunks
  against a limit of two are below, at and above the limit, and the last is larger than limit and
  pipe together. Two requests let one be answered while the next one is in the way.
- `inputs`: texts of up to five runes (`MaxText`) of thirteen classes hold every pair of neighbours with
  something before and after it, and every budget from -1 to the length puts the cut, the last space
  and the end on either side of each other; a scan limit of five bytes (`MaxScan`) cuts those with wide
  letters, between two of them or inside one; command lines of up to three pieces and gaps
  (`MaxPieces`) with three runes in all (`MaxQuoted`) hold two adjacent pieces in any styles and two
  words; three tools (`MaxList`) with equal and different names, scores and sizes against budgets 0 to
  2 have one on each side of every limit; two settings (`MaxGiven`) are one in the file and one flag,
  or either twice, at the border values of each range. Two cases are left out because there the code does
  not do what its comment says ([below](#disagreements-between-the-code-and-what-it-says)): a budget of
  one rune, and a newline behind a backslash. `InputProofs` covers all other settings, texts,
  budgets, lists, policies and command lines.

### Fairness

- `Proxy!FairSpec`: weak fairness of each pump, since the Go scheduler does not starve a runnable
  goroutine and neither holds the lock across I/O. Of the environment: the server reads and
  answers, the client reads, refreshes when told to and answers the server's requests. Nothing
  obliges the client to send.
  `EveryRequestAnswered` and `RevealServed` are about peers that do their part. The weak fairness
  of `ServerAnswer` is enough because it answers from a finite set of requests.
- `Lifecycle!FairSpec`: the goroutines of `Run`, and a child that works, that is, reads, answers,
  and exits at the end of its input. Cancellation, crashes, closing and hanging up may or may not
  happen.

## Proofs

TLAPS checks every theorem and lemma for all values of the constants, under the named assumptions
of the modules: names are natural numbers (any strict order would do), the set of tools is
finite, limits are any integers, sizes are positive. The theorems hold for any bound on the length of
an execution; those about the session have no such bound.

**`ToolGraphProofs`.** The inductive invariant is `TypeOK /\ RecencyStrict /\ ContextSurvives`; none
of the three is inductive alone. `RecencyStrict` (stamps are distinct, the last tool has the newest)
needs the type, where a node is what has a stamp, and that the context is never evicted; that the
context survives is by the exemption in `evict`. The other theorems are invariants relative to it.
`NodesBounded` is the interesting one, since skipped victims are not replaced: the tool that just ran
has every other node ahead of it in the eviction order and the one before it all but one, so for a
limit of two or more neither is in the prefix and nothing is skipped, and for a limit of one at most
one node is. `EvictionIsLRU` follows from the strict order. `EdgesBounded` and `NodesBounded` rest on
`RankingProofs`: cutting n elements leaves no more than the others. `StateIsBounded` is the two
together, and `StrengthDecides` that an edge between tools that stay is dropped only in favour of
edges at least as strong: what the trim keeps precedes what it drops in the order of counts.

Three theorems compare the graph with the recorded history, under `HInv`, which adds to the invariant
that clock, last tool and the one before it are those of the history. `MCSpec` only adds that history to
the steps of `Spec`, and the bound `MaxCalls` on their number. `CountsAreObserved` is inductive with
it: a step adds at most what it records, and a trim or an eviction only takes away. `RecencyIsTrue`
needs the eviction order: whoever is evicted has `NodeLimit` nodes younger than itself, all of which
ran since. `StatisticsExact` shows that below the limits no trim and no eviction drops anything, and
that the history only grows, so that what is below the limits now always was; `RoomIsLimit` that the
limits it speaks of, with the defaults written out, are those `New` settles on. `TotalsCorrect` is
about arithmetic: the code never sums, it adds one, takes a trimmed excess off and takes off what an
eviction cuts. A sum over a set is a fold; `RankingProofs` shows, from a least counterexample among
the subsets, that it is additive, which is all the proof needs.

**`TermWindowProofs`.** The bound is the same prefix lemma; `WeakestLeaves` is the lemma that
what a cut drops sorts behind what it keeps, and that each step adds at most one to an age.
`TotalCorrect` follows the sum as counts of ages through both paths of `Add`. `RecentTermsHeld` is an
invariant over the recorded batches: a term that is dropped had as many terms in front of it as the
window holds, and each of them was mentioned in a batch at least as recent.

**`SessionProofs`.** The theorems are about `SessionCalls`, which has none of the bounds of the runs.
`RevealsBounded`: stamps are distinct (each call has its own), so the entries
inside a window of `RevealSteps + 1` executions are at most that many; either the map is within
`MaxNodes`, or what the trim left is inside the window. `WindowKept` is the trim's condition.
`PromiseKept` is the argument for the reveal loop as an invariant of the session: pins and windowed
tools together are no more than the budget; a windowed tool outranks every tool that is neither
(its bonus exceeds any base score), so its rank is within the budget and its tier is full. A later
call can only take its own tool out of the compressed set, and time takes tools out of the window.

**`LifecycleProofs`.** A chunk the child wrote is in the pipe, in the reader or with the client
(`Conserved`); `LifecycleTypeOK` bounds what the reader holds of a frame; the pump ends with the first
two empty and the child gone, or because it gave up (`DoneMeansDrained`); `Run` waits for the pump
before it waits for the child (`RunWaitsForPump`). `OutputDelivered` is their conjunction at
`run = "returned"`. `ShutdownIsGraceful` counts: a request that was forwarded is in the child's stdin, is
being answered, or its answer is in the pipe, in the reader's hand or with the client
(`EachForwardedOnce`). Frames in the pipe are counted by the chunk with the newline, so the invariant
must say that only the last chunk of an answer ends it (`WholeFrames`), and that a child that exited
by itself owed nothing (`ExitedDone`). Both hold while the child is orderly and the pump has not given
up; a child that crashed or a frame above the limit ends the claim, as it ends that of the property.
When `Run` has returned all places but the last are empty.

**`ProxyProofs`.** `ProxyIsPipe` is the refinement of `Relay`: the initial states map to one of its
own, and each action to the action of the same name or to a stutter. The inductive invariant is
`PipeInv`: lines in the pipes are non-empty sequences of frames, and a pump holds a line exactly
while its control is past the read (`ControlOK`); without the second the map from states to lines
would show a line twice or not at all. The theorem assumes `DropBelow = 0`, the default, because a tool
dropped for its score is not passed on by name. The second part composes the proxy with its session:
`ProxyRunsSession` shows that every step of the pumps is a call of the session or leaves it alone, so
what `SessionProofs` shows of arbitrary calls holds of the session at work (`ProxyKeepsPromise`).
Its assumption `AnyId` takes the natural numbers for the ids of requests, as the code has no bound.

`OnlyDeclaredNotifications`: between the check of the capability and the write of the notification
the lock is released twice, so the proof must exclude that the capability is taken back in between. The
client initialises once, though it may send other requests before the answer, and `NoticeInv` follows
that one: it is in the pipe, in the pump or pending in the session, at one place at a time
(`OnePlace`), and at none once the capability is known.

`PendingIsAwaited` follows every request in the same way. `HeldOnce`: an id of the client is at one of
seven places - sent, in the pump, in the inbox of the server, in work, answered, on the line of the
other pump, back - and no two frames of a place share it. `Registered`: the session has it in the set
of its kind exactly from the pump's observation to the observation of the answer, and the sets of the
three kinds share no id. `Awaited` adds that the client still waits for it. It assumes
`Cancels = FALSE`: an entry that was cancelled and never answered stays for ever.

`StrandedByCancelOnly` says that nothing else strands an entry, and assumes nothing of the client or the
server. The ids that can still be removed (`Removable`) are those of requests on their way to the server
or in its hands and of answers on their way back (`Live`). A request is registered while the pump holds it
(`PumpClientKeepsLive`), an answer takes the place of its request (`ServerSendKeepsLive`), and the pump
gives up an answer only when it has observed it (`PumpServerKeepsLive`); what is left is the server that
reads a cancellation (`ServerReadEnds`).

**`NoticeProofs`.** All theorems rest on the invariants of `ProxyProofs`; each has an inductive
invariant of its own and holds for any tools, budgets, windows, ids and bounds on requests and batches.

- `ProxyTypeCorrect` completes the type of the two peers.
- `FlagIsJustified`: while the flag is set, a notice is between the swap and the client, or the client
  is about to refresh, or a request for a list is on its way or pending, or the list it led to is still
  to be stored (`FlagInv`). It assumes `ListErrors = FALSE`: a list answered with an error is what leaves
  the flag set for ever (`proxy_list_error`).
- `ListsAreCut`: before the pump a list is a whole page of the server, behind it it is cut to the budget
  (`CutInv`). The assumption `LargePages` is what the property is about: pruning is on, nothing is pinned or
  dropped, every tool shrinks, and every page is larger than `MinTools` and has the budget's tools.
  That a list cannot pass the pump unregistered is `AnswersDue` of `Registered`.
- `CompressedIsKnown`: the newest list behind the pump, wherever it is, shows what the session has as
  compressed, but for tools called since it was pruned (`AdvInv`); when none is in flight the client
  took it. `Expecting` says that a list only answers a request for one. It assumes `OneList`: one page with
  all tools, since a second one replaces the session's set, no cancellation, nothing dropped, and room for
  every tool in the reveal set.
- `NoticesCollapse` and `NoRefreshIsLost` are about a client that waits for its answer before it sends
  again (`Sequential`). The invariant of the first (`SequentialInv`) says that the client waits for
  one answer and every line holds one frame, that from the call that reveals a tool to its notice no
  list is being asked for behind the pump (`RevealFirst`), and that a notice in the inbox has the flag
  set or stands before the list that cleared it (`InboxInv`); so the swap that allows a second finds
  no first. The second (`RefreshingInv`) adds that a tool shown compressed that the session no longer
  has as compressed is being turned: its reveal is on the way to a notice, the client is told or asks,
  or a list with the tool in full comes back. `Refreshing` adds a server that does not fail, one page
  and nothing dropped by score. That neither assumption can go is what `proxy_lost_refresh` (a
  pipelining client) and `proxy_list_error` (a failing list) show. It assumes no fairness: it says
  that the refresh is due, not that it happens, which is `RevealServed`.

The runs `proxy_sequential` and `proxy_pipelined` check the same properties within these assumptions.

**`InputProofs`.** `StartSafe`: for any integers in a file and any flags, every setting the pruner
starts with is in range and is the last one given that is. This discharges, for the values that
`Normalize` guards, what the other modules assume of their constants, and the graph gets positive limits
although `Normalize` does not guard those. `PreviewFaithful` is the same for
`analyze`, and `ConfigAlwaysSafe` puts both together for every sequence of settings the run builds.
`TruncateKeepsWithin` leaves out the budget of one rune, which every text that is cut exceeds
(`BudgetOfOneExceeded`), and needs where the cut falls (`CutInRange`): the greatest space of the last
third, which exists because a bounded set of integers has a greatest element, or the budget less the
ellipsis.

The other theorems are about loops over lists, texts and lines of any length. The argument is the same
each time, and rests on two lemmas of `RankingProofs`. `IntervalInduction`: what holds at 0 and goes on
from n - 1 to n holds on `0 .. L` (otherwise there is a least n where it fails; "less than" is well
founded on the naturals). `LoopDefined`: the recursive equation of a loop has a solution (one for n
iterations can be extended by one), so the function the model defines by it satisfies it. Each loop is
then left with an invariant over the number of its iterations, and each invariant is about the reference
definition applied to what has been read so far:

- `PruneKeepsTiers`, `StatisticsAddUp`: the sorted permutation exists, since ranks are a bijection onto
  `1 .. n` (`RankingProofs`), and a tool's position in it is its rank in `PruneTiers`; so the tier by
  rank and the tier by decision agree, form by form (`FormIsTier`). After n iterations what was emitted is
  what of the first n is not dropped, once each and in their order (`Visited`), and the counters and
  sums are those of it (`Tallied`), for which additivity of sums over sets is enough.
- `EveryLineReadsBack`, `SplitInvertsQuoting`: after each piece of the line the scanner holds the words
  that ended, the one being built and whether it has begun, an empty one included (`LineRead`);
  inside a piece, that it is in the mode of the style and has read so many of its runes (`Reads`). A rune
  and its backslash are two iterations that together read one. The three other promises - an open quote,
  a last backslash, a trailing command - are one or two iterations from there.
- `JSONStringReadsBack`, `DescriptionsReadBack`: after the escaped form of i runes the client has read
  those i runes and is in the mode it started in (`HasRead`), whichever escape each needed.
- `EveryRunIsCounted`, `TextsAreCounted`: `CountedTo` says that the two counters are the lengths of the
  word and of the cluster that may still go on (`Live`), and that the tokens paid and what those two would
  cost are together the cost of all runs seen. `OneMoreRune` is the heart: a rune of a kind either starts
  a run or lengthens the one that goes on, of which there is exactly one (`LiveHasStart`, and its start is
  alone among the starts), and changes what no other run costs.
- `EveryTermIsFound`, `TextsTermsAreFound`: `TermsKnown` says that outside of a segment the terms
  of all segments so far are listed, and inside one those of the segments before its start, that the text
  since then is what the loop holds, and that the remembered case is that of the last rune. When a
  segment closes it is the only one that ends there (`OnlySegment`), and it stands to the right of all
  others, so its term comes last (`ListedAppend`). Nothing is assumed but that `MaxScan` is a natural
  number.

Each comes twice: as a theorem about any list, policy, line or text (`PruneFollows`, `PruneTallies`,
`Every...`, `JSONStringReadsBack`, over any set of runes and any sizes and scores), and as the property
of the run, for what `MCInputs` builds without its bounds.

Checked by TLC only:

- All liveness (`EveryRequestAnswered`, `RevealServed`, `CancelEndsRun`,
  `EitherSideEndsRunUnlessEarly`): fairness and `ENABLED` are out of the prover's reach. Every other
  property of the passing runs is also a theorem.

Proved and in no run, because the theorem covers every bound and the property is simple: the bound and
the type of the term window, that a batch drops nothing heavier than what it keeps, and the recency
order of the graph.

## Disagreements between the code and what it says

Each of the first four is a run whose counterexample TLC finds.

1. `proxy_lost_refresh` - a pipelining client loses a refresh. Between the pruning of a list and
   `notifyPending.Store(false)` (proxy.go:244) a call that reveals a tool of that very list finds the
   flag set, sends nothing, and the store then clears it. The client keeps the compressed tool. With
   a sequential client this cannot happen (`proxy_sequential`).
2. `proxy_list_error` - the flag is cleared only by a list that was pruned. A refresh answered with
   an error (or an empty list) leaves it set, and each later reveal is suppressed.
3. `session_revealed` - the reveal is a bonus in a ranking, not a pin: with a budget below the number
   of tools called in the window, one of them is compressed; in the trace it is the tool called at the
   last execution. README.md:145-146 says it "is pinned at full fidelity". The default budget (8) is
   below the default window (12).
4. `lifecycle_oversized` - after a frame above the limit nobody reads the child's stdout; a child
   blocked writing never sees that its stdin was closed, and `Run` returns only if the context ends.
Met while modelling, without a run:

- session.go:9 calls all state bounded. Pending entries are removed by a response only, and a server need
  not answer what was cancelled: the entry of such a request stays as long as the connection, and
  nothing limits how many there are. `OnlyCancelStrands` says that these are the only ones; without
  cancellations every entry is awaited (`PendingAwaited`).
- shellsplit.go:8 says "the way a POSIX shell would tokenise it". A shell removes a backslash and the
  newline after it; `shellSplit` keeps the newline as part of a word, in double quotes too
  (shellsplit.go:62-64). `SplitReadsBack` leaves such pairs out.
- prune.go:315 says that `truncate` cuts to at most `max` runes; with a budget of one it returns a rune
  and the ellipsis (`BudgetOfOneExceeded`). `TruncateBounded` leaves that budget out.
- `PruneToolsResult` replaces the compressed set (session.go:244), so the second page of a list
  forgets the first, and calls to its tools are no longer reveals. session.go:6-7 promises "which
  tools are currently advertised in compressed form". `CompressedIsAdvertised` is checked with one page.
- graph.go:13-15 calls eviction least-recently-used; that is true of nodes (`EvictionIsLRU`) but edges
  are trimmed by count and name (`WeakestEdgeLeaves`), so a saturated node can forget a new transition
  in the call that records it.
- prune.go:102 places the token reduction in [0,1]. Compression is decided by bytes,
  and the estimate of a shorter text can be larger, so it can be negative.
- A response with a result and `"error": null` counts as an error (jsonrpc.go:97-99: the raw message
  is `null`, not nil): of such an answer to `initialize` the capability is not read, of one to a call
  no terms are taken. A list is pruned all the same.
- `Normalize` leaves `MaxNodes`, `MaxEdgesPerNode` and the weights alone; `graph.New` replaces limits
  that are not positive, nothing checks the weights.
- `UseShare` divides by `totalUses`, which counts executions of evicted tools too; a tool that comes
  back after its eviction starts at one use.
- mcp.go:118-120 speaks of pruning conservatively, which no code does.
- A client that sends a call and a list in one batch can find two notifications in its inbox: the
  list may be answered, and the flag cleared, before the reveal of the same line is notified.
  `OneNotification` is therefore checked for a client that sends one frame at a time.
- After a crash of the child in the middle of a frame the partial frame is forwarded, with a newline.

## What is not modelled

- The five floating-point signals of `score` and `TermWindow.Score`: a weighted sum of numbers TLC
  does not have. They are an arbitrary base score; nothing promises more of them.
- Parsing and printing of JSON, `CollectStrings`, blank lines that `ReadFrame` skips: data without
  control. The one string the code writes by hand is in `Text`.
- An `Encode` that fails in `PruneToolsResult` after the compressed set was replaced
  (session.go:244): it encodes what was just decoded and does not fail.
- `cmd`: sub-commands, usage, exit codes; of `analyze` the reading of a file, its loop over
  arguments and the table it prints. Its settings are in `Config`, its one call of the pruner in `Pass`.
- The logger and the summary `Run` logs; byte, token and time sums of the session's statistics.
- Errors of `Run` before the child is running (empty command, failing `Start`): immediate returns.

## Plan

Done, in this order: the bounded state (`ToolGraph`, `TermWindow`, `Session`), the pumps (`Proxy`
refining `Relay`), the end of a session (`Lifecycle`) and their theorems; the pure algorithms against
reference definitions (`Pass`, `Text`, `ShellSplit`, `Config`); the requests of the server; the proofs
of the pipe, the composition with the session, the notifications and the graceful end; the
proofs of every safety invariant of the proxy, the graph and the term window; the proofs that the loops
over lists, texts and command lines compute what their reference definitions say.

Left:

1. Composition of `Session` with the real `ToolGraph` in place of its counter, so that the successor
   signals and the reveal window are read off the same state, and the first three signals of `score`.
2. Weaker assumptions for the theorems about lists and notices: more than one page for `NoRefreshIsLost`,
   cancellations for `CompressedIsKnown`.
3. Abstract specifications beyond `Relay`: the exact first-order statistics the graph approximates
   (now `ExactWithinLimits`), and the term window as "the last `Max` terms mentioned".
