# croton-mcp: a TLA+ verification project

croton-mcp is two stdio MCP servers. `croton-mcp` exposes a mailbox behind a
local IMAP bridge; `croton-drive-mcp` exposes a cloud drive behind a command
line client. This directory holds TLA+ modules of their concurrent and
failure-prone parts, TLC runs that check them on small instances, and TLAPS
proofs of the main safety properties for instances of every size. All paths
below are relative to the repository.

## Inventory

### Parts, their state and their operations

| part | code | state it keeps | operations |
|---|---|---|---|
| mail adapter | `bridge/bridge.go` | a one-token gate, the retained session, `closed` | `execute`, `openSession`, `invalidate`, `Close` |
| structure reads | `bridge/attachment_structure.go`, `structure_session.go` | nothing between calls; up to two sessions of their own per call | `GetMessageAttachmentStructure`, `readStructure` |
| triage writes | `bridge/seen.go`, `move.go` | per-UID outcomes of one batch | `SetSeen`, `Move`, `Archive`, `Trash` |
| connecting | `bridge/dial.go` | socket, watcher goroutine, STARTTLS response budget | `Dial`, `establishStartTLS`, `closeOnContext` |
| IMAP session | `bridge/imapclient.go` | input budget, deadline clamp, dispatch guard, response observers | one method per IMAP command, all through `withContext` |
| structure quarantine | `bridge/structure_quarantine.go` | a streaming scanner with byte, literal and nesting budgets | `Read` |
| search and message reads | `bridge/search.go`, `messages.go` | the key that signs message identifiers | `SearchMailPage`, `GetMessageMetadata`, `GetMessageBody`, `GetMessageHeaders` |
| threads, MIME | `bridge/threads.go`, `mime.go`, `attachment_projection.go` | none | `BuildThread`, `NormalizeMessage`, `projectAttachmentStructure`: algorithms over fetched data |
| credentials | `bridge/credentials.go` | none; one child process per lookup | `Credentials` |
| mail MCP server | `internal/mcpserver` | one connection per session, audit log | one handler per tool; `Connect`, `Close` |
| Drive MCP server | `internal/drivemcp` | the handshake latch and slot, audit log | one handler per tool |
| Drive CLI client | `internal/drivecli` | one child process per invocation | `Handshake`, `List`, `Info`, `SharingStatus` |
| transactional output | `internal/drivefs` | a staging directory, held descriptors | `BoundedTransactionalCopy`, `WriteTransactional`, `WriteFresh` |
| framing, strict JSON | `internal/stdioframe`, `strictjson` | a buffer, pending bytes, a sticky read error | `Read`, `DecodeObject` |
| configuration | `internal/config`, `bridge/config.go`, ... | none | validation at start |

### How they interact

The MCP servers run tool handlers concurrently. A mail handler calls the
adapter, which lets one caller at a time past its gate; that caller dials,
logs in (credentials come from a child process), uses go-imap over a stack of
wrapped connections (`readBudgetConn` over `dispatchGuardConn` over
`deadlineConn`), and gives the gate back. go-imap runs a reader goroutine that
blocks in `Read` between and across operations. Every blocking phase starts a
watcher goroutine that closes the transport when the context ends. A Drive
handler goes through the single-flight handshake gate, then starts a CLI child
in a process group of its own.

### What is hard

Contexts that end at any step and race channel operations; a retained session
that dies unnoticed; answers that arrive after their command was given up;
writes the server executes although their answer was lost; watcher goroutines
that look at a context their own function ends on return; budgets that are
charged by a goroutine which is not part of the operation; a scanner and an
observer that judge bytes before or beside the library that parses them; tools
made of several reads of a mailbox others change; the installed CLI
changing or hanging; system calls that fail one by one and a process that dies
between two of them. `PROJECT.json` lists these hazards at their lines, with
the properties that would catch each going wrong.

### What makes each part correct

* adapter: one caller at a time; every transport is closed or owned; no command
  on a stream that still owes an answer; a dead retained session is replaced
  without the caller noticing; nothing is opened after Close; every call returns.
* triage: outcomes are what happened; a request that fails as a whole wrote
  nothing; each UID at most one write, in order, to the generation and the
  destination the caller meant.
* connecting: only a verified transport is handed out, and it stays open;
  nothing leaks; before TLS the peer can make the client read only so much.
* session: budgets hold across operations; deadlines are the operation's.
* structure reads: only whole approved frames reach go-imap, no budget is
  overrun or runs out inside an acceptable frame, one structure per dispatch,
  the first error category stays.
* search and reads: a page is of one snapshot and leaves no match out silently;
  an ambiguous SEARCH answer is refused; a read returns the message its
  identifier names.
* tools: a result that is not marked truncated is complete; items are what they
  name; threads are forests.
* stdio: the SDK sees whole, unambiguous lines only; a session ends once.
* Drive: no data command before the pinned version is verified; one
  handshake suffices; failures are not shared; one audit record per answer.
* files: the destination shows the whole source or nothing and replaces nothing.

## Modules

| module | models | notes |
|---|---|---|
| `BridgeErrors` | error codes, `mapIMAPError`, `canReplay`, `invalidatesSession` | shared by the modules of the bridge |
| `AdapterSession` | the adapter with concurrent callers of four kinds: read, triage, structure, close | one action per blocking call and its outcome; a triage batch is a sequence of commands here |
| `AdapterSessionProofs` | TLAPS proofs | |
| `Destination` | `resolveMoveDestination`, `resolveAttributeDestination` | pure; names are told apart by what the code asks of them |
| `Triage` | one batch against the server it writes to | the server side keeps what really happened; extends `Destination` |
| `TriageContract` | what a batch promises, without sessions, attempts or answers | `Triage` implements it |
| `TriageProofs` | TLAPS proofs, the refinement included | |
| `Dial` | `bridge.Dial` and its watcher | response lines are abstracted to what the code tells apart, plus their length |
| `DialProofs` | TLAPS proofs | |
| `SessionIO` | deadline, input budget and watcher around an operation | four goroutines; `Read` is two steps because it releases its mutex, and asks for any number of bytes |
| `SessionIOProofs` | TLAPS proofs | |
| `DriveServer` | tool calls, handshake gate, CLI children, audit | |
| `DriveTransaction` | `BoundedTransactionalCopy`, one action per system call | bytes are counted |
| `DriveProofs` | TLAPS proofs about `DriveServer` and `DriveTransaction` | |
| `Quarantine` | `structureQuarantine`: the scanner, one operator per Go method, and `Read`, `beginDispatch`, `abort` | a byte is one of the classes the scanner tells apart; words count as one byte |
| `StructureSession` | `readStructure`: caller, go-imap's reader, context | extends `Quarantine`; aborting the quarantine and closing the connection are two steps |
| `StructureSessionProofs` | TLAPS proofs about the scanner and the session | |
| `SearchWire` | how go-imap and the observer in `readBudgetConn` each read the answer to one UID SEARCH | responses, lines and UID intervals |
| `MailReads` | `SearchMailPage` and the three message reads, with replay, on a shared mailbox | extends `SearchWire`; covers FETCH answers too |
| `MailReadsProofs` | TLAPS proofs about the answers, the pages and the reads | |
| `Threads` | `BuildThread` | folds and recursive functions, one turn of each loop an operator (`linkParent`, `boundDepth`); checked against `IsForest` and `KeepsLinks` |
| `Mime` | the body walk, the structure walk, the readers of header blocks | a message is the sequence of its entities with their depths (`IsTree`) |
| `MailTools` | the handlers of the mail server, each a sequence of adapter operations | extends `Threads`, `Mime`; each operation is one step |
| `StrictJSON` | the alias check of the frame reader and `decodeArguments`, on documents as trees | pure and recursive; `callParams`, what the SDK takes for a call, is external |
| `StdioServer` | frame reader, alias check, argument decoding, a session's connection and its two closers | a session of the mail server: the Drive server has no AfterFunc and leaves its context to the SDK. The SDK is external, `sync.Once` is one step; what the checks accept are constants, given by `StrictJSON` in the run |
| `MailServerProofs` | TLAPS proofs about `StdioServer`, `Threads`, `Mime` and `MailTools` | |
| `MC*` | constants for TLC | |

`PROJECT.json` maps each definition to the lines it translates. Variables keep
the names of the fields and locals they stand for (`gate`, `session`, `closed`,
`attempt`, `verified`, `slot`, `remaining`, `exceeded`, `held`, ...); variables
marked *history* exist only for the properties. Definitions whose comment
starts with "A bug" are faulty variants of the definition after them (or of
the one their name extends); no specification uses them. Each shows that some property notices the
corresponding mistake.

Correspondences worth knowing:

* A Go `select` with several ready cases is a choice between actions: a caller
  whose context has ended may still take the gate (`acquire`, `acquireEnded`).
* `adapter.mu` is only ever taken by a holder of the gate and is not a variable.
* A transport in `AdapterSession` and `Triage` can be dropped by the peer at
  any moment; a closed session identity is used again, so a small set of
  identities is no bound on the number of reconnects.
* `inStep` records whether the answers of a session were read completely. The
  codes after which that is not known are `OutOfStepCodes`; that the code drops
  exactly those sessions is what `NoStaleResponses` checks.
* `Read` of the quarantine and of the frame reader drops its lock, or returns,
  between any two bytes the source delivers; `PeerSends` and `Send` decide how
  many arrive at once.
* `MailReads` enumerates shapes of SEARCH answers (plain, merged, replaced by
  ESEARCH, with literals, outside the window) and of FETCH answers, truthful or
  not; `truthful` is a history variable.
* `MailTools` takes one adapter operation as one step: that it is one snapshot,
  and of the right generation, is what `MailReads` and `Triage` check.
* An identity is a generation and a UID; `KeyOf` gives it a number of its own,
  which stands for the string handlers use as the key of a thread member.
* `DriveServer` lets a handler panic between any two blocking calls. A panic
  runs the deferred release of the slot, then the recovery of `runTool`.
* `DriveTransaction` lets another process rename the staging directory or
  create the destination between any two calls, and the process die.

External behaviour is assumed from how the code uses it: an IMAP `NO` means
nothing was written; a UID command on an expunged UID is answered `OK`;
UIDVALIDITY does not change while a mailbox is selected; go-imap falls back
from MOVE to COPY when its cached capabilities lack MOVE; a literal is read past
`bufio` in requests larger than its buffer (4096 bytes), by the caller that wants
it or by go-imap's goroutine when it discards one nobody asked for; the SDK
refuses a call whose `params` are no object; `linkat` never replaces; a process
group that is killed is reaped within `WaitDelay`.

## Runs

| run | instance | distinct states | shows |
|---|---|---|---|
| `adapter` | 2 callers, 2 sessions, batches of 2 | 209 thousand | leaks, stale answers, healing, Close, exclusive use of the pooled session; every call and Close return |
| `structure` | frames of 20 bytes, depth 3, 7 tokens, 4 responses, 42 bytes a session | 660 thousand | what the scanner releases, its budgets, the one structure, the first category, also of bytes that arrive between the abort and the close; the read returns |
| `triage` | batches of 3, 4 folder lists, 5 requests | 1.4 million | the outcomes are true; writes are safe; destinations are fresh |
| `triage_contract` | batches of 2 | 292 thousand | `Triage` implements `TriageContract`, and every UID gets its verdict |
| `triage_failed_request_sends` | batches of 2 | violation | see Findings |
| `search` | UIDs to 6, windows of 2, 2 windows and 3 results a page, 2 generations | 587 thousand | pages are whole and of one snapshot; SEARCH answers are judged; reads are true |
| `tools` | 3 messages, all tools, limits around 2 and 3; 4-message threads; bodies of up to 6 entities; headers of up to 4 fields | 1.5 million | complete unless truncated, attachments and text included; items are what they name; threads are forests; readings agree |
| `stdio` | frames of 4 bytes, lines up to 13, reads of 0, 1, 3 and 9 bytes, 15 picked documents and 512 chains | 170 thousand | whole frames, unambiguous calls; the session ends |
| `dial` | 4 lines or 7 bytes before TLS, lines of 1 or 3 bytes | 1.2 thousand | hand-over, leaks, budgets; Dial returns |
| `session_io` | requests of 3 and 6 bytes, limits 3 and 5, idle limit 8 | 36 thousand | budget, deadline, watcher |
| `drive` | 2 calls | 35 thousand | gate, latch, audit; every call is answered |
| `copy` | limit 4, sources up to 6, buffer 3, 2 empty reads, 2 directories | 68 thousand | publication, cleanup, descriptors; the copy ends |

The modules with variables also state their types, and the proofs establish them. The runs of single operations
(`structure`, `search`, `tools`, `stdio`) do not check deadlock: the operation
ends, and nothing is left to do.

Why these bounds are enough to be interesting. Two callers are the holder of
the gate and one that waits or arrives; two sessions are the pooled one and a
dedicated one. Three UIDs give a first, a middle and a last, so an uncertain
write can have a neighbour on each side. Two Drive calls are the one that
negotiates and one that waits for the slot; their safety is proved for any
number. The limits of
`Dial` let the count run out before the bytes and the other way round. In
`session_io` one request is as large as the smallest limit (`bufio`'s default and
`maxSearchResponseBytes`, both 4096 in the code) and one is larger than every
limit but that of an idle session, and a Read may span two operations. The sources of `copy` include one byte below, at, and two
bytes above the limit, which is not a multiple of the buffer.
The scanner's limits are the smallest under which each of them is the first to
run out in some frame and a structure with a literal still fits; the literal
size overflows its stand-in for 32 bits. Two windows of two UIDs in a mailbox of
up to six leave a page that is cut by its results, by its windows and by the
lowest UID. Thread depth 1 and two references make every limit bite with
three messages. The listings of `triage` have one, two and no holder of the
attribute, and a holder that is the source, an aggregate view or unselectable.
Lines of `stdio` are one byte below, at, one above and far above the
limit, with an acceptable object at their end; its documents are calls with
aliases and duplicates at several places, and an alias below every chain of up to
three of the fields the checks tell apart and arrays. With one exception the safety
results of all runs do not depend on the bounds: each invariant and each action
property of a passing run is proved for every value of the constants that the
named assumptions admit. The exception is `RanUnambiguously`, which rests on what
recursive operators make of JSON documents and is checked on those of the run.

No run uses symmetry.

### Fairness

* A goroutine that can take a local step takes it (`Local`): the Go scheduler.
* The timers of `operationContext`, of `Dial` and of `invoke` fire while the
  operation they guard is blocked.
* An operation whose context has ended fails: the watcher closes its transport.
* A caller that waits for a channel is served if the channel becomes ready again
  and again (strong fairness): Go queues the goroutines blocked on a channel.
* A killed process group is reaped; a system call returns.
* `StructureSession`: the one deadline of the read passes, and a closed transport
  fails its reader.
* `StdioServer`: the SDK keeps reading and closes a connection whose reader
  failed; the AfterFunc of an ended context runs.

Nothing is assumed of a peer, a server or a child process, and contexts of
callers need never end.

### Findings

`triage_failed_request_sends`: `docs/design/0005-mail-triage.md` says that
request-level failures "dispatch no write". `move` (`bridge/move.go:117`) fails
the whole request when a UID is abandoned and none was applied, also when an
earlier `UID MOVE` of the batch was dispatched and answered `NO`. Nothing was
written (`FailedRequestWroteNothing` holds), but a write was dispatched and its
refusal is not reported.

Observed while modelling `SessionIO`: `readBudgetConn.Read`
(`bridge/imapclient.go:1398`) cuts a request to the budget in force when it is
made, releases its mutex while it waits, and charges what it got to the budget in
force then. `bufio` never asks for more than 4096 bytes, which no limit is below,
but go-imap discards the literal of an unsolicited FETCH in larger requests. If
one is made on an idle session (64 KiB) and answered after the `begin` of a SEARCH
(4096 bytes), `remaining` becomes negative and the next Read panics on the slice at line 1410
with the mutex held. `WithinBudget` states exactly when: an operation takes more
than its limit, and a Read panics, only if a Read carried into it was larger than
that limit. `AdapterSession` does not include this panic among the ways a session ends, so
`CallsReturn` does not speak of it. No document or comment says otherwise, so no
run is expected to fail on it.

Observed while modelling `Mime`, and not a property of a run: the comment at
`bridge/attachment_projection.go:12` promises "the selection and limit rules of
NormalizeMessage's parseEntity". The two walks differ at the limits: an entity
that is too deep counts as a part in `visit` and not in `parseEntity`;
`parseEntity` flags the part limit already when it is met exactly;
`message/global` is flagged by `visit` only. What holds, and what `ReadingsAgree`
states, is that neither leaves out an attachment without a flag, and that the
structure's list is a prefix of the body's and equal to it when nothing is flagged.

## Proofs

`AdapterSessionProofs` proves type correctness, `NoTransportLeak`,
`NoStaleResponses`, `ClosedIsDrained`, `StaleSessionHeals` and
`PooledIsExclusive` and the action property `StructureIsDedicated` for every set of callers, every set of sessions and every
batch size, from `AdapterAssumption` alone. None of the properties is
inductive. The invariant `Inv` adds
  - `GateInv`: the token is in exactly one place;
  - `OwnInv`: which session the holder has in hand at each control point, and
    whether it is the retained one. Without it a step of one caller could close
    or reuse the transport of another;
  - `StepInv`: a retained session that is out of step is in the hands of a
    caller that is about to drop it with a code that `invalidatesSession`
    accepts. The lemma `InvalidatesMapped` shows that mapping the error under an
    ended context does not hide this;
  - `CloseInv`: after `closed` is set nobody is past `sessionForOperation`;
  - `ReplayInv`: the second attempt of a call runs on a transport the call
    dialed itself, so a transport error it ends with is its own.

`SessionIOProofs` proves the properties and the types of `SessionIO` for all limits
and request sizes (`SessionIOAssumption`: they are natural numbers). The key is
`BudgetInv`: bytes delivered plus bytes left are the limit in force, and the Read in
flight asked for no more than is left or is the one carried over from before the
last `begin` or `end`. These change the budget under a Read in flight; where no
request is larger than the smallest limit nothing carried can exceed it, and
`WithinBudget` says that no operation is ever over its limit.

`DriveProofs` proves of `DriveServer` `AnswersAreOwn` and `GateIsSound`, with the action
property `HandshakeLatches` in it, for any number of calls. `LatchInv` (once latched
nobody is inside the handshake) needs `SlotMatchesHolder`: the call that
latches is the only one there. `FailuresAreOwn` needs `ChildInv`: a child
belongs to the call that started it.

`TriageProofs` proves `OutcomesAreTrue`, `FailedRequestWroteNothing`,
`WritesAreSafe` and `FreshDestination` for batches of every size, all requests
and all folder lists. `TriageAssumption` says that `INBOX` is one of the names
that compare equal to it, that a listing is finite, and that the stand-in for
"no destination" is no mailbox name. `Inv` places the batch at one UID:
  - `OrderInv`: everything before it has a definite outcome, nothing after it
    was sent;
  - `WireInv`: a command on its way is for this UID and has had no effect yet,
    and the batch awaits it or has reported it as unknown on a session that is
    gone. Without this a late effect could contradict an outcome;
  - `EffectInv`: effects agree with what was settled;
  - `GenerationInv`: while the loop runs, an open session has the named
    generation selected, so a write cannot go astray;
  - `DestinationInv`: the destination in hand was resolved from the listing of
    this UID. Lemmas on `Destination` show that what it resolves is listed once,
    selectable and not the source.

`Refinement` shows that the safety of `Triage` implements that of
`TriageContract`: a step of the server is an effect of the contract, an answer,
a lost answer or a failed check settles a UID, the end of the loop returns, and
the steps of sessions, listings and capabilities change nothing the contract
sees. Each needs `Inv`: the contract lets a UID be settled only in order and only
with an outcome its effect allows.

`DialProofs` proves `DialEndsClean` and `DialogueIsBounded` for all budgets and
line lengths. `WatcherInv` says when the watcher runs and that only one which saw
the context end closes the socket early; the recheck after it was joined then
finds every such case. `TrailInv` carries what the peer answered, `BudgetInv`
that every line of both commands is charged to one budget.

Of `DriveTransaction` it proves `NeverPartial`, `ReturnIsClean` and
`NeverReplaces` for every limit, source length, buffer and depth of the parent
directory. `CopyInv` is the arithmetic of `copyBounded` (written plus remaining
is the limit, what was read was written), `DescriptorInv` reads the open
descriptors off the next call, and `CleanupInv` says what each deferred call has
done when the next one runs without an error.

`StructureSessionProofs` proves `ReleasedIsWhole`, `StructureIsEarned`,
`FirstCategoryIsFinal` and `BudgetsAreAhead` for all limits that satisfy
`QuarantineAssumption` and all chunks of bytes, cut anywhere. The scanner is a
chain of functions on one record, and two chains of lemmas follow it from
`refuseLocked` up to `feedLocked`:
  - the books: a function keeps the bytes approved, pending and handed over in
    balance, and releases a structure only by using up the active dispatch;
  - the budgets: in each scanner state the frame in progress fits its budgets
    together with its shortest end (`Fits`), every byte of that end leaves a
    shorter one, and so feeding all of it never runs into a bound.
`FeedAll` folds over a chunk of any length, and the second chain needs an
induction on the length of the end. Both use induction over the naturals in set form (lemma
`NatInSet`, from the well-foundedness of `<`): the set of lengths for which the
claim holds has no least element outside it. That budgets cannot run out inside an
acceptable frame rests on `fetchFeasibleLocked` looking ahead for the closing
parentheses and the end of the line, and on `FrameBytes <= SessionBytes`.
`FirstCategoryIsFinal` has to hold of every chunk that arrives after `abort` set its
category and before the connection is closed (`Aborts`, `AbortCloses`): bytes a
waiting Read then gets are neither scanned nor approved, and the failure of the
source that the close brings does not replace the category.

`MailReadsProofs` proves `PageIsOneSnapshot`, `PageIsWhole`, `AnswersAreJudged`
and `ReadsAreTrue` for every mailbox, window width, number of windows and
results, output bound and line budget (`ReadAssumption`), and for each shape of
answer that `Wires` and `FetchAnswers` give the server: the shapes are finite in
kind, their UIDs are whatever the mailbox holds. The argument has four layers:
  - sorting: `NewestFirst` lists a finite set in strictly descending order, since
    the elements and the places 1 to n are in bijection (`NewestFirstSorts`);
  - one UID SEARCH: a response is heard by the observer line by line, also when a
    literal cuts it, to the same effect as if it were read at once
    (`ResponseHeard`); for each wire the observer, the decoder of go-imap and the
    reference `Unambiguous` then agree (`WiresAreRight`);
  - one FETCH: an answer that `validateFetchedMetadataUIDs` accepts names every
    UID asked for exactly once, and none of its messages is another's
    (`WholeIsHonest`): a message that claims the next UID would exceed the newest
    one asked for;
  - the loop: `PageInv` says that the page so far descends to `remaining` and that
    the UIDs chosen lie in the next window, `WholeInv` that nothing at or above
    `remaining` is missing from it and that what a window leaves out is older than
    what was chosen. `SnapshotInv` says what others may change meanwhile: UIDs
    appear only at or above UIDNEXT, a new generation ends the selected session.

`MailServerProofs` proves `OnlyWholeFrames` of `StdioServer` and all four
invariants of `MailTools`. From `StdioServer`:
  - `OnlyWholeFrames`, for every stream, frame bound and sequence of read sizes.
    `Laid` fixes where each frame of the stream lies, `StandsAt` where the reader
    is in it, and `FrameInv` says that what was delivered and what is pending are
    the bytes of the settled frames, in order. A frame that is refused leaves the
    reader with an error that no later read clears;
  - `RanPassedBoth`: a tool runs only on a document that the alias check, the SDK
    and the argument decoder all accept: the part of `RanUnambiguously` that is
    about frames and calls. That no ambiguous document passes all three is not
    proved, and is not true of the two checks of this repository alone: an alias
    below an array in `params` passes both, and only the SDK refuses it.

About the algorithms, each for arguments of every length:
  - `BuildsForest`: sorting finds a place for every message (`PlaceTaken`,
    `EarliestFound`), keys stay distinct (`KeysGood`), and linking keeps a rank, a
    number that falls from each node to its parent (`Ranked`, `LinksGood`), since
    `wouldCycle` refuses a parent that is already below. Depths are then defined
    (`DepthsFound`), and cutting a link that is too deep keeps every depth at or
    below the limit (`DepthsGood`, `CutKeeps`);
  - `WalksHonest`: after k entities the attachments of a walk are the ones in the
    tree proper, unless a flag or an error says otherwise (`WalkGood`); `Reach`
    says that the depth to which a walk is open is the one to which the next
    entity belongs to it. The two walks are compared entity by entity (`Abreast`);
  - `HeadersHonest`: the block of thread fields holds what the whole header holds
    under each of the four names.

The tools are one state machine with a mailbox that changes under it. `ToolsInv`
was checked by TLC on the instance of `tools` before it was proved:
  - `MailInv`: the generation and UIDNEXT have not gone back since the search, and
    every UID present is below UIDNEXT. So a message that arrives later is not one
    the result owes;
  - `CallInv`: where each tool can be, and which of them have searched;
  - `ResultInv`: between two reads of `get_thread`, the identities listed and the
    candidates not yet looked at together still account for every message that is
    due (`HasAll`), unless the result is already marked; the target stays first.
    Every item in hand is one of `ReadItems`, that is, what its identity names;
  - `DoneInv`: what reaches the encoder accounts for everything due, for every
    attachment and the text of the message, and for every row that says applied;
  - `CompleteInv`: the same of the reply. `ShrunkIs` shows that shrinking leaves a
    prefix and marks it, `EncodedIs` that a fallback keeps the identity.
`UntruncatedIsComplete`, `ItemsAreWhatTheyName` and `ThreadIsForest` follow from
it, the last by `BuildsForest`; `ReadingsAgree` follows from `WalksHonest` and
`HeadersHonest`. The proofs assume what `MailAssumption`, `ToolAssumption` and
`MimeAssumption` say: UIDs count from 1, bodies are trees, limits are natural
numbers and the default limit lies within its ceiling.

The loops in `Threads` and `Mime` are folds, and what a fold computes is not
shown by an induction theorem with an operator as its parameter. Each loop has a
predicate of what its first k turns leave; it holds for none and for one more,
and a least k at which it fails (`LeastNat`) would contradict one of the two.

Only model-checked:
  - the liveness properties, `TriageContract`'s `Settles` among them: fairness
    and ENABLED are outside the prover;
  - `RanUnambiguously`: that the checks of `StrictJSON` and the SDK leave no ambiguous
    document between them is a matter of recursive operators, which the prover's SMT
    backend does not admit.

## Not modelled

* Transfer encodings, charsets and HTML text: in `Mime` a text decodes or not
  and fits or not.
* The credential helper: one bounded child process per lookup, whose failure is
  a failed open in `AdapterSession`.
* Configuration, endpoint and TLS policy: validation of static input before
  anything starts.
* JSON schemas, audit lines of the mail server, and wording of errors.
* The TLS handshake is one step. Logout runs without an input budget and ends
  its session; `SessionIO` covers the budgeted operations.
* The test kit and the scripts are not part of the programs.

## Plan

Modelled in this order so far: adapter and triage; dial, session and Drive;
the quarantine and structure reads; search pages and message reads; threads,
MIME and the tools; stdio; destinations. Every safety property of a passing run
but `RanUnambiguously` is proved. What is left:

1. `Credentials`: the helper process, its bounds and its zeroing.
2. A contract for the tools, as `TriageContract` is one for a batch: what a client
   may conclude from a sequence of calls rather than from one.
