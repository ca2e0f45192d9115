# A TLA+ verification project for Piper-Agent

Piper-Agent is a local coding agent. An editor extension (`extension/`) starts
one *sidecar* process (`src/surface/sidecar.cpp`), which owns the model, the
conversation and the tools, and speaks newline-framed JSON with the extension
over stdin and stdout. The same binary also runs *task packets* without an
editor (`src/surface/worker.cpp`), alone or behind a keep-warm daemon.

This directory holds TLA+ models of the parts of that program in which order,
failure and shared state matter, the TLC configurations that check them on
small instances, and proofs that TLAPS checks for every instance. Paths below
are relative to the repository.

## 1. The system

### Components, the state they keep and what makes them correct

| component | state | operations | what has to hold |
|---|---|---|---|
| channel (`platform/spsc_channel.hpp`) | ring of slots, two indices and a cached copy of each, closed flag | try_push, try_pop, close, drained | bounded FIFO; a slot is never touched by both threads; drained means closed and empty |
| reader thread (`surface/transport.cpp`) | bytes not yet framed, the request being pushed | frame, set the cancel token, push (spinning while full), close at end-of-file | nothing dropped, order kept, a cancel takes effect before it is queued |
| dispatch and run inbox (`surface/sidecar.cpp`) | phase of the main thread, request id counter, steering, consents, shutdown flag | dispatch_one; in a run: take_messages, ask, apply_edit, apply_code_intel | one reply per request, steering never lost, deny by default, consent per run, cancel and a dead parent end every wait |
| session (`surface/session.*`, `context_journal.cpp`) | tokenizer, backend, registry, journal, context, run id | load, unload, start, resume, follow-up | the parts belong together after any failure; nothing points at what was destroyed |
| event log and resume (`platform/event_log.cpp`, `context/resume.cpp`) | the log file, the writer's sequence number | append, rotate, reconstruct, gate | a resume restores the run, all of it and nothing else, and never over a half-done edit |
| agent loop (`loop/agent.cpp`, `turn.cpp`, `approval.cpp`) | turn counters, streaks, repeat guards, plan and check gates | run, step, dispatch_call, gate_call | a run that brings nothing ends; completed means it handed back; what destroys the operator's data is asked |
| generation and streaming (`model/grammar.cpp`, `mlx_backend.cpp`, `loop/token_stream.cpp`) | the grammar's state, the draft being verified, a second channel, the batch being built | mask, sample, walk and take back a draft, push, run, finish | a turn is made of tokens the grammar allows; all text is shown, in order, before finish returns |
| MCP client and transports (`mcp/client.cpp`, `transport.cpp`, `subprocess.cpp`) | pending requests, closed and writable flags | call, response, time-out, cancel, close | each request ends once, with its own answer, even when the server dies |
| MCP server (`mcp/server.cpp`) | queue, workers, cancelled ids | handle, run, stop | each request answered once unless cancelled; stop drains |
| worker (`sidecar.cpp` from line 1809, `worker.cpp`) | result, answer and wake files, supervisor | execute, ask, finish, supervise | a launched task ends in a result or a wake, never in silence |
| daemon (`surface/socket_reader.cpp`) | socket path, pid file | probe, start, accept, forward, stop | one daemon per socket; a task is not run twice |
| KV cache and speculation (`model/kv_cache.cpp`, `speculative.cpp`, `mlx_backend.cpp`) | ledger, the model's caches, checkpoint, tokens owed | reuse, prefill, decode, draft, take back | what is decoded over is the prompt and what was generated, nothing else |
| context store (`context/context.cpp`) | recent turns, spans, pinned messages | add, collapse, compact, render | of two copies of a file the outdated one is called so; a collapse leaves the newest |
| durable context (`pcc/`) | SQLite tables, chains of deltas | remember, put, forget, append | a fact has one open value, superseded as a whole; every revision can be rebuilt; both only while calls do not meet on one connection |
| file tools (`tools/registry.cpp`, `memory_file.cpp`, `platform/fs.cpp`) | versions read, the files | read, write, edit, patch, delete, shell | nothing is overwritten that was not read |
| file system primitives (`platform/fs.cpp`) | descriptors, the temporary of a write | list, read, contain, replace, remove | nothing outside the workspace is opened; all of it or an error |
| command runner (`tools/sandbox.cpp`) | the command's pipe, its process group, the deadline | spawn, pump, kill, reap | what is reported of a command is what happened |
| search and diagnostics tools, security analysis, inference, extension views | | | sequential code over text, tensors or DOM |

### How they interact

    extension --stdin--> reader thread --SpscChannel--> main thread --stdout--> extension
                             |                             |
                             +------- CancelToken -------->|  (set there, read and reset here)
                                                           |
        Session { tokenizer, backend, registry, journal, context } <-- dispatch_one / run_loop
                                                           |
                          Agent::run --- RunInbox callbacks: steering, cards, edits, queries
                                                           |
                                                      event log file --> lmp/resume, also
                                                                         in a later process

The two threads share the channel and the token and nothing else. While a run
is turning, the agent calls back into `RunInbox`, which pops the same channel:
the human's approvals, steering and cancels are read by whoever is waiting.
The event log is the only thing here that survives the process.

### What is hard

* two threads and lock-free indices;
* a token set by one thread at any time and reset by the other;
* one queue read from five places with different rules, while the client's
  cards outlive the run that raised them;
* steps that replace one part of a session and then fail at the next;
* a log appended to by one process after another, with numbers that restart,
  rotated under the reader, most events without a run id;
* a peer (the extension, an editor, an MCP server, a worker, a daemon) that may
  never answer, or die;
* files by which two processes speak, each of which is killed at any moment;
* the operator's editor, which changes the files the tools are about to replace;
* caches that outlive what they were computed from.

`PROJECT.json` lists the hazards one by one at their lines, with the properties
that watch them.

## 2. The modules

| module | models | proved in |
|---|---|---|
| `BoundedQueue` | abstract: a bounded FIFO queue with a close, whose consumer stops when it is closed and empty | |
| `SpscChannel` | the ring, one action per atomic access; implements `BoundedQueue` | `WiresProofs` |
| `Sidecar` | client, reader thread and main thread around the inbox | `SidecarProofs` |
| `Session` | who owns and who points at what in `surface::Session` | `MissionProofs` |
| `AgentLoop` | the turn loop: batches, progress, nudges, endings | `MissionProofs` |
| `Workspace` | the gate, the file tools, the versions they remember, the atomic replace, and the operator's editor | `WorkspaceProofs` |
| `KvCache` | what a generation reuses of the last one, prefill, plain and speculative decoding | `MissionProofs` |
| `Generation` | one generation: grammar, masks, budgets, drafts, loop breaker, and the thread that streams it | `MissionProofs` |
| `Runner` | one shell command, from the grant to the exit status | `MissionProofs` |
| `WorkspaceFs` | the walks from the root's descriptor, and what is done where they end | `WorkspaceProofs` |
| `Mission` | the seven above that run on the main thread, as sides of one specification | `MissionProofs` |
| `RunLog` | the event log across processes, and resuming from it | `MemoryProofs` |
| `WorkingContext` | what the prompt shows of the files the model read | `MemoryProofs` |
| `Facts` | abstract: a key has a history of values, a call does all or nothing; of calls that overlap on a connection, that nothing is lost | |
| `FactStore` | the durable context over SQLite, written by several processes and by the threads of one over a shared connection; implements `Facts` | `FactStoreProofs` |
| `Worker` | a task packet, its three files, its supervisor and its parent | `WorkerProofs` |
| `Daemon` | the keep-warm daemon's socket | `MemoryProofs` |
| `Memory` | the log, the prompt, the facts, the task directory and the socket, as sides of one specification | `MemoryProofs` |
| `McpCalls` | abstract: calls that end once, with their own answer or a reason | |
| `McpWire`, `McpClient`, `McpServer`, `Mcp` | the pipes, the client in the sidecar, the server process, and the three together; implements `McpCalls` | `McpProofs` |
| `Wires` | the ring, the pipes and the task directory as sides of one specification, with their fairness | `WiresProofs` |

`MC*.tla` and `MC*.cfg` instantiate them for TLC. `Sidecar` uses its inbox as
`BoundedQueue` describes it, which is what `SpscChannel` is shown to implement:
that is how the two fit together.

`Mission`, `Memory` and `Wires` put components side by side that share no
variable. A variable (`side`, `memory`, `wired`) picks one at the start and the
others stand still: interleaving them would multiply states and add no behaviour
of any. What one part hands to the next is any value of the next one's inputs.

### SpscChannel

Variables are the members of the class plus a program counter and a register
for each thread. `CheckRoom`, `RefreshHead`, `WriteSlot`, `Publish` are
`try_push` line by line (50-60), `CheckAvailable`, `RefreshTail`, `TakeSlot`,
`Release` are `try_pop` (69-80), `AskClosed` and `AskEmpty` the two loads of
`drained` (94, 97); the last is one action for two loads because a closed
channel's tail no longer moves and its head is the consumer's own. The indices
are integers modulo `Wrap`; the code's `size_t` arithmetic is the case
`Wrap = 2^64`, and a power-of-two `Size` divides it, which is what the
assumptions ask for.

Every access is sequentially consistent here. The code uses acquire and release
on `head_`, `tail_` and `closed_`; those orderings make a slot's contents
visible with the index that publishes it, and the model has a reader see
exactly that. What it does not cover is a weaker ordering written by mistake.

### Sidecar

A request is its position in the sequence the client sent; a card or an editor
round trip is its position in `asked`, which no code keeps. The request id that
the code does keep, `run_id/seq`, is `RequestId`, so that two cards with equal
ids are still two cards. `phase` is where the main thread is:

* `dispatch`: main's loop; `loading`, `rebinding`: start_mission and
  continue_session before `agent.run`;
* `top`, `drain`, `generating`, `calls`, `rescue`: `Agent::run`: token check,
  steering, step, the turn's calls, the second drain after an inert turn;
* `card`, `card_pop`, `query`, `query_pop`: the wait loops of `ask` and of
  `apply_edit`/`apply_code_intel`, one token check and one pop per round;
* `late`: after the loop, before its last drain; `exited`.

A request that cannot be used in the place where it is popped is answered there
and dropped, as `handle` does. What a turn does with the model and with tools is
a choice: end the run, call again, or raise a card or a query. The settings of
a follow-up, of which the only effect here is a refusal, are a choice as well;
those of a start are part of the request, because refusing them costs a second
reply. A load that fails leaves this module's state alone; what it leaves behind
is the subject of `Session`.

### Session

The five `unique_ptr`s of `surface::Session`, each as what matters of its
content: the directory the model came from, the registry's workspace and vision
flag and where its recall tools read, the journal's number and run, the
context's run, workspace and sink. `Loads` is the set of outcomes of
`ensure_model`: nothing changed (what is held is what was asked for, or the
tokenizer refused), failed in the backend (both gone), loaded. The draft head is
not kept, so a request for the directory that is held may be one for another
head, and then loads both afresh. Start and resume are one action each, with every way in
which they fail as an action of its own; between the failures nothing else runs,
because the main thread does all of it. `recall = TheSession` is the closure of
`start_mission`, which looks at the session when it is called; a number is the
closure of `handle_resume`, which holds the pointer of that journal.
`phase = "crashed"` stands for a follow-up that dereferences a null pointer.

### AgentLoop

One action is one turn of `Agent::run`: `CallsTurn` for a generation that ends
in a batch of calls, `TextTurn` for one that does not. `RunBatch` takes the
batch call by call (`RunsCall`), as `step` does: when two or more calls are eligible to run in parallel
they run before the others (`RunsAhead`, adopt_readonly_result), the rest run in
order (`Dispatch`, dispatch_call). The workspace is one file, and what is known
of it is "current" or "older" bytes: enough for the question a re-read asks,
whether its bytes are those last recorded (`lastRead`, RepeatDetector) and
whether the context still holds them (`held`). Every batch says of each other
call what came of it. `StopsBefore` and `StopsWithin` are the endings that no
turn decides; `FollowUp` is `run_loop` making a new Agent over the same context.
`quiet`, `plain` and `handed` are histories for the properties.

### Workspace

Bytes are a member of `Contents` and stand for their own hash. A call is a
sequence of file operations (one, but for apply_patch) with a program counter:
`Gate` and `Answer` are `gate_call`, the `Prepare` actions the handlers up to
their commit, `AlreadyHolds`, `CheckPrecondition` and `Replace` the steps of
`commit_write` and `write_atomic_at`. Between any two of them `Outside` lets the
operator change a file. `moved` remembers that one did so between the last check
and the rename, the one window the code leaves; `seen` what any tool read.

### KvCache

A position is a token with the image it lies in; `ledger` is what
`KvCacheLedger` recorded and `consumed` what the model's caches were really
computed from. The two are separate variables because the code keeps them
separately, and only their agreement makes reuse right. `Begins` is
`generate_impl` up to prefill (extend, restore to the checkpoint, or reset) and
`warm_stable_prefix`; `PrefillChunk` is `prefill_tokens`; `Token` is plain
decoding; `DecodesOne` and `DecodesBlock` are `SpeculativeDecoder::step`, with
`Block` for what stays in the caches of a block accepted in part. Cancels
(`Stops`) and exceptions (`Throws`) come between any two.

### Generation

A turn from the mask to the screen. `grammar` is `TurnGrammar`: the phase, the
words of thought and of answer, the tokens and the number of calls. The guard
inside a call is an automaton that the instance gives (`GuardStates`, `Fed`),
because its code is a vendored library. `Samples` and `SamplesBlock` pick under
the mask; a block walks the grammar along its draft with one mask and takes it
back, and what is accepted is fed token by token by `OnToken`, which checks,
pushes to the queue, and applies the loop breaker and the budgets. `Pops`,
`AsksForMore` and `Leaves` are the streaming thread with its two decoders;
`Joins` is `finish`. A decoder (`Decodes`, the vendored tokenizer's
streaming_decoder.cpp) lets its bytes go up to the end of the last whole
character and holds the rest; a byte is a character of its own, the head of one
of two bytes, or a tail, and longer characters are left to these. The push to the
queue and the step of the grammar are one action of `OnToken`: the grammar is the
loop thread's own and the streaming thread looks at the queue alone, so nobody
sees their order.

### Runner

`LooksAtToken`, `LooksAtClock`, `Reads`, `SelectTimesOut` and `SeesEndOfOutput`
are one round of `pump_output`; `ReadFails` is its two returns on an error of
`select` or `read`, which kill nothing; `Reaps` is the `waitpid` behind it. The
command is what its processes may do: start jobs, print, close their output, leave
the process group, exit. The clock and the cancel token move on their own. After
such an error the report's output may be a part of what was written and says so
nowhere: `pipeFailed` exempts that case, and only its output, from
`OutcomeIsTrue`.

### WorkspaceFs

A directory and a file are their inodes, and an entry says which. One action is
one system call: a look (`fstatat`), an `openat` that follows no link, an
`mkdirat`, the steps of `write_atomic_at`, of a listing and of a read. Between
any two of them another thread may do its own, programs outside may make
something else of an entry or rewrite a file in place, any call may fail, and
the power may go, after which nothing is left of a block that was not flushed
but a beginning. `changed` and `rewritten` are histories.

### RunLog

The log is a sequence of events [seq, kind, run, what], `run = 0` for an event
without a run id. `LogAppend` numbers an event and appends it, or first rotates
the file away. `Kept` is the loop of `reconstruct_context`, as a function of how
much of the log was read: first `run_begin` of the run, then every
later-numbered event that matches. `EditInFlight` is what its scan leaves open.
`Dies` may happen between any two events. A turn is its number among all there
ever were and `owner` remembers whose it was; an edit likewise.

### WorkingContext

A file is a version, and a read returns [path, view, version], a view being the
whole file or a slice. A turn of the prompt says in which form it holds the
bytes it was given: verbatim with the notes added, as a reference to a copy
higher up, as a note that the file was read again below, or was edited since, or
as a stub. `ContextTurn` is a turn of the loop over a batch of calls, room made
before and after (`CompactToBudget`: the queued collapses, then the oldest
turns, then the floor); `Told` is steering or a follow-up.

### Facts, FactStore

`Facts` is what a caller may rely on. In `FactStore` a call is the statements of
`remember`, `put_artifact` or `forget`, one action each, and a process has one
connection for all of its calls, as the pcc server has for its four workers
(mcp/server.hpp:80, mcp_server.cpp:321-327). What a savepoint is lies in `db[c]`:
the tables as the connection sees them, the commit they were taken at, and the
stack of savepoints with what each would bring back. `Numbers` and `OpensTxn` are
the two halves of `txn_depth_++`, `Releases` and `Leaves`, `Unwinds` and `Undoes`
those of `--txn_depth_`, with the statement next to each; between them another
worker may do its own. So two workers may nest or share a name, see each other's
rows, release or roll back each other's work, and be told of an error for a row
that is stored. The first write asks for the file's one write lock and is refused
when another connection holds it or has committed since the snapshot, because the
code sets no busy timeout. A process may be killed between any two statements, and
the clock be set back. The refinement maps the rows of a key to its history; a
value that is found to hold already counts from when it was seen. Artifacts are
stored as chains of deltas, `put_artifact` asking for the base outside of its
transaction.

What is simplified: SQLite is taken to run the statements of one connection one
after the other (its default, serialised mode); the snapshot is taken with the
savepoint and not with its first read, between which nothing of the connection
happens that would tell; the reads of `Cas::put` are one step; a SELECT that was
not finished keeps its snapshot no longer than its savepoint; the row id and the
number of changes that a call asks the connection for are not in the answer; a
refused INSERT does not keep the lock. Tools that only read (recall, history,
diff) are not modelled. Their statements change no table, but while one runs
outside of any savepoint it holds the snapshot a write will get, so they count as
calls where a property says that none overlap.

### MCP

`McpWire` has a bounded sequence of messages in each pipe; a write to a full one
waits. `McpClient` has a reader thread and the threads that call: `Registers`,
`WritesRequest`, `Ready`, `GivesUp`, `TellsAndReturns` are send_async and await
between two releases of the lock. The host first initializes and lists, then
calls; closing is `Subprocess::terminate` with its two signals. `McpServer` has
a reader, a queue and workers; it may hang in a handler for ever or die at any
step, in two steps (its last message may already be in the pipe). `McpCalls` is
what a caller may rely on; that no call is refused for coming before the
handshake is part of it.

### Worker, Daemon

`Worker` has the three files of a task (`result.json`, `awaiting_user.json`,
`answer.json`), the process that runs it, the supervisor above it and the parent
(piper_worker.py) that launches, looks and answers. A process may be killed at
any step; what it held is forgotten and what it wrote stays. `Daemon` has the
socket's path, the daemons that probe, clear, bind, serve and stop, and the
launchers that probe, forward and fall back.

## 3. The runs

| run | bounds | shows |
|---|---|---|
| `channel` (`MCWires`) | ring: 2 slots, indices modulo 4, 2 values; pipes of one message, 4 ids, 2 threads, 2 workers; directory: 2 launches, 1 ask, a policy that waits | WiresTypeOK, SlotsNotShared, NobodyLeftWaiting, DrainAnswersAll, WithheldIsUnwanted; ImplementsQueue and ImplementsCalls (refinements of `BoundedQueue` and `McpCalls`); ClosedIsDrained, CallsReturn, CloseLeavesNoServer, EveryRunTold |
| `sidecar` | inbox of 1, 3 requests, 2 cards or edits, 2 turns, 1 command | TypeOK, OneReply, SteeringKept, RanOnApproval, AnswersStayInPass, ConsentIsRunScoped; NoApprovalAfterCancel; RequestsAnswered, CancelEndsRun, EofEndsProcess |
| `session` (`MCMission`) | parts: 2 models (one sees), 2 workspaces, 3 runs, 3 journals; loop: 1 nudge, 4 turns, 1 follow-up; files: 2 paths, empty or large content, 1 outside change; cache: chunks of 2, 3 new tokens, drafts of 2, 2 owed; tokens: 3 words, 4 states of the guard, 1 call, thought of 1, call of 3, 5 tokens, drafts of 2, a queue of 1; command: 1 job, pipe and cap of 2, 3 written; paths: a root with a directory and a file, one operation of a worker against a listing by another thread, 2 outside changes, files of 2 blocks | MissionTypeOK, ToolsActOnItsWorkspace, JournalFollowsContext; CompletedWasHandedBack; NoBlindOverwrite, OperatorsDataAsked; DecodesExactContext; TurnIsWhole; OutcomeIsTrue; FileAccessIsSound |
| `runlog` (`MCMemory`) | log: 2 runs, 2 processes, 4 events each; prompt: one file read whole or in part, 6 turns shown, 2 edits, room for 10 with marks at 7 and 3; facts: 2 threads of one process or of two, one fact with 2 values, one artifact with 3 revisions, chains of 1, 3 commits, 2 moments (followed no further than `Followed` says); task: 2 launches, 2 asks in the first and 1 in the second, both policies; socket: 2 daemons, 2 launchers, a backlog of 1 | MemoryTypeOK, ReplayIsFaithful, EditGuardAtHome; OlderCopyIsMarked; EveryRevisionReads, ImplementsFacts (refinement of `Facts`); AskAndAnswerAgree, OkHasNoOpenQuestion; AtMostOnce |
| `late_answer`, `lost_cancel`, `recall_dangling`, `held_twice` (`MCFactStore`), `resume_misses_edit`, `spin_goes_on`, `copy_lost`, `command_hangs` | the smallest that reach it | the eight disagreements below |

`session` reaches 1.2 million states, `runlog` 0.4 million, `channel` 64
thousand. `runlog` treats values, contents and writers as interchangeable
(`SYMMETRY Alike`), which is sound because its properties are invariants and a
refinement without fairness.

Why the bounds are enough to be interesting:

* ring: modulo 4 with 2 slots the indices wrap every second lap, the ring is
  full at 2, and every pair of staleness of the two copies occurs;
* pipes: two calls are the fewest of which one can get the other's answer, and a
  pipe of one message makes every write wait somewhere;
* sidecar: an inbox of one request makes the reader wait with a framed request
  in hand; start, message and cancel or shutdown fit in three requests and every
  pop site meets every kind; two cards are the fewest an answer can confuse, two
  turns the fewest for a second drain;
* parts: two of each let a registry be reused or replaced for either reason;
  three runs are start, failed start and start again around a resume;
* loop: with one nudge a run is stopped at the second turn that brings nothing,
  and four turns hold a streak, its interruption and another; the batches are
  every call alone and the pairs whose order matters. `Bulk = TRUE` makes the
  file large enough for a reference to stand in for it, which is the case with
  more paths;
* files: two paths make a patch of two files that fails at the second; content
  that is empty, large or absent are all the cases the gate and the reads tell
  apart; one outside change falls into every gap;
* cache: prompts share a prefix, differ in the first token, or differ only in the
  image behind one id; a chunk of 2 puts the stable boundary inside a chunk and on
  its edge, and 3 tokens fit a rejected block after an accepted one;
* tokens: a word, and a closer that two spellings reach, let a mask stand for
  two states and a draft end on either side of a call; a character split in two
  meets every switch of channel; a queue of one makes the generation wait;
* command: one job is enough to outlive the shell, to leave its group and to
  hold the pipe; three writes pass both the pipe's room and the cap;
* paths: an entry may become a link out of the workspace, nothing, or another
  directory, between the look and the open, and while another thread lists;
* log: two processes make numbers restart, two runs interleave, four events hold a
  begin, a turn or the two halves of an edit, and one other;
* prompt: three long copies pass the high mark and one passes the low, so that
  all three ways of making room occur; two edits are the fewest for an outdated
  copy that is itself outdated again;
* facts: two threads are the fewest for a refusal and a stale snapshot, when they
  are of two processes, and for nested and shared savepoints, when they are of
  one; three revisions over chains of 1 for a chain that may not grow. The
  constraint `Followed` ends a behaviour where nothing new would come: some calls
  after an overlap (the properties then promise little, and the proofs have every
  length), a second commit under a clock that was set back, a third that is not an
  artifact's;
* task: two asks in a run and a second launch make every answer and ask that can
  be taken for another's; two daemons clear each other's path, and two launchers
  fill the backlog.

No run checks for deadlock: the channel stops when drained, the sidecar, the
server and the daemons exit, and in the others every counter is bounded by a
constant of the model (`MaxRequests`, `MaxAsks`, `MaxTurns`, `MaxNew` and
`TokenBudget`, which the code has too, `MaxRuns`, `MaxOpens`, `MaxProcesses`,
`MaxEvents`, `MaxFollowUps`, `MaxOutside`, `MaxMoves`, `MaxIds`, `Launches`,
`MaxVersion`, `MaxShown`, `MaxCommits`, `MaxTime`, `MaxDepth`, `MaxWritten`), so their
behaviours end. What waits for ever by mistake is found by the liveness
properties instead.

Fairness. Of the ring each thread's steps are weakly fair, and the two
questions the consumer's loops alternate (`drained`, then `try_pop`) strongly
so: no loop in the code asks one of them for ever without the other. The
producer's decision to push or close is its own. In `Sidecar` the reader and
the main thread are weakly fair: both are ordinary threads that spin or run and
never block on each other with a lock. The client promises nothing: liveness
holds although cards may never be answered. That a run ends at all is its
`max_iterations` budget, which is in the model. Of an MCP connection every
thread of both processes is weakly fair, and so are time-outs and the signals
of `terminate`, which the kernel delivers; a handler of the server is not, so
that it may hang. Of a task the worker's and the supervisor's own steps and
time-outs are weakly fair; the parent promises nothing and kills may come at
any time. (These three are `RingFairness`, `PipesFairness` and
`DirectoryFairness` of `Wires`.) In `Runner` the harness and the clock are
weakly fair; the command owes nothing.

### Where the code and its documentation disagree

1. `late_answer`. Request ids restart with every pass over the same run id, and
   cards stay on screen: a late click decides another card. The comment at
   sidecar.cpp:538 promises otherwise. Within one pass it does hold
   (`AnswersStayInPass`).
2. `lost_cancel`. A cancel framed between lmp/start and `cancel.reset()`
   (sidecar.cpp:994) is acknowledged and lost; the comment at 544 says the token
   was set.
3. `recall_dangling`. handle_resume's recall closure (sidecar.cpp:1573) holds a
   journal that a later start in the same workspace destroys, the case
   registry.hpp:344 forbids.
4. `held_twice`. The pcc server's workers nest savepoints on one connection, so
   two overlapping `context_remember` of one key both insert a row that holds;
   store.cpp:189-191 says there is no instant at which a key appears to hold two
   values. The same sharing lets one call's ROLLBACK TO undo an object that
   another's item names, and one call's RELEASE make the other report an error for
   what is stored: that is why `ImplementsFacts` and `EveryRevisionReads` speak of
   calls that do not overlap on a connection, and why `Facts` promises of the
   others only that nothing is lost and nothing that ended comes back.
5. `resume_misses_edit`. Sequence numbers restart in each process, so a replay
   may skip the edit_begin that should refuse it (resume.cpp:115, resume.hpp:7).
6. `spin_goes_on`. A re-read that is answered with a reference to the bytes still
   in the context counts as progress, because its novelty is asked of the
   reference (agent.cpp:1589, 1825, 2776); agent.hpp:640 calls such a turn inert.
7. `copy_lost`. Making room replaces every copy of a file, the newest too, by a
   note that it "was read again below" (agent.cpp:2042); context.hpp:336 and
   agent.hpp:509 promise that the newest one stays.
8. `command_hangs`. A command that closes its output and goes on is waited for
   with neither deadline nor token (sandbox.cpp:701); sandbox.cpp:525 says an
   unattended run cannot afford a command that never returns.

`DecodesExactContext` exempts what follows a forward pass that threw. The
positions such a pass added stay in the model's caches while the ledger does not
know them (mlx_backend.cpp:1016-1028 only reports the error), and the next
generation extends over them, although mlx_backend.cpp:1093 says "Stale context
is never decoded past." Without `~astray` in the property TLC shows it.

The passing properties of `RunLog` say how far the promise does hold: for a run
that never left the process it began in. They also exempt what is newer than the
run that is resumed, because a tool result carries no run id and matches every run
(resume.cpp:29), although resume.hpp:51 says "only that run's events apply".

Read in the code while modelling, and not checked by any run: apply_patch's
exact search matches bytes and not whole lines; context_rehydrate refuses the
range it offers for compacted turns, because first_event_seq is never set
(agent.cpp:2957, context_tools.cpp:202, store.cpp:304); a read of a
file that is rewritten in place while it is read may mix the two (`ReadsWhole`
exempts `rewritten`); write_atomic_at reports an error when only the flush of
the directory failed and the file is already replaced.

## 4. The proofs

`tlapm` checks every leaf of the eight proof modules. Each proves an inductive
invariant of a component for every value of its constants, and takes the
properties of the runs from it. Type correctness is a part of each invariant.

**`WiresProofs`** begins with the ring (any `Size`, any `Wrap` that it divides;
`TypeCorrect`, `NoSharedSlot`, `RingIsQueue`). `SlotsNotShared` speaks of two indices that each thread knows only through a copy, so it is not
inductive. `IInv` adds three facts:

* `StaleViews`: going round the ring, head is at or after the producer's copy of
  it, the consumer's copy of tail is between head and tail, and tail is at most
  `Size` from the producer's copy;
* `RoomSeen`: a producer between its room check and its publication still has room
  by its own copy of head;
* `ItemSeen`: a consumer between its item check and its release still has an item by
  its own copy of tail.

A producer and a consumer in the act then have indices that differ by less than
`Size` and by more than zero, and such indices are in different slots
(`NoSharedSlot`). `RingIsQueue` proves the refinement: with `Pending` (what a
thread has in hand is what its slot holds) every atomic access is a step of
`BoundedQueue` or a stutter. The arithmetic of wrapping and of remainders is in
lemmas of its own. The module's second part lifts the theorems of the ring, the
pipes and the task directory to `WiresSpec` (`WiresAreApart`): a step of one
leaves the variables of the others alone.

**`SidecarProofs`** (any capacity, commands, editor and bounds). The link between
client and main thread loses, repeats and reorders nothing: `InOrder` says that
the inbox, what the reader holds and the wire are at any moment the last
requests sent, in order. What a thread does to it is one of `Sends`, `Frames`,
`Pushes`, `Pops` (`LinkStep`), so that the queue is reasoned about once. From it
follow `AnsweredOnce` (nothing behind the popped ones is answered),
`DenyByDefault` and `LateAnswersDecideNothing` (`WaitsForLast`: a wait is for the
last ask, whose id within a pass is its number), `ConsentDiesWithRun`
(`OnRecord`: a consent that holds was given in this run), `NothingSaidIsLost`
(what was accepted is in the conversation, on its way, or in the steering queue,
which is empty between runs), and the action property `CancelStopsApprovals`
(`CancelAhead`: a cancel that was framed has set the token or is ahead of
everything sent after it).

**`McpProofs`** (any threads, workers, pipes and number of calls). `McpInv` has one
conjunct per question: who owns an id (`CallsOwned`), where the handshake is
(`HandsShaken`, `Introduced`: behind a pending `initialized` or after it), that
whoever waits is on the list or has its promise kept (`Awaited`), which ends of
the pipes are open (`PipesClosed`), that an accepted request is answered,
withheld, queued or in one worker's hands (`Pooled`), that no id is asked twice
(`AskedOnce`), that an answer on the way was served (`AnswersServed`), and that
a cancellation on the wire is of a call nobody makes any more
(`CancelsForgotten`). From them `EverybodyIsTold`, `DrainIsComplete`,
`OnlyTheUnwantedIsWithheld`, and the refinement `CallsAreKept`.

**`WorkerProofs`** (any launches, asks and policies). `Books` says of one launch's
record what goes with the place it has reached: how each ask was decided, and
that its facts still know of every ask nobody answered until they are final;
`Deserted` says of the ask on file that its writer waits for exactly that one or
is gone. From them `AnswersReachTheirAsk` and `OkIsEarned`.

**`WorkspaceProofs`** has the workspace's two modules.

* `Workspace` (`NothingIsOverwrittenBlind`, `LossIsAsked`; any paths, contents and
  patches): a version that is noted was read, what a call is bound to was read,
  and from the check to the rename the file holds what was checked or was changed
  in that window; a call nobody was asked about has nothing of others to lose.
* `WorkspaceFs` (`FilesAreSound`; any tree, threads, operations and changes from
  outside): `Walks` says how far a walk has come for each place in an operation,
  so that every component looked up is a name and every directory entered was
  reached without a link; `Published`, that an entry that names a written file
  names one that is complete, flushed and written no more; `Listing`, that the
  entries passed on a scan's own descriptor are those it has reported; `Reading`,
  that what was read is a prefix of a file that, unless it is rewritten in place,
  still has the size that was taken. No step's guard looks at another thread's
  operation, so one lemma (`WaitingKept`) speaks for all who do not move.

**`MissionProofs`** has the other parts of the main thread.

* `Session` (`ToolsStayHome`, `SinkIsAlive`): types and the two properties are
  inductive together: a resume commits a context for the workspace of the run it
  found, and it is the gate's identity check (`IdentityMatches`) that makes this
  the workspace the registry was brought up for.
* `AgentLoop` (`CompletionIsHandedBack`): the property speaks of the report, which
  looks at the reason alone; the reason of a silent end comes from `noAnswer`, a
  flag that accumulates over the streak. `StreakIsAnswers` ties the two: while no
  turn of the streak stalled, at least `inert` turns of it were plain answers.
  What a batch does is irrelevant to it. `AgentTypeCorrect` follows a batch call by
  call (`UnderWay`, `CallsRunExists`, `BatchEndsTyped`).
* `Generation` (`TurnStaysWhole`, for any tokens, bytes, guard, budgets, drafts and
  queue) rests on `GenInv`. Its first half, `TurnInv`, is about the grammar: it is
  what the tokens so far make of a fresh one, a thought passes its cap by no more
  than a draft, and each token that was committed and not yet fed may follow those
  before it. The last is what
  makes a block safe: its tokens are sampled together, under one mask if no state
  in the block can change it, and fed only afterwards. That a walk along a draft
  is taken back completely is what keeps the first true. Its second half,
  `ScreenInv`, is about each channel: the prose of the turn so far is what the
  streaming thread has taken followed by what is queued, and what is shown with
  what is about to be shown decodes exactly what was taken, but for the first
  bytes of a character that its decoder holds (`Stands`). The queue is empty when
  the thread leaves, so nothing of the record is then missing (`AllShown`).
* `Runner` (`ReportIsTrue`): what was written is in the pipe, stored, or known to be
  cut (`Accounted`); the end of the output was seen only when nobody could write
  any more (`OutputOver`); after a kill there is no shell to start anything
  (`GroupGone`).
* `KvCache` (`ContextStaysExact`): what the caches were computed from is the ledger,
  or the difference shows, in a length (`Shadows`) or in that the ledger ends
  behind a generation prompt, which no later prompt extends (`Shadowed`, from
  `PrimerAssumption`); a checkpoint taken over stray positions is longer than it
  says (`CheckpointKept`), so that nothing is restored from it.
* `Mission`: a behaviour of the whole is a behaviour of each part
  (`MissionIsItsParts`), because a step of one side leaves the variables of the
  others alone; so all that is proved of a part holds in it. `MissionTypeCorrect`
  is the type invariant of the run, `MissionIsSafe` all of its other invariants
  and its two action properties, with those of `WorkspaceProofs`.

**`MemoryProofs`** has the log, the socket and the prompt.

* `RunLog` (`ReplayKeepsRuns`, `GateSeesOpenEdits`): the run a process is on was begun
  in it or has moved (`Living`); one process numbers upwards (`Numbered`,
  `Oldest`); an open edit is the last the log heard of its run (`EditsLogged`).
  `Kept` filters a log of any length; its facts are proved over the data, by the
  least counterexample (below).
* `Daemon` (`TaskRunsOnce`): no caller has two connections, and a task handed over is
  one connection of one daemon (`OneEach`, `Fits`), so that only its executor or
  its launcher, told that nobody took it, may run it.

* `WorkingContext` (`OlderCopiesMarked`; any files, batches and thresholds): the
  property is inductive once the turns are typed (`ContextInv`). Making room, in
  whichever of its ways, only leaves out the oldest turns and takes labels away
  (`GivesWay`, `CompactKeeps`); two reads of one batch run before its writes and
  see one version (`WritesCount`); what is read sees every copy that will stand
  above it (`AddedIsMarked`).

`MemoryIsApart` then lifts these, with `WorkerProofs` and `FactStoreProofs`, to
`MemorySpec`: `MemoryIsSafe`, `MemoryTypeCorrect`, `MemoryRefines`.

**`FactStoreProofs`** (any processes, threads, connections, keys, values, contents
and times). `RevisionsRead` and `FactsAreKept` rest on one invariant, `StoreInv`,
in two halves.

What holds whatever calls overlap:

* `Disk`: the connection that writes has the latest snapshot, and every table it
  sees or could roll back to goes on from the one on disk (`Backed`, `Continues`);
  one that does not write and has the latest snapshot sees the table on disk. So
  no statement, release or rollback, of whoever's savepoint, loses a stored row or
  reopens a closed one: that is all `Facts` promises once calls have overlapped;
* `Serving`: what goes with the place a call has reached (`Sound`).

What holds as long as no two calls of one connection overlapped:

* `Shape`: a connection's savepoints are those of the one call that runs on it,
  named 0 and 1, and `txn_depth_` counts them (`Nested`, `Free`). From this a call's
  statements are steps of a transaction that nobody else touches (`TxnStep`), and
  only these are reasoned about further;
* `TxnInv`: every object's base is stored, one link nearer to a whole object, and
  what a row of an artifact names is stored (`Whole`; `ChainsLoad` concludes that no
  chain outlasts the budget of a load); of the rows of a key only the last can
  hold, and none begins or ends after a clock that is steady (`InOrder`); the
  table a transaction sees is whole (`SeesWhole`) and in order (`Stands`), and,
  while its snapshot is the latest, it is the one on disk with what the call has
  written (`Fresh`); whoever has the write lock is in that case (`Locked`), because
  SQLite refuses the lock on an older snapshot.

The refinement maps the table to each key's history (`History`, counted up row by
row) and a call to what was asked and answered (`FactAsked`, `FactTold`). A value
that was found to hold already counts from the moment it was seen (`Settled`),
not from the answer. While calls stay apart every step of the store is a step of
`Facts`, a stutter, or, for a process that dies, its call withdrawn; afterwards it
loses nothing.

Assumptions. The named `ASSUME`s of the modules are all there is; TLC evaluates
each in a run. They say that the bounds are natural numbers, that a batch
is a sequence of calls that is not empty, that `Size` divides `Wrap`, that the marks of compaction are in order, that values meaning "none" are
none of the values, and `PrimerAssumption`: the generation prompt occurs in no
message.

Induction over data. The library's induction theorems take an operator as a
parameter, which the installed provers cannot instantiate; but every set of
numbers that is not empty has a least element (`LeastExists`, from
`WFMin` and `NatLessThanWellFounded`), so a fact about a recursive function is
proved by the least number at which it fails, and that the function exists by its
finite approximations (`KeptExists`, `CountExists`, `FillsExists`, `CallsRunExists`).
The four recursions of `Generation` are instances of one (`Chain`, `StepOf`): what is
known of it, that it exists, that it looks at no more than it is given, and that it
continues over an appended sequence, is proved once.

Model-checked only: liveness, and all that rests on ENABLED, which the prover does
not reach: `ClosedIsDrained`, `CallsReturn`, `CloseLeavesNoServer`, `EveryRunTold`,
`RequestsAnswered`, `CancelEndsRun`, `EofEndsProcess`. Every invariant and every
action property of a passing run is proved.

## 5. Not modelled

Text processing, numerical code, protocol tables and views: search, diagnostics
and symbol tools, the text of patches, the shell parser behind the blast radius,
sandbox profiles, sampler, tokenizer, prompt rendering, the extension's views,
recall and search of the durable context, vendored code. Their hazards are in
data, and a model would repeat them line by line. They are most of the
repository, which is why the map stays a fraction of it.

From the modelled files: MCP server connections of a session and the settings;
`lmp/sessions` and `list_runs`; two sidecars that append to one log file at once;
memory orderings weaker than written; the in-process MCP transport, progress and
log notifications, further pages; edits the editor applies itself; the daemon's
pid file; micro-edit and budget notes of the turn loop; the journal range a
compacted span points back to; as-of queries and compaction of the durable
context. `PROJECT.json` says per component what is in and what is not.

## 6. What is left

All modules of the plan are written. What would add most now:

* a passing run of a follow-up that is refused when the model or the registry is
  gone, once the code does so (`phase = "crashed"` in `Session`);
* `list_runs`, and two processes that append to one log at once.
