# A TLA+ model of qoder-agent-sdk-go

The SDK runs the `qoderclicn` command line program as a child process, talks
JSON lines with it over stdin and stdout, and offers its callers a channel of
agent messages, control calls in both directions and an orderly shutdown. The
hard part is concurrent: half a dozen goroutines, four bounded channels and
pipes in a row, a process that may die or fall silent at any moment, and a
teardown that any of several parties may start. These modules model that part,
and the Options, credentials and environment that sessions of one host share.

## The system

| Component (source) | State | Operations | Talks to |
|---|---|---|---|
| Process transport (`transport/transport.go`) | child, stdin and stdout pipes, `msgs` channel, `closed`, payload path | Initialize, WriteLine/WriteJSON, Messages, Close; goroutines readStdout, readStderr, the one in `cmd.Wait` | the CLI; auth for the payload file |
| Query runner (`client.go`) | `out`, `runDone`, `pending`, `closeOnce`, `closed`, `sessionID` | start, runLoop, dispatch, forward, routeResponse, sendControlRequest, handleControlRequest, shutdown | the transport below, host callbacks, Query/ListModels/Session above |
| Query, ListModels (`client.go`) | none but their progress | start, handshake, prompt or wait for the catalogue, shutdown on failure | one-shot runner |
| Session (`session.go`) | `events`, `closedCh`, `sendMu`, `closeMu` | NewSession, Send, Stream, ReceiveResponse, control methods, Close; the tee goroutine | long-lived runner |
| BYOK and reload methods (`byok.go`, `plugins.go`) | none | build a request, `Session.sendControl` | Session |
| Plugin management (`plugins.go`) | none | one run of the CLI per call, decode its report | os/exec; the host's Env map |
| Hook ids (`client.go`), Options (`options.go`) | Hooks and Env, shared by reference | fillHookCallbackIDs, buildEnv | every session built from them |
| Auth payload (`auth/auth.go`) | a temp directory | the choice of the secret, WritePayloadFile, RemovePayloadFile | file system, environment |
| Runtime resolution (`runtime/runtime.go`) | none | ResolvePath | PATH |
| Wire decoding (`protocol/messages.go`, `protocol/control.go`) | none | ParseMessage, ParseControlRequestInner | |
| Fake CLI of the tests (`internal/fakecli/main.go`) | stash of lines read early, turn, model | main, nextMessage, drainUntilResponse | the SDK, in place of the CLI |

How they interact. `readStdout` parses lines into `msgs`; `runLoop` receives
them, sends agent messages to `r.out`, hands control responses to the one-slot
channel of the waiting call, and starts a goroutine per control request of the
CLI. A session's tee moves `r.out` to `events`. Writers (control calls,
answers, prompts) share stdin under `writeMu`. `shutdown` is called by runLoop
when it ends and by whoever fails or closes; it closes the transport once.

What is hard here: back-pressure through four bounded queues, of which three
sends have no way out; two callers of shutdown; responses that come late,
twice or never; a method that returns before its goroutine; a call that times
out and leaves its answer in the stream; a CLI that dies between any two steps;
a map and a list that two sessions write; cleaning up a secret on disk on every
path. `PROJECT.json` lists the hazards at their lines.

What makes each part correct:

- transport: messages in order and without gaps; the channel closes for a
  reason; Close returns and leaves no child and no secret; so does a failed
  Initialize.
- runner: the caller's stream is ordered, complete up to a shutdown, and ends
  at the result of a one-shot query; pending calls are tracked exactly and take
  the first response; every call, request and shutdown comes to an end.
- Query and ListModels: a handshake nobody reads during still ends if it can;
  every return but a stream cleans up; a listing returns in its time.
- session: the stream is the runner's, cut at one point; Close releases
  everybody; nothing is written afterwards; a failed NewSession cleans up;
  results belong to the turns they are returned for, as far as no call timed
  out.
- launch: each CLI gets its own credential, and hook ids that tell the hooks
  apart; a plugin call keeps the process environment and the CLI's verdict;
  stderr is read.

## Modules

| Module | What it is |
|---|---|
| `Relay` | the abstract specification of every stage of the stream |
| `Transport` | `ProcessTransport` and the CLI, under an arbitrary client |
| `Runner` (extends Transport) | `queryRunner`, under an arbitrary user |
| `RunnerProperties` | what the runner promises |
| `Query` (extends Runner) | Query and ListModels |
| `Session` (extends Runner) | `Session`, under an arbitrary user |
| `SessionProperties` | what the session promises |
| `FakeCli` (extends Session) | the scripted CLI of the tests |
| `Conversation` (extends FakeCli) | a host that takes turns: Send, ReceiveResponse, SetModel, Close |
| `Credentials` | packages `auth` and `runtime` as operators over an environment |
| `Launch` (extends Credentials) | sessions launched from one Options, and their stderr |
| `PluginCalls` (extends Launch) | a plugin call in the same host |
| `MCTransport`, `MCRunner`, `MCQuery`, `MCSession`, `MCConversation`, `MCLaunch` | lines, scenarios and constants for TLC |
| `RelayProofs`, `TransportProofs`, `RunnerProofs`, `RunnerEndProofs`, `SessionProofs`, `QueryProofs`, `ConversationProofs`, `LaunchProofs` | theorems and proofs |

The layers share variables instead of exchanging messages, as the Go objects
do: `Runner` uses the actions `Receive`, `WriteAccepted` and `CloseBegin` of
`Transport` inside its own, and `Session` and `Query` use `CallRegister`,
`Consume`, `PromptWrite` and `UserShutdown` of `Runner`. Each specification is
at the same time the abstract specification of what is built on it. A name that
starts a comment with "Mutation:" defines a plausible bug; no specification
uses it.

### Relay

`RelaySpec` has three steps: the source offers positions at the end of its
output, the oldest offered position that is not yet delivered is delivered, the
stream is cut for good. Two implementations are shown by refinement mapping:
the runner (`LoopIsRelay`: agent messages to `r.out`, cut when runLoop leaves
or shutdown begins) and the session (`StreamIsRelay`: to `events`, cut when the
tee is gone). The pump below them is described by `MsgsInOrder` and
`MsgsGapFree`.

### Transport

Every stream is an append-only log with a cursor. `emitted` is what the CLI
wrote and `nread` how much of it the scanner has consumed; `msgs` holds the
positions put on the channel and `ntaken` how many were received; `wrote` and
`nheard` are stdin. A pipe or channel that is full is a difference that has
reached its capacity. A message is therefore named by its position, and loss,
duplication and reordering can be seen.

- `launch`, `payload`: Initialize, one action per early return. The payload
  is the temporary directory; the CLI deletes the file in it, which changes
  nothing for its removal (`Launch` has that deletion, because there a CLI may
  be pointed at the file of another session).
- `child`: "running", "exited" (dead, not waited for) or "reaped".
- `reader`, `held`: readStdout; "push" is the blocking send of `send()`. The
  scanner stops at a line over 4 MiB ("oversized"); blank and unparsable lines
  are "junk".
- `closed`, `closing`: Close after its compare-and-swap: "grace", "int" and
  "kill" are the waits before SIGINT, between the signals and after SIGKILL.
  (The doc comment of Close says SIGTERM; the code sends `os.Interrupt`.)

### Runner

`loop` is the place of runLoop; "forward" is the blocking `r.out <- m`,
"deliver" is routeResponse between its unlock and its send (the call is no
longer in `pending` and its channel still empty), and "leave", "outclosed" and
"rundone" are the deferred calls. `call[c]` is the
place of one sendControlRequest, `box[c]` its one-slot channel and `pending`
the map. `handler[q]` is one handleControlRequest. `once` is `closeOnce` and
`closer[k]` the two goroutines that call shutdown. Outcomes other than a
response are one value, "error", because callers do nothing else with them.
The user may at any time start a call, write a user message (a member of
`Prompts`), read the stream or call shutdown.

### Query

`phase` is the place of the goroutine in Query or ListModels, `entry` which of
the two it is. An early return is "stopping" until shutdown has returned.
ListModels reads `r.out` itself; its timer is `ListGivesUp`, which is enabled
in every state of the wait. The check that an auth method is configured comes
before any state and is left out.

### Session

`setup` is NewSession ("wait" is the test of the loop that waits for a session
id, "select" the select in its body, so an id that comes between the two does
not help), `tee` its goroutine, `events` and `nevents` the
session's channel, `op[c]` a control method and `call[c]` the goroutine it
started, `prompt[p]` a Send, `ending` the effective Close. `ClosedCh` is the
closed channel.

### FakeCli and Conversation

`FakeCli` replaces the CLI that may say anything by the program the tests run
against. `cli` is the place of `main`, `stash` its package variable `pending`,
into which `drainUntilResponse` puts lines that are not the answer it waits
for (the model keeps their positions in stdin); `FAKE_TOOL_PROMPT` and
`FAKE_HOOK` are constants. A line carries the turn and the model it was written
in. `FakeIsACli` says that a conversation, without
the state of the fake, is a behaviour of `SessionSpec`: the runs with the
arbitrary CLI include it.

In `Conversation` one goroutine of the host takes turns, as `session_test.go`
does. `ReceiveTimeout` is the context of a ReceiveResponse that ends; the
events of the turn stay in the stream, and the host goes on to its next turn.
`answers` records which result each call returned, and how many turns had been
sent and calls had timed out by then.

### Credentials, Launch and PluginCalls

`Credentials` models the seven constructors, the order in which a secret is
looked for, and ResolvePath. An environment is a function from variables.

In `Launch`, `env` is the map `Options.Env` and `hooks` is `Options.Hooks`,
which the sessions of a host share. `at[s]` is the progress of one session:
file, environment, process, hook ids, initialize. buildEnv is two steps, its
writes and the loop that reads the map back, because another session may be in
the same map without a lock; a session that was there at the same time is in
`raced`, and `MapFault` is the fatal error of the Go runtime. Each CLI may delete
the file its environment names (`CliDeletesFile`, external). `errs`, `nerr`,
`pump` are stderr, and `fired` counts OnAuthExpired. The host's stderr handler
is not on the path: `start()` does not set it.

`PluginCalls` runs one plugin function beside a session: environment, exit
status, shape of the output and what the function returns for them. It iterates
the Env map it may share with launches while they write it: `seen` collects
what the map has been meanwhile, `Iterations` what such a loop may yield, and
`ReadFault` is the end of the process, as for two launches.

## Runs and bounds

| Run | Question |
|---|---|
| `transport` | Is the message channel right, and does Close clean up, under any client? |
| `runner` | Does the caller of a one-shot query get the right stream, whatever dies or shuts down, with a call and a prompt in it? |
| `query` | What does a handshake survive, does its call return, and do Query and ListModels clean up and end? |
| `runner_requests` | Are the CLI's requests answered independently, and does its death end the stream and release the handlers, while a callback hangs and stdin is full? |
| `session` | Handshake, control method, a request of the CLI, Send, Close and cancellation in every order: which response is taken, what is left behind, who writes? |
| `session_live` | Does Close, or a NewSession that fails, come to its end against full channels, a full stdin, a control method and a Send under way, and is the stream a relay end to end? |
| `conversation` | Do turns end, and do results and a model switch belong to the right turn? |
| `launch` | What are the CLIs of one host given? |
| `cancel_leak` | (violated) Does cancelling the context end the session? |
| `end_session_raced` | (violated) Is end_session tried before the teardown? |
| `handshake_forever` | (violated) Does the handshake end? |
| `oversized_query` | (violated) Does Query's channel close only after the result or when the CLI exits? |

Capacities are 1 (2 for the transport's channel and pipe), so that few lines
fill a queue; the code only asks whether there is room. `MaxEmit` bounds the
lines of the CLI: 4 for the transport, 3 for the runner and for Query (an event
before, at and after the interesting one), 5 for the backlog of a session, 2 where
only control traffic matters.
`MaxWrites` is the number of lines the SDK may write; where it is less than the
number of writers (1 in `runner`, for a call and a prompt) the other writer
still meets a closed transport. Two requests suffice for one that waits for
another (one has a callback, which may hang; the other is answered without the
host). The real timeouts are steps that may happen at any time, which covers
every relation between them. Deadlock is not checked: a closed session stops.
The CLI is external and may emit any line of the run's set at any time, with
two limits: it responds only to requests it has read and uses each request id of
its own once. It exits at any time, and it may ignore end of input and SIGINT.

The answers of the two requests of `runner_requests` are for a stdin that holds
one line, and the CLI need not read: the second handler blocks in its write with
`writeMu` held. In `session` the host callback of a permission request returns
when it likes, so its handler and the goroutine of a control method may be left
over when Close has returned; MaxWrites is the number of writers.

`session_live` starts the interesting part where it begins. Five lines are an
answer to initialize and four events, which fill `events`, the hand of the tee,
`r.out` and the hand of runLoop; a control method, a Send and end_session then
meet a stdin of one line, so one of them takes its place, the next blocks in its
write and the last waits for the lock. `BacklogBound` (in `MCSession`) names
what the run leaves out: the CLI answers initialize once and reads nothing more;
the stream is read only when Close has returned, and then one event of it; no
method or Send begins before every channel is full, and Close not before both
have begun; the context is cancelled only if NewSession then fails. It holds
back no step that fairness demands of an open or closing session, only steps of
the CLI, the reader and the user. Every other moment of cancellation and Close
is in `session`; NewSession may fail, and the CLI die, at any moment of this run
too.

`conversation` has two turns, the permission and the hook prompt in the first,
one SetModel and one ReceiveResponse that times out: the first turn's result is
then returned for the second, which is the case `AnswersInTurn` describes. In
either turn the CLI may be killed before it writes the result (`KilledAt` names
the places; other places are covered by the runs with an arbitrary CLI). 12
lines are all the fake CLI writes in it, so `MaxEmit` stops nothing; the
capacities of 1 are smaller than any backlog of a turn. The host's context is
not cancelled; the session runs cover that.

`launch` enumerates scenarios instead of combining every choice with every
other: nine auth methods over three environments; three brands, two PATHs and
an override; two sessions with and without a map in common; a hook whose id the host
chose itself, and one whose id it chose as the SDK's own hook_1; a CLI that writes
three lines to stderr through a pipe that holds one; each plugin call beside a
session without a shared map, and one call (they all read it alike) beside one
that writes the map they share. The host registers at most one hook late.

Fairness (`TransportFairness`, `RunnerFairness`, `QueryFairness`,
`SessionFairness`, `LaunchFairness`) is weak and only on what the Go runtime and
the kernel provide: a goroutine that can run does, a timer of Close fires,
SIGKILL kills, a dead child is reported. Nothing is assumed of the CLI, of host
callbacks, of the reader of a channel or of the user; a property that needs one
of them says so itself (`WF(Consume) => ...`). Two exceptions are stated where
they are made: in `ConvFairness` the fake CLI runs and the host's callbacks and
its pending ReceiveResponse make progress, since its question is whether these
parties wait for each other; and readStderr is fair through the callback it
calls. In neither must a timeout fire.

## What the runs show

Order and completeness hold at all three channels: only the tail behind a
shutdown is cut. A one-shot query stops at its result and cleans up even if
nobody reads it. Both callers of shutdown wait for the reaping, although a
second Close of the transport does not; the map of pending calls is exact;
calls take the first response. The death of the CLI releases a handler from its
write on a full stdin (`DeathEndsStream`). Close of a session completes and
releases every method and Send with all channels and stdin full and a CLI that
neither answers nor reads, and NewSession cleans up on the one error path that
does not call shutdown, because runLoop does (`SessionEnds`). Neither an
abandoned control method nor a late handler writes after Close (`session`).

A handshake survives exactly as many agent messages before the response to
initialize as `r.out` holds (64 in the code): with one more, forward() blocks in
front of the response (`HandshakeFitsBuffer`), and with no more the handshake
ends (`HandshakeReleased`). ListModels does return, because its own goroutine
calls shutdown whatever runLoop is blocked in.

Turns end although the CLI asks for permission in the middle of one and reads
stdin only for that answer, and although it may die before the result. The i-th
result is that of the i-th turn: after k calls that timed out a ReceiveResponse
returns a result up to k turns old, and nothing in the API tells the caller.

Each session is pointed at its own credential file even if the Env map still
names an earlier one, and the file is there when its CLI is started although
other CLIs delete theirs, provided the launches did not overlap
(`OwnCredential`). With one Env map for two concurrent NewSession calls, a CLI
may be started with the file of one that overlapped, which may be deleted
already, or the process may be ended by the runtime. Hook ids are distinct
unless a hook was registered after an earlier session wrote its ids back into
the Options, for the count starts at hook_0 again, or the host gave a hook an id
that the SDK counts up to itself: fillHookCallbackIDs does not look. An Env map
replaces the process environment of a session's CLI (README.md:118 calls it
"Extra env vars"; the comment of WithEnv does not), while it adds to that of a
plugin call.

Seven comments or documents of the code do not hold. A violated run shows the
first four; the same run as the fourth, at the same state, the fifth; the last
two can be read off the actions `PumpRead` and `EnvWrite` of `Launch`, where
`OwnCredential` and `StderrFlows` say what does hold:

- "The session is canceled when ctx is done" (client.go:22). If the caller
  cancels and stops reading while `r.out` is full, forward() blocks for ever:
  the child is killed but stays a zombie and the auth payload stays on disk.
- "Best-effort graceful end before transport teardown" (session.go:286).
  closedCh is closed before, so sendControl may return before end_session is
  registered.
- `InitializeTimeoutMs` and `ErrInitializeTimeout` are declared and unused; the
  handshake waits for ever for a CLI that lives and does not answer.
- "The channel closes after the terminal result message (or when the CLI
  exits)" (client.go:20-22). A line over the scanner's 4 MiB ends the pump, whose
  error is dropped, and with it runLoop: Query's channel closes with no result in
  it and the CLI alive, and its reader cannot tell that from a normal end.
  `EndOfStreamJustified` and `StreamComplete` say what holds as long as no line
  is that long.
- "The channel closes when the CLI exits or the transport is closed"
  (transport.go:165-166): at such a line it closes with the CLI alive and the
  transport open.
- OnAuthExpired "fires (at most once)" (README.md:141). readStderr calls it for
  every line that mentions authentication.
- "passes its path to qoderclicn" (auth.go:3-5): of two sessions that are
  started at once from one Options with an Env map, one CLI may be given the
  path of the other's payload.

## Proofs

The theorems hold for all sets of lines and calls, all capacities and all
bounds, from the named assumptions on the constants (`TransportAssumption`,
`RunnerAssumption`, `SessionAssumption`, `QueryAssumption`, `FakeCliAssumption`,
`LaunchAssumption`, `PluginAssumption`). Those of the first four say that
capacities are not zero and that lines and ids are of their kinds.
`FakeCliAssumption` says that the CLI of the session may write the lines of the
script, that its two requests differ, and that the host has finitely many
prompts; `LaunchAssumption` and `PluginAssumption` say what an Options value and
a plugin call are.

The chain. `SessionKeepsRunnerRules` and `QueryKeepsRunnerRules` show that each
step of a session or a query is a step of `RunnerNext` or leaves the runner
alone; the lemma `RunnerUsesTransport` says the same of the runner and its
transport, as the definitions make plain. So a theorem about a lower layer under
any client holds of every layer above it, and each is proved once, where it
belongs.

Transport (`TransportProofs`):

- `TransportTypeCorrect`: the type invariant, which is inductive. Two lemmas
  carry the logs: appending keeps earlier entries, and a log of positions stays
  one when there are more positions.
- `NothingIsLeftBehind`: `NothingLeftBehind` is not inductive, because it says
  nothing before Close is done. `LifeCycle` relates the progress of Initialize,
  the child, `closed` and the waits of Close: Close waits exactly if there is a
  child, and only Close reaps it.
- `ChannelInOrder`, `ChannelGapFree`: order is inductive with the line in hand
  counted; completeness needs `HeldIsLast`, that the blocked send holds the
  last line scanned. `PumpInv` collects these.
- `StreamEndJustified`, from `LifeCycle`, for streams without an oversized line.

Runner:

- `RunnerTypeCorrect`, with `Working`: while the loop works on a message there
  is one (`RunnerProofs`).
- `PendingIsExact`, with: a call never registered has an empty channel, and the
  call of the response the loop is delivering is not in the map.
- `ShutdownImpliesReaped`: `OnceInv` says that `closeOnce` is released after
  the transport's Close and that no caller returns before; then
  `NothingIsLeftBehind` applies.
- `RunnerRelays`, `OneShotEnds`, `SidIsFirst`: `StreamInv` says that, until
  shutdown begins, `r.out` holds exactly the agent messages the loop has worked
  on; with `PumpInv` that is a prefix of the CLI's output. `SidInv` relates the
  recorded id to the dispatched messages.
- `FirstReplyIsTaken` (`RunnerEndProofs`): `ReplyInv` adds that a request is
  written only after its registration and answered only after it was written,
  so no response can be dispatched before there is a slot for it.
- `StreamIsComplete`: `ShutterInv` says who may have begun
  a shutdown, `EndInv` why the loop is leaving.

Session and Query:

- `SessionTypeCorrect`, `CloseImpliesReaped`, `QuietOnceClosed`
  (`SessionProofs`): `ReturnInv` ties the return of Close to that of shutdown,
  and `OnceInv` then says that the transport is closed, so whatever goroutine
  is left can only be refused.
- `SessionRelays`: `TeeInv` says that `events` and the hand of the tee are what
  was consumed of `r.out`; the composition with `StreamInv` is end to end.
- `ReturnImpliesReaped` (`QueryProofs`): a return waits for the user's shutdown,
  to which `ShutdownImpliesReaped` applies.
- `HandshakeNeedsRoom`: `FitInv` says that during a handshake nothing is read
  and no shutdown was called, that `r.out` never exceeds its capacity, and that
  all agent messages before a routed response are in it. That the last holds
  when the response is routed is `StreamInv`; the count is then a matter of
  finite sets.

Conversation (`ConversationProofs`):

- `FakeIsOneOfThem` is the refinement of a session by a conversation, for any
  number of prompts. It needs an invariant, because Session lets a CLI respond
  only to what it has read and use each of its own request ids once: `PlaceInv`
  says for each place of `main` what it has read, asked and begun. That a
  permission is asked for once rests on its turn being the first, and that turns
  are no more than prompts on `OrderInv`, which counts: `turn` is the number of
  the prompts `main` has taken, and by `PromptInv` each prompt is written once.
- `SwitchHoldsForLaterTurns`, for later and for earlier turns: the heart is the
  other half of `OrderInv`, that
  what is still ahead of `main`, in the stash or in stdin, comes after all it
  has taken, but for the answers it waited for. So a prompt that has been taken
  has every earlier switch of the model behind it (`ModelInv`), and a prompt that
  has not is for a turn whose number nothing written bears yet (`TurnTaken`).
  For the earlier turns `SwitchInv` adds that nothing written speaks of the
  chosen model before `main` has taken a switch, and that while a turn is under
  way `main` has taken no prompt or call that stands behind its prompt; a call
  is written once (`CallsWrittenOnce`).
- `AnswersComeInTurn`: `TurnsInv` says that the script has one result per turn,
  in order and with no turn left out. By `SessionRelays` and `RelayHandsPrefix`
  the events taken are the oldest messages of the script, so the next result
  taken is that of the turn after the last one returned (`NextResult`).
  `HostInv` bounds how many turns are unanswered by the calls that timed out,
  as long as the stream may bring more.

Launch (`LaunchProofs`):

- `EachItsOwnCredential`: `CredentialInv` says that a session which was in the
  shared map alone finds its own file in it when it reads the map back, and that
  one which was not finds the file of one that was not either. So a CLI deletes
  its own file or, if it is in `raced`, that of another one there. It holds for
  any number of sessions, because one that enters while another is there puts
  both in `raced`. That a payload has a secret is a lemma about `Need` and the
  constructors (`PayloadIsSecretful`).
- `HookIdsAreUsable`: `HookInv` says that what a session has sent stays where it
  is with its id. The lemmas are about `Fill` alone: it sets every id and keeps
  those that are there, filling twice is filling once, and the ids it generates
  are distinct because the number of unset places before a place (`Rank`) is.
- `PluginCallsFit`: `PluginInv` ties the environment of the plugin's CLI to the
  host's, whatever mixture of entries its loop over the map yields, and the
  outcome to what was printed.

`RelayHandsPrefix` (`RelayProofs`) says what a relay promises in terms of its
log, so the two relay theorems can be read without the refinement.

Liveness under fairness stays with TLC: the prover reaches neither fairness nor
ENABLED. These are `CloseReturns`, `ShutdownReturns`, `CallsReturn`,
`DeathEndsStream`, `SessionEnds`, `TurnsEnd`, `StderrFlows` and the other
`~>` properties. Every invariant that a passing run checks is also proved.

## Plan

1. Done: `Transport`, `Runner`, `Session`, their runs and theorems.
2. Done: `Relay` and the refinements; `Query`; `FakeCli` with `Conversation`;
   `Credentials`, `Launch`, `PluginCalls`; the theorems about stream, replies,
   session and handshake.
3. Done: the theorems about `Conversation`, `Launch` and `PluginCalls`.
4. Left: a session whose host registers hooks during the launch of another; a restart
   of a session over the same Options in one specification with the transport.

## Not modelled

- buildArgs, StderrTail and PID: argv and accessors, on which no state depends.
- `checkProtocolVersion` has no caller outside its test, so no step of the
  program contains it (README.md:254 says a cross-major CLI is refused).
- The contents of messages, the shape of BYOK requests and the fields of the
  wire types: data no property looks at. The decoders are modelled by what
  they tell apart, the kind of a line and the subtype of a request.
- The fields of plugin reports, and the arguments of a plugin call.
- Panics of host callbacks, and messages of a size that exhausts memory.
