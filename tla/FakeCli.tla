-------------------------------- MODULE FakeCli --------------------------------
(***************************************************************************)
(* internal/fakecli, the scripted CLI of the tests, in place of the        *)
(* external CLI of Runner, under a Session.  It announces itself, answers  *)
(* control requests, and turns each user message into an assistant message *)
(* and a result; in its first turn it may ask the SDK for a permission and *)
(* for a hook, and then reads on until the answer is there.                *)
(***************************************************************************)
EXTENDS Session, FiniteSets

CONSTANTS
  SetModel,     \* the set_model request
  AskTool,      \* the request perm_1 (can_use_tool)
  AskHook,      \* the request hook_1 (hook_callback)
  ToolPrompt,   \* FAKE_TOOL_PROMPT=1
  HookPrompt,   \* FAKE_HOOK=1
  FakeSid,      \* the session id it uses
  KilledAt      \* bound: where in main the process may be killed

Turns == 0 .. Cardinality(Prompts)
Models == {"none", "efficient", "chosen"}

Says(k, i, t, m) == [kind |-> k, sid |-> FakeSid, id |-> i, turn |-> t, model |-> m]
Plain(k, t, m) == Says(k, "none", t, m)
Reply(c) == Says("response", c, 0, "none")
Asks(q) == Says("request", q, 0, "none")

\* Every line of the script.
FakeLines ==
  {Reply(c) : c \in Calls} \cup {Asks(q) : q \in Requests}
    \cup {Plain("event", t, m) : t \in Turns, m \in Models}
    \cup {Plain("result", t, "none") : t \in Turns}

ASSUME FakeCliAssumption ==
  /\ FakeLines \subseteq CliLines
  /\ Requests = {AskTool, AskHook} /\ AskTool # AskHook
  /\ SetModel \in Methods
  /\ IsFiniteSet(Prompts)
  /\ ToolPrompt \in BOOLEAN /\ HookPrompt \in BOOLEAN
  /\ FakeSid \in Sids

VARIABLES
  cli,      \* where main is
  job,      \* the control request it is answering
  stash,    \* the package variable pending: lines read while it waited, by
            \* their positions in wrote
  turn,
  greeted,  \* initialized
  model     \* currentModel

fvars == <<cli, job, stash, turn, greeted, model>>
fakeVars == <<allVars, fvars>>

FakeInit ==
  /\ cli = "boot" /\ job = InitCall /\ stash = <<>>
  /\ turn = 0 /\ greeted = FALSE /\ model = "efficient"

-----------------------------------------------------------------------------
\* The first step of turn t, and the step after its permission prompt.
HookStage(t) == IF HookPrompt /\ t = 1 THEN "hook" ELSE "assistant"

\* Mutation: the permission prompt comes in every turn, with the same id.
FirstStageAlways(t) == IF ToolPrompt THEN "tool" ELSE HookStage(t)

FirstStage(t) == IF ToolPrompt /\ t = 1 THEN "tool" ELSE HookStage(t)

\* Dispatch on a line of stdin: the answer to a request of its own that nobody
\* waits for any more is ignored.
Begin(w) ==
  \/ /\ w \in Calls
     /\ cli' = "reply" /\ job' = w
     /\ model' = IF w = SetModel THEN "chosen" ELSE model
     /\ UNCHANGED turn
  \/ /\ w \in Prompts
     /\ turn' = turn + 1
     /\ cli' = FirstStage(turn + 1)
     /\ UNCHANGED <<job, model>>
  \/ /\ w \in Requests
     /\ UNCHANGED <<cli, job, turn, model>>

\* nextMessage: the stash first.
FakeRecall ==
  /\ child = "running" /\ cli = "read" /\ stash # <<>>
  /\ Begin(wrote[Head(stash)])
  /\ stash' = Tail(stash)
  /\ UNCHANGED <<allVars, greeted>>

\* Mutation: stdin is preferred to the stash.
FakeReadFirst ==
  /\ cli = "read"
  /\ CliHear
  /\ Begin(wrote[nheard + 1])
  /\ UNCHANGED <<rvars, svars, stash, greeted>>

FakeRead ==
  /\ cli = "read" /\ stash = <<>>
  /\ CliHear
  /\ Begin(wrote[nheard + 1])
  /\ UNCHANGED <<rvars, svars, stash, greeted>>

\* The line that main writes where it is, and where it is then.
Line(at) ==
  CASE at = "boot" -> Plain("event", 0, "none")
    [] at = "reply" -> Reply(job)
    [] at = "models" -> Plain("event", 0, "efficient")
    [] at = "tool" -> Plain("event", turn, "none")
    [] at = "ask" -> Asks(AskTool)
    [] at = "hook" -> Asks(AskHook)
    [] at = "assistant" -> Plain("event", turn, model)
    [] at = "result" -> Plain("result", turn, "none")

AfterReply ==
  IF job = InitCall /\ ~greeted THEN "models"
  ELSE IF job = EndCall THEN "leave" ELSE "read"

After(at) ==
  CASE at \in {"boot", "models", "result"} -> "read"
    [] at = "reply" -> AfterReply
    [] at = "tool" -> "ask"
    [] at = "ask" -> "await tool"
    [] at = "hook" -> "await hook"
    [] at = "assistant" -> "result"

FakeWrite ==
  /\ cli \in {"boot", "reply", "models", "tool", "ask", "hook", "assistant", "result"}
  /\ CliEmit(Line(cli))
  /\ cli' = After(cli)
  /\ greeted' = (greeted \/ (cli = "reply" /\ job = InitCall))
  /\ UNCHANGED <<rvars, svars, job, stash, turn, model>>

\* Mutation: what is not the answer waited for is dropped.
FakeDrainForgets(at, q, next) ==
  /\ cli = at
  /\ CliHear
  /\ cli' = IF wrote[nheard + 1] = q THEN next ELSE at
  /\ UNCHANGED <<rvars, svars, job, stash, turn, greeted, model>>

\* Mutation: a model switch read while it waits takes effect at once.
FakeDrainApplies(at, q, next) ==
  /\ cli = at
  /\ CliHear
  /\ LET w == wrote[nheard + 1] IN
       /\ cli' = IF w = q THEN next ELSE at
       /\ stash' = IF w = q THEN stash ELSE Append(stash, nheard + 1)
       /\ model' = IF w = SetModel THEN "chosen" ELSE model
  /\ UNCHANGED <<rvars, svars, job, turn, greeted>>

\* drainUntilResponse: what is not the answer waited for goes to the stash.
FakeDrain(at, q, next) ==
  /\ cli = at
  /\ CliHear
  /\ LET w == wrote[nheard + 1] IN
       /\ cli' = IF w = q THEN next ELSE at
       /\ stash' = IF w = q THEN stash ELSE Append(stash, nheard + 1)
  /\ UNCHANGED <<rvars, svars, job, turn, greeted, model>>

StdinEnded == closed /\ nheard = Len(wrote)

\* At the end of its input it stops waiting, and the turn goes on.
FakeDrainEnds(at, next) ==
  /\ child = "running" /\ cli = at /\ StdinEnded
  /\ cli' = next
  /\ UNCHANGED <<allVars, job, stash, turn, greeted, model>>

Draining ==
  \/ FakeDrain("await tool", AskTool, HookStage(turn))
  \/ FakeDrain("await hook", AskHook, "assistant")
  \/ FakeDrainEnds("await tool", HookStage(turn))
  \/ FakeDrainEnds("await hook", "assistant")

\* main returns after end_session, or at the end of its input.
FakeExit ==
  /\ cli = "leave" \/ (cli = "read" /\ stash = <<>> /\ StdinEnded)
  /\ CliExit
  /\ cli' = "exited"
  /\ UNCHANGED <<rvars, svars, job, stash, turn, greeted, model>>

\* The process is killed.
FakeKilled ==
  /\ cli \in KilledAt
  /\ CliExit
  /\ UNCHANGED <<rvars, svars, fvars>>

Fake == FakeRecall \/ FakeRead \/ FakeWrite \/ Draining \/ FakeExit
==============================================================================
