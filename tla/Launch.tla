--------------------------------- MODULE Launch ---------------------------------
(***************************************************************************)
(* Two sessions of one host process that are launched from the same        *)
(* Options: what each CLI process is given (its executable, its credential *)
(* file, its environment, its hook ids), and the goroutine that pumps its  *)
(* stderr.  Options is shared by reference: buildEnv writes into its Env   *)
(* map when there is one, and the handshake writes its Hooks.              *)
(*                                                                         *)
(* The stdin and stdout of the child, and its teardown, are in Transport;  *)
(* here a session is up until it goes down.                                *)
(***************************************************************************)
EXTENDS Credentials, FiniteSets

CONSTANTS
  Sessions,    \* the sessions of the host
  Scenarios,   \* records: the host's environment, the Options it builds, the
               \* sessions it starts and the stderr lines of each (a bound)
  Events,      \* the hook events, in their sorted order: a sequence
  HostIds,     \* the callback ids that a host chooses itself
  StderrCap,   \* lines the stderr pipe holds
  MaxErrs      \* bound: stderr lines of a child in any scenario

\* A line of stderr mentions authentication, does not, or exceeds 1 MiB.
ErrKinds == {"plain", "auth", "oversized"}

None == <<>>                       \* no environment, no hooks, no callback id
NilMap == [v \in {} |-> ""]
Generated(n) == <<"hook", n>>      \* the callback id hook_n

ASSUME LaunchAssumption ==
  /\ StderrCap \in Nat \ {0} /\ MaxErrs \in Nat
  /\ Events \in Seq(STRING)
  /\ \A c \in Scenarios :
       /\ c.brand \in Brands /\ c.vpc \in BOOLEAN /\ c.shared \in BOOLEAN
       /\ ~c.shared => c.env = NilMap
       /\ c.hooks \in [1 .. Len(Events) -> Seq(HostIds \cup {None})]
       /\ c.starts \subseteq Sessions /\ c.errs \in 0 .. MaxErrs

VARIABLES
  scenario,   \* what does not change of the Options and of the environment
  env,        \* the map Options.Env, if the host gave one
  hooks,      \* Options.Hooks: for each event its specs' callback ids, None if unset
  late,       \* the host has registered a hook after a session was launched
  at,         \* how far each session has come
  file,       \* the credential file of each, None when there is none
  childEnv,   \* the environment of each CLI, None before
  sent,       \* the hooks of each initialize request, None before
  raced,      \* sessions whose buildEnv overlapped another's on the shared map
  errs,       \* log of the lines each CLI wrote to stderr
  nerr,       \* how many of them its pump has read
  pump,       \* whether the pump reads: "off", "on", "stopped"
  fired       \* how often OnAuthExpired was called

optVars == <<scenario, env, hooks, late>>
buildVars == <<file, childEnv, raced>>
errVars == <<errs, nerr, pump, fired>>
launchVars == <<optVars, at, buildVars, sent, errVars>>

LaunchInit ==
  /\ scenario \in Scenarios
  /\ env = scenario.env /\ hooks = scenario.hooks /\ late = FALSE
  /\ at = [s \in Sessions |-> "idle"]
  /\ file = [s \in Sessions |-> None] /\ childEnv = [s \in Sessions |-> None]
  /\ sent = [s \in Sessions |-> None] /\ raced = {}
  /\ errs = [s \in Sessions |-> <<>>] /\ nerr = [s \in Sessions |-> 0]
  /\ pump = [s \in Sessions |-> "off"] /\ fired = [s \in Sessions |-> 0]

Move(s, from, to) == at[s] = from /\ at' = [at EXCEPT ![s] = to]

-----------------------------------------------------------------------------
(* Initialize: the credential file, the environment, the process. *)

ThePayload == Payload(scenario.auth, scenario.os)
ThePath == ResolvePath(scenario.brand, scenario.override, scenario.os, scenario.onPath)

\* No auth method, no executable, no secret; or the file cannot be written, and
\* then its directory is removed.
Refused(s) ==
  /\ s \in scenario.starts
  /\ Move(s, "idle", "failed")
  /\ UNCHANGED <<optVars, buildVars, sent, errVars>>

WriteFile(s) ==
  /\ s \in scenario.starts
  /\ Configured(scenario.auth) /\ ThePath # "" /\ ThePayload.type # "error"
  /\ Move(s, "idle", "file")
  /\ file' = [file EXCEPT ![s] = ThePayload]
  /\ UNCHANGED <<optVars, childEnv, raced, sent, errVars>>

VpcVars ==
  IF ~scenario.vpc THEN {}
  ELSE CASE scenario.brand = "global" -> {"QODER_VPC_ENDPOINT"}
         [] scenario.brand = "cn" -> {"QODERCN_VPC_ENDPOINT"}
         [] scenario.brand = "auto" -> {"QODER_VPC_ENDPOINT", "QODERCN_VPC_ENDPOINT"}

PayloadVar == "QODER_SDK_AUTH_PAYLOAD_FILE"
SdkVars == {"QODER_AGENT_SDK_ENTRYPOINT", "QODER_AGENT_SDK_VERSION"} \cup VpcVars

\* Mutation: what the map says already is kept.
MarkedKeeping(base, s) ==
  [v \in (DOMAIN base \ {"NODE_OPTIONS"}) \cup SdkVars \cup {PayloadVar} |->
     IF v \in DOMAIN base THEN base[v] ELSE IF v = PayloadVar THEN s ELSE "sdk"]

\* The environment for the CLI of s, made from base.  A file is named by its
\* session.
Marked(base, s) ==
  [v \in (DOMAIN base \ {"NODE_OPTIONS"}) \cup SdkVars \cup {PayloadVar} |->
     IF v = PayloadVar THEN s ELSE IF v \in SdkVars THEN "sdk" ELSE base[v]]

\* buildEnv up to its last loop.  A map of the host's is written in place, a
\* copy of the process environment otherwise.
EnvWrite(s) ==
  /\ Move(s, "file", "env")
  /\ env' = IF scenario.shared THEN Marked(env, s) ELSE env
  /\ raced' = raced \cup
       (IF scenario.shared /\ \E t \in Sessions : at[t] = "env"
        THEN {s} \cup {t \in Sessions : at[t] = "env"} ELSE {})
  /\ UNCHANGED <<scenario, hooks, late, file, childEnv, sent, errVars>>

\* Its last loop.
EnvRead(s) ==
  /\ Move(s, "env", "spawn")
  /\ childEnv' = [childEnv EXCEPT ![s] =
       IF scenario.shared THEN env ELSE Marked(scenario.os, s)]
  /\ UNCHANGED <<optVars, file, raced, sent, errVars>>

\* Two goroutines in the map at once: the Go runtime may end the process.
MapFault ==
  /\ scenario.shared
  /\ \E s, t \in Sessions : s # t /\ at[s] = "env" /\ at[t] \in {"file", "env"}
  /\ at' = [s \in Sessions |-> "aborted"]
  /\ UNCHANGED <<optVars, buildVars, sent, errVars>>

Cleanup(s) == file' = [file EXCEPT ![s] = None]

SpawnFails(s) ==
  /\ Move(s, "spawn", "failed")
  /\ Cleanup(s)
  /\ UNCHANGED <<optVars, childEnv, raced, sent, errVars>>

Spawn(s) ==
  /\ Move(s, "spawn", "fill")
  /\ pump' = [pump EXCEPT ![s] = "on"]
  /\ UNCHANGED <<optVars, buildVars, sent, errs, nerr, fired>>

-----------------------------------------------------------------------------
(* The handshake: the hook callback ids. *)

Specs(h) == UNION {{e} \X DOMAIN h[e] : e \in DOMAIN h}
Unset(h) == {p \in Specs(h) : h[p[1]][p[2]] = None}
Before(p, q) == p[1] < q[1] \/ (p[1] = q[1] /\ p[2] < q[2])

\* Mutation: the count starts again with each event.
FillPerEvent(h) ==
  [e \in DOMAIN h |-> [i \in 1 .. Len(h[e]) |->
     IF h[e][i] # None THEN h[e][i]
     ELSE Generated(Cardinality({p \in Unset(h) : p[1] = e /\ p[2] < i}))]]

\* fillHookCallbackIDs: a count over the specs without an id, in the order of
\* the events.
Fill(h) ==
  [e \in DOMAIN h |-> [i \in 1 .. Len(h[e]) |->
     IF h[e][i] # None THEN h[e][i]
     ELSE Generated(Cardinality({p \in Unset(h) : Before(p, <<e, i>>)}))]]

FillHooks(s) ==
  /\ Move(s, "fill", "init")
  /\ hooks' = Fill(hooks)
  /\ UNCHANGED <<scenario, env, late, buildVars, sent, errVars>>

SendInit(s) ==
  /\ Move(s, "init", "up")
  /\ sent' = [sent EXCEPT ![s] = hooks]
  /\ UNCHANGED <<optVars, buildVars, errVars>>

\* A session ends from any point after its process was started.
GoesDown(s) ==
  /\ at[s] \in {"fill", "init", "up"}
  /\ at' = [at EXCEPT ![s] = "down"]
  /\ Cleanup(s)
  /\ UNCHANGED <<optVars, childEnv, raced, sent, errVars>>

\* The CLI, external, deletes the file that its environment names when it has
\* read it.
CliDeletesFile(s) ==
  /\ at[s] \in {"fill", "init", "up"}
  /\ LET t == childEnv[s][PayloadVar] IN
       file[t] # None /\ file' = [file EXCEPT ![t] = None]
  /\ UNCHANGED <<optVars, at, childEnv, raced, sent, errVars>>

\* The host, external, appends one more hook to the Options for its next session,
\* bounded to one.
HostAddsHook(e) ==
  /\ ~late
  /\ \E s \in Sessions : at[s] \in {"up", "down"}
  /\ \A s \in Sessions : at[s] \notin {"fill", "init"}
  /\ late' = TRUE
  /\ hooks' = [hooks EXCEPT ![e] = Append(@, None)]
  /\ UNCHANGED <<scenario, env, at, buildVars, sent, errVars>>

-----------------------------------------------------------------------------
(* Standard error. *)

Running(s) == at[s] \in {"fill", "init", "up"}

ErrWrite(s) ==
  /\ Running(s)
  /\ Len(errs[s]) < scenario.errs /\ Len(errs[s]) - nerr[s] < StderrCap
  /\ \E k \in ErrKinds : errs' = [errs EXCEPT ![s] = Append(@, k)]
  /\ UNCHANGED <<optVars, at, buildVars, sent, nerr, pump, fired>>

\* Mutation: the pump ends when it has reported an expiry.
PumpReadOnce(s) ==
  /\ pump[s] = "on" /\ nerr[s] < Len(errs[s])
  /\ nerr' = [nerr EXCEPT ![s] = @ + 1]
  /\ LET k == errs[s][nerr[s] + 1] IN
       /\ pump' = [pump EXCEPT ![s] = IF k = "plain" THEN "on" ELSE "stopped"]
       /\ fired' = [fired EXCEPT ![s] = IF k = "auth" THEN @ + 1 ELSE @]
  /\ UNCHANGED <<optVars, at, buildVars, sent, errs>>

\* readStderr: the line goes to the tail and the handler; a line over the limit
\* ends the pump.
PumpRead(s) ==
  /\ pump[s] = "on" /\ nerr[s] < Len(errs[s])
  /\ nerr' = [nerr EXCEPT ![s] = @ + 1]
  /\ LET k == errs[s][nerr[s] + 1] IN
       /\ pump' = [pump EXCEPT ![s] = IF k = "oversized" THEN "stopped" ELSE "on"]
       /\ fired' = [fired EXCEPT ![s] = IF k = "auth" THEN @ + 1 ELSE @]
  /\ UNCHANGED <<optVars, at, buildVars, sent, errs>>

\* The end of the file, or cmd.Wait closing the pipe under the pump.
PumpEnds(s) ==
  /\ pump[s] = "on" /\ ~Running(s)
  /\ pump' = [pump EXCEPT ![s] = "stopped"]
  /\ UNCHANGED <<optVars, at, buildVars, sent, errs, nerr, fired>>

-----------------------------------------------------------------------------
Start(s) ==
  \/ Refused(s) \/ WriteFile(s) \/ EnvWrite(s) \/ EnvRead(s)
  \/ SpawnFails(s) \/ Spawn(s) \/ FillHooks(s) \/ SendInit(s)

Pump(s) == PumpRead(s) \/ PumpEnds(s)

LaunchNext ==
  \/ \E s \in Sessions :
       Start(s) \/ GoesDown(s) \/ CliDeletesFile(s) \/ ErrWrite(s) \/ Pump(s)
  \/ MapFault
  \/ \E e \in DOMAIN hooks : HostAddsHook(e)

LaunchSpec == LaunchInit /\ [][LaunchNext]_launchVars

\* Goroutines run, and so do the host's stderr callbacks.
LaunchFairness == \A s \in Sessions : WF_launchVars(Start(s)) /\ WF_launchVars(Pump(s))

LaunchFairSpec == LaunchSpec /\ LaunchFairness

-----------------------------------------------------------------------------
\* The CLI of a session is pointed at the credential file of that session, even
\* if the map still names the file of an earlier one; if its build overlapped
\* another's on the map they share, it may be pointed at the file of a session
\* that overlapped too, but of no other.  Without an overlap the file is there
\* until the CLI is started, whatever files the CLIs of other sessions delete.
\* A secret in a file that the SDK resolved is not empty.
OwnCredential ==
  \A s \in Sessions :
    /\ childEnv[s] # None =>
         LET t == childEnv[s][PayloadVar] IN t = s \/ {s, t} \subseteq raced
    /\ s \notin raced /\ at[s] \in {"env", "spawn"} => file[s] # None
    /\ file[s] # None =>
         (file[s].type \in {"accessToken", "serviceAccount"} /\ file[s].secret = ""
            => file[s].provider = "host")

Distinct(h) == \A p, q \in Specs(h) : p # q => h[p[1]][p[2]] # h[q[1]][q[2]]

\* The ids that the host chose differ from each other and from those that the
\* SDK counts up for the others: a host may call one hook_0.
OwnIdsClear(h) ==
  \A p \in Specs(h) \ Unset(h) :
    /\ \A q \in Specs(h) \ Unset(h) : p # q => h[p[1]][p[2]] # h[q[1]][q[2]]
    /\ \A n \in 0 .. Cardinality(Unset(h)) - 1 : h[p[1]][p[2]] # Generated(n)

\* The hook ids a CLI is told are set and tell the hooks apart, unless the host
\* chose them badly or registered a hook after an earlier session had the ids
\* filled in; and a hook that two sessions know has the same id in both, so one
\* table serves the callbacks.
HookIdsUsable ==
  \A s \in Sessions : sent[s] # None =>
    /\ Unset(sent[s]) = {} /\ (late \/ ~OwnIdsClear(scenario.hooks) \/ Distinct(sent[s]))
    /\ \A t \in Sessions : sent[t] # None =>
         \A p \in Specs(sent[s]) \cap Specs(sent[t]) :
           sent[s][p[1]][p[2]] = sent[t][p[1]][p[2]]

\* What the CLI writes to stderr is read, so that a full pipe does not stop the
\* CLI, and an expiry it reports reaches the host; until it writes a line over the
\* limit: then nobody reads any more.
StderrFlows ==
  \A s \in Sessions : \A n \in 1 .. MaxErrs :
    Len(errs[s]) >= n ~>
      \/ nerr[s] >= n /\ (errs[s][n] = "auth" => fired[s] > 0)
      \/ ~Running(s)
      \/ \E i \in 1 .. nerr[s] : errs[s][i] = "oversized"
==============================================================================
