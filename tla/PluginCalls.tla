------------------------------ MODULE PluginCalls ------------------------------
(***************************************************************************)
(* Plugin management (plugins.go) in the host of Launch: a call runs a CLI *)
(* of its own to completion and decodes what it printed.  It needs no      *)
(* session; its PluginOptions may carry the Env map that the Options of    *)
(* the sessions carry: it only reads it, while a launch may be writing.    *)
(***************************************************************************)
EXTENDS Launch

PluginKinds == {"list", "install", "uninstall", "enable", "disable", "validate"}

\* What the CLI prints, as the decoders tell it apart: a list, an object that is
\* no report, a validation report as it is or in an envelope, an envelope
\* without one, the word null, or nothing that is JSON.
Shapes == {"list", "object", "report", "envelope", "empty envelope", "null", "garbage"}

ASSUME PluginAssumption ==
  \A c \in Scenarios : c.plugin \in (SUBSET PluginKinds) \cup {{"no"}}

VARIABLES
  kind,      \* the function called, "no" if the host calls none
  run,       \* where it is
  exit,      \* the CLI exited with status 0
  printed,   \* the shape of its output
  valid,     \* the verdict in its output: the report's, or ok of an empty envelope
  outcome,   \* "error", "ok" with what was decoded, or the verdict of a report
  seen,      \* what the shared map has been since the call began to read it
  pluginEnv  \* the environment of the CLI, None before

answerVars == <<exit, printed, valid>>
pluginVars == <<kind, run, answerVars, outcome, seen, pluginEnv>>
hostVars == <<launchVars, pluginVars>>

HostInit ==
  /\ LaunchInit
  /\ kind \in scenario.plugin /\ run = "start"
  /\ exit = TRUE /\ printed = "garbage" /\ valid = FALSE
  /\ outcome = "none" /\ seen = {} /\ pluginEnv = None

-----------------------------------------------------------------------------
\* No CLI is found, or it cannot be started.
PluginRefused ==
  /\ run = "start" /\ kind # "no"
  /\ run' = "done" /\ outcome' = "error"
  /\ UNCHANGED <<kind, answerVars, seen, pluginEnv>>

\* The process environment, and what the host gives on top of it.
Overlay(os, extra) ==
  [v \in DOMAIN os \cup DOMAIN extra |-> IF v \in DOMAIN extra THEN extra[v] ELSE os[v]]

\* Mutation: the map replaces the environment, as it does for a session.
ReplacedBy(os, extra) == IF extra = NilMap THEN os ELSE extra

PluginEnv(os, extra) == Overlay(os, extra)

PluginReads ==
  /\ run = "start" /\ kind # "no" /\ ThePath # ""
  /\ run' = "reading" /\ seen' = {env}
  /\ UNCHANGED <<kind, answerVars, outcome, pluginEnv>>

\* What an iteration over a map yields that was all of these meanwhile: each
\* entry from one of them, or none if that one has none.
Iterations(maps) ==
  LET names == UNION {DOMAIN m : m \in maps} IN
  {[v \in {n \in names : n \in DOMAIN from[n]} |-> from[v][v]] : from \in [names -> maps]}

PluginStarts ==
  /\ run = "reading"
  /\ run' = "running"
  /\ \E m \in Iterations(seen) : pluginEnv' = PluginEnv(scenario.os, m)
  /\ UNCHANGED <<kind, answerVars, outcome, seen>>

\* The CLI, external: it may print anything and exit with any status.
PluginCliEnds ==
  /\ run = "running"
  /\ run' = "decode"
  /\ exit' \in BOOLEAN /\ printed' \in Shapes /\ valid' \in BOOLEAN
  /\ UNCHANGED <<kind, outcome, seen, pluginEnv>>

\* parseValidationReport tries the envelope, then the bare report; an envelope
\* without a report has a schemaVersion, so it passes for a report that is empty.
ReportShapes == {"report", "envelope", "empty envelope"}
Verdict == IF valid /\ printed # "empty envelope" THEN "valid" ELSE "invalid"

\* Mutation: the exit status is looked at before the output.
ValidateStatusFirst == IF exit /\ printed \in ReportShapes THEN Verdict ELSE "error"

\* The output first: the CLI exits with an error when the plugin is invalid.
ValidateResult == IF printed \in ReportShapes THEN Verdict ELSE "error"

\* The shapes the other functions decode; enable and disable decode nothing.
Decodable ==
  CASE kind = "list" -> {"list", "null"}
    [] kind \in {"install", "uninstall"} -> ReportShapes \cup {"object", "null"}
    [] kind \in {"enable", "disable"} -> Shapes

OtherResult == IF exit /\ printed \in Decodable THEN "ok" ELSE "error"

PluginReturns ==
  /\ run = "decode"
  /\ run' = "done"
  /\ outcome' = IF kind = "validate" THEN ValidateResult ELSE OtherResult
  /\ UNCHANGED <<kind, answerVars, seen, pluginEnv>>

Plugin == PluginRefused \/ PluginReads \/ PluginStarts \/ PluginCliEnds \/ PluginReturns

\* A launch goes on, and the call may see what it does to the map.
LaunchBeside ==
  /\ LaunchNext
  /\ seen' = IF run = "reading" THEN seen \cup {env'} ELSE seen
  /\ UNCHANGED <<kind, run, answerVars, outcome, pluginEnv>>

\* The call reads the map and a launch writes it: the Go runtime may end the
\* process, and with it the call.
ReadFault ==
  /\ scenario.shared /\ run = "reading" /\ \E s \in Sessions : at[s] = "file"
  /\ at' = [s \in Sessions |-> "aborted"]
  /\ UNCHANGED <<optVars, buildVars, sent, errVars, pluginVars>>

Aborted == \E s \in Sessions : at[s] = "aborted"

HostNext ==
  \/ LaunchBeside
  \/ ReadFault
  \/ ~Aborted /\ Plugin /\ UNCHANGED launchVars

HostSpec == HostInit /\ [][HostNext]_hostVars

HostFairSpec == HostSpec /\ LaunchFairness

-----------------------------------------------------------------------------
\* A plugin call adds to the process environment and never replaces it, and does
\* not name a session's credential file unless it shares the map that a launch
\* has written to, or the host runs in such an environment itself.  A verdict the
\* CLI gave is not lost to its exit status, and no plugin is called valid that the
\* CLI did not call valid.
PluginCallFits ==
  /\ pluginEnv # None =>
       /\ DOMAIN scenario.os \subseteq DOMAIN pluginEnv
       /\ PayloadVar \in DOMAIN pluginEnv => scenario.shared \/ PayloadVar \in DOMAIN scenario.os
  /\ run = "done" /\ kind = "validate" =>
       /\ outcome = "valid" => valid
       /\ outcome = "error" => printed \notin {"report", "envelope"}
==============================================================================
