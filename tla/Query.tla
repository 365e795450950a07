--------------------------------- MODULE Query ---------------------------------
(***************************************************************************)
(* The two one-shot entry points of client.go over queryRunner: Query,     *)
(* which hands r.out to its caller, and ListModels, which reads r.out      *)
(* itself until the model catalogue comes.  Both shake hands first, and    *)
(* nobody reads r.out meanwhile.                                           *)
(***************************************************************************)
EXTENDS Runner, FiniteSets

CONSTANTS
  InitCall,   \* the initialize request, the only control call of a one-shot run
  Prompt,     \* the user message Query writes
  Entries     \* the entry points under study

ASSUME QueryAssumption ==
  /\ OneShot
  /\ Calls = {InitCall}
  /\ Prompt \in Prompts
  /\ Entries \subseteq {"Query", "ListModels"}

VARIABLES
  entry,   \* the function that was called
  phase,   \* where it is; "streaming": Query has returned r.out;
           \* "error" and "models": what the other returns gave
  found    \* ListModels has seen the catalogue

qvars == <<entry, phase, found>>
queryVars == <<vars, qvars>>

\* The system message available_models_update.
IsCatalogue(l) == l.kind = "event" /\ l.id = "models"

QueryInit ==
  /\ RunnerInit
  /\ entry \in Entries
  /\ phase = "start" /\ found = FALSE

-----------------------------------------------------------------------------
StartFails ==
  /\ phase = "start" /\ launch = "failed"
  /\ UserShutdown
  /\ phase' = "stopping"
  /\ UNCHANGED <<entry, found>>

HandshakeBegin ==
  /\ phase = "start"
  /\ CallRegister(InitCall)
  /\ phase' = "handshake"
  /\ UNCHANGED <<entry, found>>

\* Mutation: the early return of a failed handshake without shutdown.
HandshakeFailsDirty ==
  /\ phase = "handshake" /\ call[InitCall] \in {"ok", "error"}
  /\ phase' = "error"
  /\ UNCHANGED <<vars, entry, found>>

\* No response came, or one that reports an error.
HandshakeFails ==
  /\ phase = "handshake" /\ call[InitCall] \in {"ok", "error"}
  /\ UserShutdown
  /\ phase' = "stopping"
  /\ UNCHANGED <<entry, found>>

HandshakeDone ==
  /\ phase = "handshake" /\ call[InitCall] = "ok"
  /\ phase' = IF entry = "Query" THEN "prompt" ELSE "listing"
  /\ UNCHANGED <<vars, entry, found>>

\* Query: write the prompt, return the channel.
PromptWritten ==
  /\ phase = "prompt"
  /\ PromptWrite(Prompt)
  /\ phase' = "streaming"
  /\ UNCHANGED <<entry, found>>

PromptFails ==
  /\ phase = "prompt" /\ WriteRefused
  /\ UserShutdown
  /\ phase' = "stopping"
  /\ UNCHANGED <<entry, found>>

\* The caller of Query, who may stop reading at any time.
CallerReads ==
  /\ phase = "streaming"
  /\ Consume
  /\ UNCHANGED qvars

\* ListModels: the select.
ListTakes ==
  /\ phase = "listing" /\ ~found
  /\ Consume
  /\ found' = IsCatalogue(emitted[out[nout + 1]])
  /\ UNCHANGED <<entry, phase>>

\* Mutation: no timer in the select.
ListGivesUpNever ==
  /\ phase = "listing"
  /\ found \/ ctxDone \/ (OutClosed /\ nout = Len(out))
  /\ UserShutdown
  /\ phase' = "stopping"
  /\ UNCHANGED <<entry, found>>

\* The function returns, and its deferred shutdown runs: the catalogue is
\* there, the channel is closed, the context done, or the timer fires, which
\* may be at any time.
ListGivesUp ==
  /\ phase = "listing"
  /\ UserShutdown
  /\ phase' = "stopping"
  /\ UNCHANGED <<entry, found>>

\* Every other return waits for shutdown.
Returns ==
  /\ phase = "stopping" /\ closer["user"] = "done"
  /\ phase' = IF found THEN "models" ELSE "error"
  /\ UNCHANGED <<vars, entry, found>>

EntryStep ==
  \/ StartFails \/ HandshakeBegin \/ HandshakeFails \/ HandshakeDone
  \/ PromptWritten \/ PromptFails \/ ListTakes \/ ListGivesUp \/ Returns

QueryNext ==
  \/ RunnerCore /\ UNCHANGED qvars
  \/ EntryStep
  \/ CallerReads

QuerySpec == QueryInit /\ [][QueryNext]_queryVars

\* The goroutine that called Query or ListModels runs.  Nothing is assumed of
\* the caller's reading, nor of the CLI.
QueryFairness == RunnerFairness /\ WF_queryVars(EntryStep)

QueryFairSpec == QuerySpec /\ QueryFairness

-----------------------------------------------------------------------------
QueryTypeOK ==
  /\ entry \in Entries
  /\ phase \in {"start", "handshake", "prompt", "streaming", "listing", "stopping",
                "error", "models"}
  /\ found \in BOOLEAN

\* The agent messages among the first n lines of the CLI.
ForwardedUpTo(n) == {k \in 1 .. n : Forwarded(emitted[k])}

IsInitReply(l) == l.kind = "response" /\ l.id = InitCall

\* Nobody reads r.out during the handshake, so the response is routed only if
\* the agent messages before it fit r.out: with one more, forward() blocks in
\* front of it.
HandshakeFitsBuffer ==
  phase = "handshake" /\ box[InitCall] # 0 =>
    Cardinality(ForwardedUpTo(box[InitCall])) <= OutCap

\* A query or a listing that returns an error, or the models, leaves neither an
\* unreaped child nor the auth payload, at whichever step it failed.
ReturnedMeansReaped ==
  phase \in {"error", "models"} => child \in {"none", "reaped"} /\ payload = "none"

\* The handshake ends when the response comes behind no more agent messages than
\* r.out holds, and when the CLI dies after no more than that; a context that is
\* done ends it in any case.
HandshakeReleased ==
  /\ phase = "handshake"
  /\ \/ ctxDone
     \/ child # "running" /\ Cardinality(ForwardedUpTo(Len(emitted))) <= OutCap
     \/ \E k \in 1 .. Len(emitted) :
          IsInitReply(emitted[k]) /\ Cardinality(ForwardedUpTo(k)) <= OutCap
  ~> phase # "handshake"

\* ListModels returns within its time although the catalogue never comes and
\* the CLI ignores every request to stop.
ListingReturns == phase \in {"listing", "stopping"} ~> phase \in {"error", "models"}
==============================================================================
