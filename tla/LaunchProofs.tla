----------------------------- MODULE LaunchProofs -----------------------------
(***************************************************************************)
(* Theorems about Launch and PluginCalls for all values of the constants:  *)
(* any number of sessions and scenarios, any credentials, any hooks.  Each *)
(* CLI is given its own credential and usable hook ids, and a plugin call  *)
(* keeps the environment and the verdict of its CLI.                       *)
(***************************************************************************)
EXTENDS PluginCalls, FiniteSetTheorems, TLAPS

\* The end of the process, as a race on the shared map brings it about.
Abort ==
  /\ at' = [s \in Sessions |-> "aborted"]
  /\ UNCHANGED <<optVars, buildVars, sent, errVars>>

SessionsNext == LaunchNext \/ Abort

\* A plugin call does nothing to the sessions but end the process under them.
LEMMA HostSimulates == [HostNext]_hostVars => [SessionsNext]_launchVars
BY DEF HostNext, hostVars, LaunchBeside, ReadFault, Abort, SessionsNext

LEMMA HostStarts == HostInit => LaunchInit
BY DEF HostInit

-----------------------------------------------------------------------------
(* The credential. *)

\* A secret that the SDK resolved is not empty.
Secretful(f) ==
  f.type \in {"accessToken", "serviceAccount"} /\ f.secret = "" => f.provider = "host"

LEMMA RecordIsSomething ==
  ASSUME NEW t, NEW s, NEW p
  PROVE  [type |-> t, secret |-> s, provider |-> p] # None
<1>1. "type" \in DOMAIN [type |-> t, secret |-> s, provider |-> p]
  OBVIOUS
<1>2. "type" \notin DOMAIN None
  BY DEF None
<1> QED
  BY <1>1, <1>2

LEMMA NeedIsSecretful ==
  ASSUME NEW o, NEW s, Need(o, s).type # "error"
  PROVE  Need(o, s) # None /\ Secretful(Need(o, s))
<1>1. s # ""
  BY DEF Need, Unavailable
<1> QED
  BY <1>1, RecordIsSomething DEF Need, WithSecret, Secretful

\* Whatever the auth method and the environment: a payload that is no error is
\* there, and holds a secret unless the host provides it.
LEMMA PayloadIsSecretful ==
  ASSUME NEW o, NEW e, Payload(o, e).type # "error"
  PROVE  Payload(o, e) # None /\ Secretful(Payload(o, e))
<1>1. CASE o.kind = "accessToken"
  <2>1. Payload(o, e) = Need(o, SecretOf(o, AccessTokenEnvVar, e))
    BY <1>1 DEF Payload
  <2> QED
    BY <2>1, NeedIsSecretful
<1>2. CASE o.kind = "serviceAccount" /\ o.fetcher
  BY <1>2, RecordIsSomething DEF Payload, HostProvides, Secretful
<1>3. CASE o.kind = "serviceAccount" /\ ~o.fetcher
  <2>1. Payload(o, e) = Need(o, SecretOf(o, ServiceAccountEnvVar, e))
    BY <1>3 DEF Payload
  <2> QED
    BY <2>1, NeedIsSecretful
<1>4. CASE o.kind = "qodercli"
  BY <1>4, RecordIsSomething DEF Payload, WithSecret, Secretful
<1>5. CASE o.kind = "jobToken"
  BY <1>5, RecordIsSomething DEF Payload, HostProvides, Unavailable, Secretful
<1>6. CASE o.kind \notin {"accessToken", "serviceAccount", "qodercli", "jobToken"}
  BY <1>6 DEF Payload, Unavailable
<1> QED
  BY <1>1, <1>2, <1>3, <1>4, <1>5, <1>6

Alive == {"fill", "init", "up"}
Building == {"file", "env", "spawn"}
Places == Building \cup Alive \cup {"idle", "failed", "down", "aborted"}

\* The payload file named for s is its own, or s and the file's owner overlapped.
Names(m, s) ==
  /\ PayloadVar \in DOMAIN m
  /\ m[PayloadVar] = s \/ (s \in raced /\ m[PayloadVar] \in raced)

\* A session that is in the shared map alone finds its own file there when it
\* reads the map back, and those that overlap find a file of one of them: so the
\* CLI that deletes what it was pointed at deletes no file of a session that did
\* not overlap.  What a file holds is the payload of the scenario.
CredentialInv ==
  /\ at \in [Sessions -> Places]
  /\ DOMAIN file = Sessions /\ DOMAIN childEnv = Sessions /\ raced \subseteq Sessions
  /\ \A s \in Sessions :
       /\ at[s] = "env" /\ scenario.shared => Names(env, s)
       /\ at[s] \in Alive \cup {"spawn"} => childEnv[s] # None
       /\ childEnv[s] # None => Names(childEnv[s], s)
       /\ at[s] \in Building /\ s \notin raced => file[s] # None
       /\ file[s] # None => file[s] = ThePayload /\ ThePayload.type # "error"

LEMMA NamesSomething ==
  ASSUME NEW m, PayloadVar \in DOMAIN m
  PROVE  m # None
BY DEF None

LEMMA MarkedNames ==
  ASSUME NEW base, NEW s
  PROVE  PayloadVar \in DOMAIN Marked(base, s) /\ Marked(base, s)[PayloadVar] = s
BY DEF Marked, PayloadVar

LEMMA CredentialInit == LaunchInit => CredentialInv
BY DEF LaunchInit, CredentialInv, Places, Building, Alive

\* One step of one session or its CLI.
LEMMA CredentialStart ==
  ASSUME CredentialInv, NEW s \in Sessions, Start(s) \/ GoesDown(s) \/ CliDeletesFile(s)
  PROVE  CredentialInv'
<1> USE DEF CredentialInv, Places, Building, Alive
<1>1. CASE Refused(s)
  BY <1>1 DEF Refused, Move, optVars, buildVars, ThePayload, Names
<1>2. CASE WriteFile(s)
  <2>1. /\ at' = [at EXCEPT ![s] = "file"] /\ file' = [file EXCEPT ![s] = ThePayload]
        /\ ThePayload.type # "error" /\ UNCHANGED <<scenario, env, childEnv, raced>>
    BY <1>2 DEF WriteFile, Move, optVars
  <2>2. ThePayload # None
    BY <2>1, PayloadIsSecretful DEF ThePayload
  <2> QED
    BY <2>1, <2>2 DEF ThePayload, Names
<1>3. CASE EnvWrite(s)
  <2>1. at[s] = "file" /\ at' = [at EXCEPT ![s] = "env"] /\ UNCHANGED <<scenario, file, childEnv>>
    BY <1>3 DEF EnvWrite, Move
  <2>2. raced \subseteq raced' /\ raced' \subseteq Sessions
    BY <1>3 DEF EnvWrite
  <2>3. ASSUME NEW t \in Sessions, at'[t] = "env", scenario.shared
        PROVE  Names(env, t)'
    <3>1. PayloadVar \in DOMAIN env' /\ env'[PayloadVar] = s
      BY <2>3, <1>3, MarkedNames DEF EnvWrite
    <3>2. t = s \/ (t \in raced' /\ s \in raced')
      BY <2>1, <2>3, <1>3 DEF EnvWrite
    <3> QED
      BY <3>1, <3>2 DEF Names
  <2>4. \A t \in Sessions : childEnv[t] # None => Names(childEnv[t], t)'
    BY <2>1, <2>2 DEF Names
  <2> QED
    BY <2>1, <2>2, <2>3, <2>4 DEF ThePayload
<1>4. CASE EnvRead(s)
  <2>1. /\ at' = [at EXCEPT ![s] = "spawn"] /\ at[s] = "env"
        /\ UNCHANGED <<scenario, env, file, raced>>
        /\ childEnv' = [childEnv EXCEPT ![s] =
             IF scenario.shared THEN env ELSE Marked(scenario.os, s)]
    BY <1>4 DEF EnvRead, Move, optVars
  <2>2. Names(childEnv'[s], s) /\ childEnv'[s] # None
    BY <2>1, MarkedNames, NamesSomething DEF Names
  <2> QED
    BY <2>1, <2>2 DEF ThePayload, Names
<1>5. CASE SpawnFails(s)
  BY <1>5 DEF SpawnFails, Move, Cleanup, optVars, ThePayload, Names
<1>6. CASE Spawn(s)
  BY <1>6 DEF Spawn, Move, optVars, buildVars, ThePayload, Names
<1>7. CASE FillHooks(s)
  BY <1>7 DEF FillHooks, Move, buildVars, ThePayload, Names
<1>8. CASE SendInit(s)
  BY <1>8 DEF SendInit, Move, optVars, buildVars, ThePayload, Names
<1>9. CASE GoesDown(s)
  BY <1>9 DEF GoesDown, Cleanup, optVars, ThePayload, Names
<1>10. CASE CliDeletesFile(s)
  <2> DEFINE t == childEnv[s][PayloadVar]
  <2>1. /\ at[s] \in Alive /\ file' = [file EXCEPT ![t] = None]
        /\ UNCHANGED <<scenario, env, at, childEnv, raced>>
    BY <1>10 DEF CliDeletesFile, optVars
  <2>2. t = s \/ t \in raced
    BY <2>1 DEF Names
  <2> HIDE DEF t
  <2>3. \A x \in Sessions : file'[x] = IF x = t THEN None ELSE file[x]
    BY <2>1
  <2> QED
    BY <2>1, <2>2, <2>3 DEF ThePayload, Names
<1> QED
  BY <1>1, <1>2, <1>3, <1>4, <1>5, <1>6, <1>7, <1>8, <1>9, <1>10 DEF Start

LEMMA CredentialStep ==
  ASSUME CredentialInv, [SessionsNext]_launchVars
  PROVE  CredentialInv'
<1>1. CASE \E s \in Sessions : Start(s) \/ GoesDown(s) \/ CliDeletesFile(s)
  BY <1>1, CredentialStart
<1>2. CASE MapFault \/ Abort
  BY <1>2 DEF MapFault, Abort, CredentialInv, Places, Building, Alive, optVars, buildVars,
              ThePayload, Names
<1>3. CASE \/ \E s \in Sessions : ErrWrite(s) \/ Pump(s)
           \/ \E e \in DOMAIN hooks : HostAddsHook(e)
           \/ UNCHANGED launchVars
  <2>1. UNCHANGED <<scenario, env, at, file, childEnv, raced>>
    BY <1>3 DEF ErrWrite, Pump, PumpRead, PumpEnds, HostAddsHook, launchVars, optVars,
                buildVars
  <2> QED
    BY <2>1 DEF CredentialInv, ThePayload, Names
<1> QED
  BY <1>1, <1>2, <1>3 DEF SessionsNext, LaunchNext

LEMMA CredentialsOwned == CredentialInv => OwnCredential
<1> SUFFICES ASSUME CredentialInv, NEW s \in Sessions
             PROVE  /\ childEnv[s] # None =>
                         LET t == childEnv[s][PayloadVar] IN t = s \/ {s, t} \subseteq raced
                    /\ s \notin raced /\ at[s] \in {"env", "spawn"} => file[s] # None
                    /\ file[s] # None => Secretful(file[s])
  BY DEF OwnCredential, Secretful
<1>1. /\ childEnv[s] # None =>
           LET t == childEnv[s][PayloadVar] IN t = s \/ {s, t} \subseteq raced
      /\ s \notin raced /\ at[s] \in {"env", "spawn"} => file[s] # None
  BY DEF CredentialInv, Names, Building
<1>2. file[s] # None => Secretful(file[s])
  BY PayloadIsSecretful DEF CredentialInv, ThePayload
<1> QED
  BY <1>1, <1>2

\* Each CLI is pointed at its own credential or, after an overlap, at that of
\* another session that overlapped; without one the file is there when the CLI is
\* started: for any number of sessions that share their Options.  buildEnv writes
\* the name of the file before it reads the map back, nobody else writes in
\* between but those in raced, and the CLIs, which delete what they are pointed
\* at, delete no other's.
THEOREM EachItsOwnCredential == HostSpec => []OwnCredential
<1> QED
  BY HostStarts, HostSimulates, CredentialInit, CredentialStep, CredentialsOwned, PTL DEF HostSpec

-----------------------------------------------------------------------------
(* The hook callback ids. *)

Ids == HostIds \cup {None} \cup {Generated(n) : n \in Nat}
HookLists == [1 .. Len(Events) -> Seq(Ids)]
IdAt(h, p) == h[p[1]][p[2]]

LEMMA GeneratedIsSomething ==
  ASSUME NEW n \in Nat, NEW m \in Nat
  PROVE  /\ Generated(n) # None
         /\ Generated(m) = Generated(n) => m = n
<1>1. Generated(n)[2] = n /\ Generated(m)[2] = m /\ Len(Generated(n)) = 2 /\ Len(None) = 0
  BY DEF Generated, None
<1>2. Generated(n) # None
  BY <1>1
<1> QED
  BY <1>1, <1>2

\* The specs are the places in the lists, and there are finitely many.
LEMMA SpecsAre ==
  ASSUME NEW h \in HookLists
  PROVE  /\ \A p \in Specs(h) :
              /\ p = <<p[1], p[2]>> /\ p[1] \in 1 .. Len(Events) /\ p[2] \in 1 .. Len(h[p[1]])
              /\ Len(h[p[1]]) \in Nat /\ IdAt(h, p) \in Ids
         /\ \A e \in 1 .. Len(Events) : \A i \in 1 .. Len(h[e]) : <<e, i>> \in Specs(h)
<1>1. \A e \in 1 .. Len(Events) :
        h[e] \in Seq(Ids) /\ DOMAIN h[e] = 1 .. Len(h[e]) /\ Len(h[e]) \in Nat
  BY DEF HookLists
<1>2. DOMAIN h = 1 .. Len(Events)
  BY DEF HookLists
<1>3. ASSUME NEW p \in Specs(h)
      PROVE  \E e \in 1 .. Len(Events) : p \in {e} \X DOMAIN h[e]
  BY <1>3, <1>2 DEF Specs
<1>4. ASSUME NEW p \in Specs(h)
      PROVE  /\ p = <<p[1], p[2]>> /\ p[1] \in 1 .. Len(Events) /\ p[2] \in 1 .. Len(h[p[1]])
             /\ Len(h[p[1]]) \in Nat /\ IdAt(h, p) \in Ids
  <2>1. PICK e \in 1 .. Len(Events) : p \in {e} \X DOMAIN h[e]
    BY <1>3
  <2>2. p = <<p[1], p[2]>> /\ p[1] = e /\ p[2] \in 1 .. Len(h[e])
    BY <2>1, <1>1
  <2> QED
    BY <2>2, <1>1 DEF IdAt
<1>5. ASSUME NEW e \in 1 .. Len(Events), NEW i \in 1 .. Len(h[e])
      PROVE  <<e, i>> \in Specs(h)
  <2>1. <<e, i>> \in {e} \X DOMAIN h[e]
    BY <1>1
  <2> QED
    BY <2>1, <1>2 DEF Specs
<1> QED
  BY <1>4, <1>5

LEMMA SpecsFinite ==
  ASSUME NEW h \in HookLists
  PROVE  IsFiniteSet(Specs(h)) /\ IsFiniteSet(Unset(h)) /\ Cardinality(Unset(h)) \in Nat
<1> DEFINE Row(e) == {e} \X DOMAIN h[e]
           rows == [e \in 1 .. Len(Events) |-> Row(e)]
           all == {Row(e) : e \in 1 .. Len(Events)}
<1>1. Len(Events) \in Nat /\ IsFiniteSet(1 .. Len(Events))
  BY FS_Interval, LaunchAssumption
<1>2. rows \in Surjection(1 .. Len(Events), all)
  BY DEF Surjection
<1>3. IsFiniteSet(all)
  BY <1>1, <1>2, FS_Surjection
<1>4. ASSUME NEW e \in 1 .. Len(Events)
      PROVE  IsFiniteSet(Row(e))
  <2>1. h[e] \in Seq(Ids)
    BY DEF HookLists
  <2>2. DOMAIN h[e] = 1 .. Len(h[e]) /\ Len(h[e]) \in Nat
    BY <2>1
  <2>3. IsFiniteSet(1 .. Len(h[e]))
    BY <2>2, FS_Interval
  <2>4. IsFiniteSet({e})
    BY FS_Singleton
  <2> QED
    BY <2>2, <2>3, <2>4, FS_Product
<1>5. Specs(h) = UNION all
  BY DEF Specs, HookLists
<1>6. IsFiniteSet(Specs(h))
  <2>1. \A T \in all : IsFiniteSet(T)
    BY <1>4
  <2>2. IsFiniteSet(UNION all)
    BY <1>3, <2>1, FS_UNION
  <2> QED
    BY <1>5, <2>2
<1> QED
  BY <1>6, FS_Subset, FS_CardinalityType DEF Unset

\* How many specs without an id come before a place: this orders the specs.
Rank(h, p) == Cardinality({q \in Unset(h) : Before(q, p)})

LEMMA RankIsNat ==
  ASSUME NEW h \in HookLists, NEW p
  PROVE  /\ Rank(h, p) \in Nat
         /\ IsFiniteSet({q \in Unset(h) : Before(q, p)})
BY SpecsFinite, FS_Subset, FS_CardinalityType DEF Rank

LEMMA RankGrows ==
  ASSUME NEW h \in HookLists, NEW p \in Unset(h), NEW q \in Specs(h), Before(p, q)
  PROVE  Rank(h, p) < Rank(h, q)
<1> DEFINE S == {r \in Unset(h) : Before(r, p)}
           T == {r \in Unset(h) : Before(r, q)}
<1>1. \A r \in Unset(h) \cup {p, q} : r[1] \in Nat /\ r[2] \in Nat
  BY SpecsAre DEF Unset
<1>2. S \subseteq T /\ p \in T /\ p \notin S
  BY <1>1 DEF Before
<1>3. IsFiniteSet(T) /\ Cardinality(S) \in Nat /\ Cardinality(T) \in Nat
  BY RankIsNat DEF Rank
<1>4. Cardinality(S) <= Cardinality(T) /\ Cardinality(S) # Cardinality(T)
  <2>1. S \in SUBSET T /\ S # T
    BY <1>2
  <2> HIDE DEF S, T
  <2> QED
    BY <1>3, <2>1, FS_Subset
<1> QED
  BY <1>3, <1>4 DEF Rank

LEMMA RankIsBelow ==
  ASSUME NEW h \in HookLists, NEW p \in Unset(h)
  PROVE  Rank(h, p) \in 0 .. Cardinality(Unset(h)) - 1
<1> DEFINE S == {r \in Unset(h) : Before(r, p)}
<1>1. p[1] \in Nat /\ p[2] \in Nat
  BY SpecsAre DEF Unset
<1>2. S \in SUBSET Unset(h) /\ p \notin S /\ S # Unset(h)
  BY <1>1 DEF Before
<1>3. IsFiniteSet(Unset(h)) /\ Cardinality(Unset(h)) \in Nat /\ Cardinality(S) \in Nat
  BY SpecsFinite, RankIsNat DEF Rank
<1>4. Cardinality(S) <= Cardinality(Unset(h)) /\ Cardinality(S) # Cardinality(Unset(h))
  <2> HIDE DEF S
  <2> QED
    BY <1>2, <1>3, FS_Subset
<1> QED
  BY <1>3, <1>4 DEF Rank

\* Filling in keeps the places and the ids that are there, and leaves no spec
\* without an id.
LEMMA FillKeepsAndSets ==
  ASSUME NEW h \in HookLists
  PROVE  /\ Fill(h) \in HookLists
         /\ \A e \in 1 .. Len(Events) : Len(Fill(h)[e]) = Len(h[e])
         /\ Specs(Fill(h)) = Specs(h) /\ Unset(Fill(h)) = {}
         /\ \A p \in Specs(h) :
              IdAt(Fill(h), p) = IF p \in Unset(h) THEN Generated(Rank(h, p)) ELSE IdAt(h, p)
<1> DEFINE Id(e, i) ==
      IF h[e][i] # None THEN h[e][i]
      ELSE Generated(Cardinality({p \in Unset(h) : Before(p, <<e, i>>)}))
<1>1. \A e \in 1 .. Len(Events) :
        h[e] \in Seq(Ids) /\ DOMAIN h[e] = 1 .. Len(h[e]) /\ Len(h[e]) \in Nat
  BY DEF HookLists
<1>2. Fill(h) = [e \in 1 .. Len(Events) |-> [i \in 1 .. Len(h[e]) |-> Id(e, i)]]
  BY DEF Fill, HookLists
<1>3. ASSUME NEW e \in 1 .. Len(Events), NEW i \in 1 .. Len(h[e])
      PROVE  Id(e, i) \in Ids /\ Id(e, i) # None
  <2>1. Rank(h, <<e, i>>) \in Nat
    BY RankIsNat
  <2>2. h[e][i] \in Ids
    BY <1>1
  <2> QED
    BY <2>1, <2>2, GeneratedIsSomething DEF Rank, Ids
<1>4. ASSUME NEW e \in 1 .. Len(Events)
      PROVE  Fill(h)[e] \in Seq(Ids) /\ Len(Fill(h)[e]) = Len(h[e])
  <2>1. Fill(h)[e] = [i \in 1 .. Len(h[e]) |-> Id(e, i)]
    BY <1>2
  <2>2. \A i \in 1 .. Len(h[e]) : Id(e, i) \in Ids
    BY <1>3
  <2> HIDE DEF Id
  <2> QED
    BY <1>1, <2>1, <2>2
<1>5. Fill(h) \in HookLists
  BY <1>2, <1>4 DEF HookLists
<1>6. Specs(Fill(h)) = Specs(h)
  <2>1. DOMAIN Fill(h) = DOMAIN h /\ DOMAIN h = 1 .. Len(Events)
    BY <1>2 DEF HookLists
  <2>2. \A e \in DOMAIN h : DOMAIN Fill(h)[e] = DOMAIN h[e]
    BY <1>1, <1>2, <2>1
  <2> QED
    BY <2>1, <2>2 DEF Specs
<1>7. ASSUME NEW p \in Specs(h)
      PROVE  IdAt(Fill(h), p) = Id(p[1], p[2]) /\ p = <<p[1], p[2]>> /\ IdAt(Fill(h), p) # None
  <2>1. p = <<p[1], p[2]>> /\ p[1] \in 1 .. Len(Events) /\ p[2] \in 1 .. Len(h[p[1]])
    BY SpecsAre
  <2>2. Id(p[1], p[2]) # None
    BY <1>3, <2>1
  <2> HIDE DEF Id
  <2> QED
    BY <1>2, <2>1, <2>2 DEF IdAt
<1>8. Unset(Fill(h)) = {}
  BY <1>6, <1>7 DEF Unset, IdAt
<1>9. ASSUME NEW p \in Specs(h)
      PROVE  IdAt(Fill(h), p) = IF p \in Unset(h) THEN Generated(Rank(h, p)) ELSE IdAt(h, p)
  BY <1>7 DEF Unset, IdAt, Rank
<1> QED
  BY <1>4, <1>5, <1>6, <1>8, <1>9

\* Where every spec has an id, filling in changes nothing.
LEMMA FillAgain ==
  ASSUME NEW h \in HookLists, Unset(h) = {}
  PROVE  Fill(h) = h
<1>1. \A e \in 1 .. Len(Events) :
        h[e] \in Seq(Ids) /\ DOMAIN h[e] = 1 .. Len(h[e]) /\ Len(h[e]) \in Nat
  BY DEF HookLists
<1>2. \A e \in 1 .. Len(Events) : \A i \in 1 .. Len(h[e]) : h[e][i] # None
  BY SpecsAre DEF Unset
<1>3. ASSUME NEW e \in 1 .. Len(Events)
      PROVE  Fill(h)[e] = h[e]
  <2>1. Fill(h)[e] = [i \in 1 .. Len(h[e]) |-> h[e][i]]
    BY <1>2 DEF Fill, HookLists
  <2> QED
    BY <1>1, <2>1
<1>4. DOMAIN Fill(h) = 1 .. Len(Events) /\ Fill(h) = [e \in 1 .. Len(Events) |-> Fill(h)[e]]
  BY DEF Fill, HookLists
<1> QED
  BY <1>3, <1>4 DEF HookLists

\* Two generated ids have different ranks, and the host's are out of their way.
LEMMA FillDistinguishes ==
  ASSUME NEW h \in HookLists, OwnIdsClear(h)
  PROVE  Distinct(Fill(h))
<1> SUFFICES ASSUME NEW p \in Specs(h), NEW q \in Specs(h), p # q
             PROVE  IdAt(Fill(h), p) # IdAt(Fill(h), q)
  BY FillKeepsAndSets DEF Distinct, IdAt
<1>1. ASSUME NEW x \in Specs(h)
      PROVE  IdAt(Fill(h), x) = IF x \in Unset(h) THEN Generated(Rank(h, x)) ELSE IdAt(h, x)
  BY FillKeepsAndSets
<1>2. CASE p \notin Unset(h) /\ q \notin Unset(h)
  BY <1>1, <1>2 DEF OwnIdsClear, IdAt
<1>3. ASSUME NEW x \in Unset(h), NEW y \in Specs(h) \ Unset(h)
      PROVE  IdAt(Fill(h), x) # IdAt(Fill(h), y)
  BY <1>1, RankIsBelow DEF OwnIdsClear, IdAt, Unset
<1>4. CASE p \in Unset(h) /\ q \in Unset(h)
  <2>1. Before(p, q) \/ Before(q, p)
    <3>1. /\ p = <<p[1], p[2]>> /\ p[1] \in Nat /\ p[2] \in Nat
          /\ q = <<q[1], q[2]>> /\ q[1] \in Nat /\ q[2] \in Nat
      BY SpecsAre
    <3> QED
      BY <3>1 DEF Before
  <2>2. Rank(h, p) \in Nat /\ Rank(h, q) \in Nat
    BY RankIsNat
  <2>3. Rank(h, p) # Rank(h, q)
    BY <1>4, <2>1, <2>2, RankGrows
  <2> QED
    BY <1>1, <1>4, <2>2, <2>3, GeneratedIsSomething
<1> QED
  BY <1>2, <1>3, <1>4

\* What is in g is in h, at the same place.
Kept(g, h) == Specs(g) \subseteq Specs(h) /\ \A p \in Specs(g) : IdAt(h, p) = IdAt(g, p)

\* A hook that was sent stays where it is with the id it has, whatever later
\* sessions and the host do to the Options; and until the host adds one, all
\* that can be sent is the host's list filled in.
HookInv ==
  /\ scenario \in Scenarios /\ DOMAIN sent = Sessions
  /\ hooks \in HookLists
  /\ ~late => hooks \in {scenario.hooks, Fill(scenario.hooks)}
  /\ \A s \in Sessions :
       /\ at[s] = "init" => Unset(hooks) = {}
       /\ sent[s] # None =>
            /\ sent[s] \in HookLists /\ Unset(sent[s]) = {} /\ Kept(sent[s], hooks)
            /\ ~late => sent[s] = Fill(scenario.hooks)

LEMMA HostListsAre == \A c \in Scenarios : c.hooks \in HookLists
<1> SUFFICES ASSUME NEW c \in Scenarios PROVE c.hooks \in HookLists
  OBVIOUS
<1>1. c.hooks \in [1 .. Len(Events) -> Seq(HostIds \cup {None})]
  BY LaunchAssumption
<1>2. Seq(HostIds \cup {None}) \subseteq Seq(Ids)
  <2> SUFFICES ASSUME NEW l \in Seq(HostIds \cup {None}) PROVE l \in Seq(Ids)
    OBVIOUS
  <2>1. \A i \in 1 .. Len(l) : l[i] \in Ids
    BY DEF Ids
  <2> QED
    BY <2>1
<1> QED
  BY <1>1, <1>2 DEF HookLists

\* A spec that the host adds is a new place.
LEMMA AddKeeps ==
  ASSUME NEW h \in HookLists, NEW e \in 1 .. Len(Events)
  PROVE  LET g == [h EXCEPT ![e] = Append(@, None)] IN g \in HookLists /\ Kept(h, g)
<1> DEFINE g == [h EXCEPT ![e] = Append(@, None)]
<1>1. \A x \in 1 .. Len(Events) :
        h[x] \in Seq(Ids) /\ DOMAIN h[x] = 1 .. Len(h[x]) /\ Len(h[x]) \in Nat
  BY DEF HookLists
<1>2. DOMAIN g = 1 .. Len(Events) /\ DOMAIN h = 1 .. Len(Events)
  BY DEF HookLists
<1>3. ASSUME NEW x \in 1 .. Len(Events)
      PROVE  /\ g[x] \in Seq(Ids) /\ Len(h[x]) <= Len(g[x]) /\ Len(g[x]) \in Nat
             /\ \A i \in 1 .. Len(h[x]) : g[x][i] = h[x][i]
  <2>1. g[x] = IF x = e THEN Append(h[x], None) ELSE h[x]
    BY <1>2
  <2> HIDE DEF g
  <2> QED
    BY <1>1, <2>1 DEF Ids
<1>4. g \in HookLists
  BY <1>2, <1>3 DEF HookLists
<1>5. ASSUME NEW p \in Specs(h)
      PROVE  p \in Specs(g) /\ IdAt(g, p) = IdAt(h, p)
  <2>1. p = <<p[1], p[2]>> /\ p[1] \in 1 .. Len(Events) /\ p[2] \in 1 .. Len(h[p[1]])
    BY SpecsAre
  <2>2. p[2] \in 1 .. Len(g[p[1]]) /\ g[p[1]][p[2]] = h[p[1]][p[2]]
    BY <1>1, <1>3, <2>1
  <2> HIDE DEF g
  <2>3. <<p[1], p[2]>> \in Specs(g)
    BY <1>4, <2>1, <2>2, SpecsAre
  <2> QED
    BY <2>1, <2>2, <2>3 DEF IdAt
<1> QED
  BY <1>4, <1>5 DEF Kept

LEMMA HookInit == LaunchInit => HookInv
BY HostListsAre DEF LaunchInit, HookInv

LEMMA HookFill ==
  ASSUME HookInv, at \in [Sessions -> Places], NEW s \in Sessions, FillHooks(s)
  PROVE  HookInv'
<1>1. /\ at' = [at EXCEPT ![s] = "init"] /\ hooks' = Fill(hooks)
      /\ UNCHANGED <<scenario, late, sent>>
  BY DEF FillHooks, Move
<1>2. hooks \in HookLists /\ scenario.hooks \in HookLists
  BY HostListsAre DEF HookInv
<1>3. hooks' \in HookLists /\ Unset(hooks') = {}
  BY <1>1, <1>2, FillKeepsAndSets
<1>4. ~late' => hooks' \in {scenario.hooks, Fill(scenario.hooks)}
  <2>1. Fill(Fill(scenario.hooks)) = Fill(scenario.hooks)
    BY <1>2, FillKeepsAndSets, FillAgain
  <2> QED
    BY <1>1, <2>1 DEF HookInv
<1>5. ASSUME NEW t \in Sessions, sent[t] # None
      PROVE  Kept(sent[t], hooks')
  <2>1. Kept(sent[t], hooks) /\ Unset(sent[t]) = {}
    BY <1>5 DEF HookInv
  <2>2. \A p \in Specs(sent[t]) : p \in Specs(hooks) /\ p \notin Unset(hooks)
    BY <2>1 DEF Kept, Unset, IdAt
  <2> QED
    BY <1>1, <1>2, <2>1, <2>2, FillKeepsAndSets DEF Kept
<1> QED
  BY <1>1, <1>3, <1>4, <1>5 DEF HookInv

LEMMA HookSend ==
  ASSUME HookInv, at \in [Sessions -> Places], NEW s \in Sessions, SendInit(s)
  PROVE  HookInv'
<1>1. /\ at[s] = "init" /\ at' = [at EXCEPT ![s] = "up"]
      /\ sent' = [sent EXCEPT ![s] = hooks]
      /\ UNCHANGED <<scenario, late, hooks>>
  BY DEF SendInit, Move, optVars
<1>2. hooks \in HookLists /\ Unset(hooks) = {} /\ Kept(hooks, hooks)
  BY <1>1 DEF HookInv, Kept
<1>3. ~late => hooks = Fill(scenario.hooks)
  BY <1>2, FillAgain DEF HookInv
<1> QED
  BY <1>1, <1>2, <1>3 DEF HookInv

LEMMA HookAdd ==
  ASSUME HookInv, NEW e \in DOMAIN hooks, HostAddsHook(e)
  PROVE  HookInv'
<1>1. /\ late' = TRUE /\ hooks' = [hooks EXCEPT ![e] = Append(@, None)]
      /\ \A s \in Sessions : at[s] # "init"
      /\ UNCHANGED <<scenario, at, sent>>
  BY DEF HostAddsHook
<1>2. hooks \in HookLists /\ e \in 1 .. Len(Events)
  BY DEF HookInv, HookLists
<1>3. hooks' \in HookLists /\ Kept(hooks, hooks')
  BY <1>1, <1>2, AddKeeps
<1>4. \A t \in Sessions : sent[t] # None => Kept(sent[t], hooks')
  BY <1>3 DEF HookInv, Kept
<1> QED
  BY <1>1, <1>3, <1>4 DEF HookInv

LEMMA HookStep ==
  ASSUME HookInv, CredentialInv, [SessionsNext]_launchVars
  PROVE  HookInv'
<1>1. at \in [Sessions -> Places]
  BY DEF CredentialInv
<1>2. ASSUME NEW s \in Sessions,
             \/ Refused(s) \/ WriteFile(s) \/ EnvWrite(s) \/ EnvRead(s)
             \/ SpawnFails(s) \/ Spawn(s) \/ GoesDown(s) \/ CliDeletesFile(s)
             \/ ErrWrite(s) \/ Pump(s)
      PROVE  HookInv'
  <2>1. UNCHANGED <<scenario, late, hooks, sent>>
    BY <1>2 DEF Refused, WriteFile, EnvWrite, EnvRead, SpawnFails, Spawn, GoesDown,
                CliDeletesFile, ErrWrite, Pump, PumpRead, PumpEnds, optVars
  <2>2. \A t \in Sessions : at'[t] = "init" => at[t] = "init"
    BY <1>1, <1>2 DEF Refused, WriteFile, EnvWrite, EnvRead, SpawnFails, Spawn, GoesDown,
                      CliDeletesFile, ErrWrite, Pump, PumpRead, PumpEnds, Move
  <2> QED
    BY <2>1, <2>2 DEF HookInv
<1>3. CASE MapFault \/ Abort
  BY <1>3 DEF MapFault, Abort, optVars, HookInv
<1>4. CASE UNCHANGED launchVars
  BY <1>4 DEF launchVars, optVars, HookInv
<1> QED
  BY <1>1, <1>2, <1>3, <1>4, HookFill, HookSend, HookAdd DEF SessionsNext, LaunchNext, Start

LEMMA HooksUsable == HookInv => HookIdsUsable
<1> SUFFICES ASSUME HookInv, NEW s \in Sessions, sent[s] # None
             PROVE  /\ Unset(sent[s]) = {}
                    /\ late \/ ~OwnIdsClear(scenario.hooks) \/ Distinct(sent[s])
                    /\ \A t \in Sessions : sent[t] # None =>
                         \A p \in Specs(sent[s]) \cap Specs(sent[t]) :
                           IdAt(sent[s], p) = IdAt(sent[t], p)
  BY DEF HookIdsUsable, IdAt
<1>1. scenario.hooks \in HookLists
  BY HostListsAre DEF HookInv
<1> QED
  BY <1>1, FillDistinguishes DEF HookInv, Kept

\* The hook ids that a session sends are set, distinct if the host chose its own
\* clearly and was not late, and agree with those of every other session, for any
\* number of sessions over one Options: the write back of the filled list is
\* idempotent and keeps what was sent.
THEOREM HookIdsAreUsable == HostSpec => []HookIdsUsable
<1>1. LaunchInit => CredentialInv /\ HookInv
  BY CredentialInit, HookInit
<1>2. CredentialInv /\ HookInv /\ [SessionsNext]_launchVars => (CredentialInv /\ HookInv)'
  BY CredentialStep, HookStep
<1> QED
  BY <1>1, <1>2, HostStarts, HostSimulates, HooksUsable, PTL DEF HostSpec

-----------------------------------------------------------------------------
(* The plugin call. *)

\* Its environment was made from what the host has, and its outcome from what
\* the CLI printed, or from nothing if it never ran.
PluginInv ==
  /\ scenario \in Scenarios
  /\ ~scenario.shared => env = NilMap /\ seen \subseteq {NilMap}
  /\ pluginEnv # None =>
       /\ DOMAIN scenario.os \subseteq DOMAIN pluginEnv
       /\ PayloadVar \in DOMAIN pluginEnv => scenario.shared \/ PayloadVar \in DOMAIN scenario.os
  /\ valid \in BOOLEAN
  /\ run \in {"start", "reading"} => printed = "garbage"
  /\ run = "done" /\ kind = "validate" =>
       \/ outcome = "error" /\ printed = "garbage"
       \/ outcome = ValidateResult

LEMMA PluginInit == HostInit => PluginInv
BY LaunchAssumption DEF HostInit, LaunchInit, PluginInv

\* Where there is no map, an iteration yields nothing.
LEMMA IterationOfNothing ==
  ASSUME NEW maps \in SUBSET {NilMap}, NEW m \in Iterations(maps)
  PROVE  DOMAIN m = {}
<1> DEFINE names == UNION {DOMAIN x : x \in maps}
<1>1. names = {}
  BY DEF NilMap
<1>2. PICK from \in [names -> maps] : m = [v \in {n \in names : n \in DOMAIN from[n]} |-> from[v][v]]
  BY DEF Iterations
<1> QED
  BY <1>1, <1>2

LEMMA PluginCallStep ==
  ASSUME PluginInv, Plugin, UNCHANGED launchVars
  PROVE  PluginInv'
<1> USE DEF PluginInv
<1>1. UNCHANGED <<scenario, env>>
  BY DEF launchVars, optVars
<1>2. CASE PluginRefused
  BY <1>1, <1>2 DEF PluginRefused, answerVars
<1>3. CASE PluginStarts
  <2>1. PICK m \in Iterations(seen) : pluginEnv' = Overlay(scenario.os, m)
    BY <1>3 DEF PluginStarts, PluginEnv
  <2>2. UNCHANGED <<valid, seen>> /\ run' = "running"
    BY <1>3 DEF PluginStarts, answerVars
  <2>3. DOMAIN Overlay(scenario.os, m) = DOMAIN scenario.os \cup DOMAIN m
    BY DEF Overlay
  <2>4. ~scenario.shared => DOMAIN m = {}
    BY IterationOfNothing
  <2> QED
    BY <1>1, <2>1, <2>2, <2>3, <2>4
<1>4. CASE PluginCliEnds
  BY <1>1, <1>4 DEF PluginCliEnds
<1>5. CASE PluginReturns
  BY <1>1, <1>5 DEF PluginReturns, answerVars, ValidateResult, Verdict, ReportShapes
<1>6. CASE PluginReads
  BY <1>1, <1>6 DEF PluginReads, answerVars
<1> QED
  BY <1>2, <1>3, <1>4, <1>5, <1>6 DEF Plugin

LEMMA PluginStep ==
  ASSUME PluginInv, [HostNext]_hostVars
  PROVE  PluginInv'
<1>1. CASE LaunchBeside
  <2>1. scenario' = scenario /\ (~scenario.shared => env' = env)
    BY <1>1 DEF LaunchBeside, LaunchNext, Start, Pump, Refused, WriteFile, EnvWrite, EnvRead,
                SpawnFails, Spawn, FillHooks, SendInit, GoesDown, CliDeletesFile, ErrWrite,
                PumpRead, PumpEnds, MapFault, HostAddsHook, optVars
  <2>2. seen' \subseteq seen \cup {env'} /\ UNCHANGED <<kind, run, answerVars, outcome, pluginEnv>>
    BY <1>1 DEF LaunchBeside
  <2> QED
    BY <2>1, <2>2 DEF PluginInv, answerVars, ValidateResult, Verdict
<1>2. CASE ReadFault \/ UNCHANGED hostVars
  <2>1. UNCHANGED <<scenario, env, pluginVars>>
    BY <1>2 DEF ReadFault, hostVars, launchVars, optVars
  <2> QED
    BY <2>1 DEF PluginInv, pluginVars, answerVars, ValidateResult, Verdict
<1> QED
  BY <1>1, <1>2, PluginCallStep DEF HostNext

LEMMA PluginFits == PluginInv => PluginCallFits
BY DEF PluginInv, PluginCallFits, ValidateResult, Verdict, ReportShapes

\* A plugin call adds to the environment and keeps the verdict of its CLI,
\* whatever sessions write to the map it shares with them.
THEOREM PluginCallsFit == HostSpec => []PluginCallFits
<1> QED
  BY PluginInit, PluginStep, PluginFits, PTL DEF HostSpec
===============================================================================
