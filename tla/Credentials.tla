------------------------------ MODULE Credentials ------------------------------
(***************************************************************************)
(* What a launch reads of its environment: package auth, which turns an    *)
(* auth method into the payload for the CLI, and package runtime, which    *)
(* finds the CLI.  An environment is a function from the names of the      *)
(* variables that are set; the empty string stands for "not given".        *)
(***************************************************************************)
EXTENDS Naturals, Sequences

Brands == {"global", "cn", "auto"}

Getenv(env, v) == IF v \in DOMAIN env THEN env[v] ELSE ""

\* The first candidate that is given, "" if none is.
FirstGiven(s) ==
  LET given == {i \in 1 .. Len(s) : s[i] # ""} IN
  IF given = {} THEN "" ELSE s[CHOOSE i \in given : \A j \in given : i <= j]

-----------------------------------------------------------------------------
(* Package auth. *)

AccessTokenEnvVar ==
  [global |-> "QODER_PERSONAL_ACCESS_TOKEN",
   cn     |-> "QODERCN_PERSONAL_ACCESS_TOKEN",
   auto   |-> ""]

ServiceAccountEnvVar ==
  [global |-> "QODER_SERVICE_ACCOUNT_KEY",
   cn     |-> "QODERCN_SERVICE_ACCOUNT_KEY",
   auto   |-> ""]

\* AuthOptions: the secret given directly, or the variable named for it, or the
\* brand whose variables are read; fetcher is the host's callback, if not nil.
NoAuth == [kind |-> "", brand |-> "auto", secret |-> "", var |-> "", fetcher |-> FALSE]

AccessToken(t) == [NoAuth EXCEPT !.kind = "accessToken", !.secret = t]
AccessTokenFromEnv(v) ==
  [NoAuth EXCEPT !.kind = "accessToken",
                 !.var = FirstGiven(<<v, AccessTokenEnvVar["cn"]>>)]
AccessTokenFromEnvBrand(b) == [NoAuth EXCEPT !.kind = "accessToken", !.brand = b]
QodercliAuth == [NoAuth EXCEPT !.kind = "qodercli"]
ServiceAccount(k) == [NoAuth EXCEPT !.kind = "serviceAccount", !.secret = k]
ServiceAccountFromEnv(v) ==
  [NoAuth EXCEPT !.kind = "serviceAccount",
                 !.var = FirstGiven(<<v, ServiceAccountEnvVar["cn"]>>)]
ServiceAccountFromEnvBrand(b) == [NoAuth EXCEPT !.kind = "serviceAccount", !.brand = b]
ServiceAccountWithTokenFetcher(f) ==
  [NoAuth EXCEPT !.kind = "serviceAccount", !.fetcher = f]
JobToken(f) == [NoAuth EXCEPT !.kind = "jobToken", !.fetcher = f]

Configured(o) == o.kind # ""

\* The brand's variable; auto has none of its own and tries cn, then global.
BrandSecret(names, b, env) ==
  IF b = "auto" THEN FirstGiven(<<Getenv(env, names["cn"]), Getenv(env, names["global"])>>)
  ELSE Getenv(env, names[b])

EnvAccessToken(b, env) == BrandSecret(AccessTokenEnvVar, b, env)

\* A secret given directly, else the named variable alone, else the brand's.
SecretOf(o, names, env) ==
  IF o.secret # "" THEN o.secret
  ELSE IF o.var # "" THEN Getenv(env, o.var)
  ELSE BrandSecret(names, o.brand, env)

Unavailable == [type |-> "error", secret |-> "", provider |-> ""]
WithSecret(o, s) == [type |-> o.kind, secret |-> s, provider |-> ""]
HostProvides(o) == [type |-> o.kind, secret |-> "", provider |-> "host"]

\* Mutation: a secret that is not available is written all the same.
NeedUnchecked(o, s) == WithSecret(o, s)

Need(o, s) == IF s = "" THEN Unavailable ELSE WithSecret(o, s)

Payload(o, env) ==
  CASE o.kind = "accessToken" -> Need(o, SecretOf(o, AccessTokenEnvVar, env))
    [] o.kind = "serviceAccount" /\ o.fetcher -> HostProvides(o)
    [] o.kind = "serviceAccount" /\ ~o.fetcher ->
         Need(o, SecretOf(o, ServiceAccountEnvVar, env))
    [] o.kind = "qodercli" -> WithSecret(o, "")
    [] o.kind = "jobToken" -> IF o.fetcher THEN HostProvides(o) ELSE Unavailable
    [] OTHER -> Unavailable

-----------------------------------------------------------------------------
(* Package runtime. *)

BinaryNames(b) ==
  IF b = "global" THEN <<"qodercli", "qoderclicn">> ELSE <<"qoderclicn", "qodercli">>

\* The override, QODERCLI_PATH, or the first binary on the PATH; "" if none.
ResolvePath(b, override, env, onPath) ==
  LET names == BinaryNames(b)
      Found(n) == IF n \in onPath THEN n ELSE ""
  IN FirstGiven(<<override, Getenv(env, "QODERCLI_PATH"),
                  Found(names[1]), Found(names[2])>>)
==============================================================================
