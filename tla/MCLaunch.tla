------------------------------- MODULE MCLaunch -------------------------------
(* The scenarios: the auth methods over environments with and without their   *)
(* variables; the ways to find a CLI; two sessions with and without a map in  *)
(* common; a CLI that writes to stderr; each plugin call beside a session.    *)
EXTENDS PluginCalls

CONSTANTS a, b

CnVar == "QODERCN_PERSONAL_ACCESS_TOKEN"
GlobalVar == "QODER_PERSONAL_ACCESS_TOKEN"
KeyVar == "QODERCN_SERVICE_ACCOUNT_KEY"
OsOf(vars) == [v \in vars \cup {"PATH", "NODE_OPTIONS"} |-> v]

Methods == {
  NoAuth, AccessToken("token"), AccessTokenFromEnv("MY_TOKEN"),
  AccessTokenFromEnvBrand("auto"), AccessTokenFromEnvBrand("global"), QodercliAuth,
  ServiceAccountFromEnv(""), ServiceAccountWithTokenFetcher(TRUE), JobToken(TRUE)}

\* Two events; one hook carries an id of the host's choosing, or one that the
\* SDK would give another.
TwoEvents == <<"PreToolUse", "Stop">>
Mine == <<"host", "mine">>
ChosenIds == {Mine, Generated(1)}
SomeHooks == <<<<None, Mine>>, <<None>>>>
ClashingHooks == <<<<None, Generated(1)>>, <<None>>>>

\* One session, its stderr silent, no plugin call.
Base == [auth |-> QodercliAuth, os |-> OsOf({}), brand |-> "auto", override |-> "",
         onPath |-> {"qodercli", "qoderclicn"}, vpc |-> TRUE,
         shared |-> FALSE, env |-> NilMap, hooks |-> SomeHooks,
         starts |-> {a}, errs |-> 0, plugin |-> {"no"}]
SharedBase == [Base EXCEPT !.shared = TRUE, !.env = OsOf({"MINE"})]

AuthScenarios ==
  {[Base EXCEPT !.auth = m, !.os = OsOf(vars)] :
     m \in Methods, vars \in {{}, {GlobalVar}, {CnVar, GlobalVar, KeyVar}}}
PathScenarios ==
  {[Base EXCEPT !.brand = br, !.onPath = bins, !.override = o] :
     br \in Brands, bins \in {{}, {"qodercli"}}, o \in {"", "/opt/cli"}}
PairScenario == [SharedBase EXCEPT !.starts = {a, b}]
PairScenarios ==
  {PairScenario, [Base EXCEPT !.starts = {a, b}],
   [Base EXCEPT !.starts = {a, b}, !.hooks = ClashingHooks]}
ErrScenarios == {[Base EXCEPT !.errs = MaxErrs]}
PluginScenarios ==
  {[Base EXCEPT !.plugin = PluginKinds],
   [SharedBase EXCEPT !.plugin = {"list"}, !.vpc = FALSE,
                      !.env = [v \in {"MINE", "NODE_OPTIONS"} |-> v]]}

AllScenarios ==
  AuthScenarios \cup PathScenarios \cup PairScenarios \cup ErrScenarios \cup PluginScenarios
==============================================================================
