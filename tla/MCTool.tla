------------------------------- MODULE MCTool -------------------------------
(* Two processes, one in a project directory and one elsewhere.              *)
EXTENDS Tool

CONSTANTS p1, p2, project, home, s1, s2, a, b, v1, v2

MCPath == p1 :> <<project, home>> @@ p2 :> <<home>>
MCSuffixes == <<"", "-blue">>
Unset == [args |-> {}, apps |-> s1 :> None @@ s2 :> None, version |-> v1]
Overriding == [Unset EXCEPT !.apps = s1 :> b @@ s2 :> None]
BothA == s1 :> a @@ s2 :> a
BLive == a :> "" @@ b :> "-live"

\* All commands of the table, one call of one of them.
Table == {[offer |-> p1 :> DOMAIN Commands @@ p2 :> {},
           shell |-> p1 :> [Unset EXCEPT !.args = env] @@ p2 :> Unset,
           config |-> home :> BothA, suffix |-> BLive, deploys |-> MaxDeploys,
           calls |-> MaxCalls - 1] :
              env \in {{}, {"USERNAME"}, EnvArgs}}

\* Commands of every kind that share a cache, and the removal of it.
Sharing == {[offer |-> p1 :> {"registryServiceConfig", "registryUpdateAll"}
                       @@ p2 :> {"registryServiceConfig", "svmRestart", "setupCleanCache"},
             shell |-> p1 :> Unset @@ p2 :> Overriding,
             config |-> home :> BothA, suffix |-> BLive, deploys |-> 0, calls |-> MaxCalls - 2]}

\* A directory with files of its own, and a process of another version.
Removing == {[offer |-> p1 :> {"registryServiceConfig", "setupCleanCache"}
                        @@ p2 :> {"registryServiceConfig", "setupCleanCache"},
              shell |-> p1 :> Unset @@ p2 :> [Unset EXCEPT !.version = v2],
              config |-> c, suffix |-> BLive, deploys |-> MaxDeploys, calls |-> 0] :
                 c \in {home :> BothA, project :> BothA @@ home :> BothA}}

\* The tool is set up while others use it.
SettingUp == {[offer |-> p1 :> {"setup", "setupLocal"} @@ p2 :> {"setup", "cdsOffboardAll"},
               shell |-> [p \in Process |-> Unset], config |-> c, suffix |-> BLive,
               deploys |-> MaxDeploys, calls |-> MaxCalls - 2] :
                  c \in {<<>>, home :> BothA}}

MCScenes == Table \cup Sharing \cup Removing \cup SettingUp
=============================================================================
