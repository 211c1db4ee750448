-------------------------------- MODULE Tool --------------------------------
(***************************************************************************)
(* Processes of the tool on one machine, as src/src/cli.js runs them: a    *)
(* call of the command line, the configuration and cache files of          *)
(* src/src/submodules/setup.js and src/src/context.js, which all processes *)
(* share without a lock, and what a process remembers.  The information of *)
(* an app is taken from the cache file or collected from Cloud Foundry and *)
(* stored there for later commands.                                        *)
(*                                                                         *)
(* External: the apps in Cloud Foundry and their deployments, the answers  *)
(* of the user, and what the commands do with the apps.  A call that is    *)
(* refused changes nothing and is no step.                                 *)
(***************************************************************************)
EXTENDS CommandLine, FiniteSets

CONSTANTS
    Process,
    Scenes,      \* bound: what may be found at first, see SceneAssumption
    Path,        \* the directories that a process searches, its own one first
    Home,        \* the home directory, the last one of each search
    Setting,     \* the apps that a configuration names
    AppName,
    None,        \* no app is configured
    AppSuffixes,    \* MTX_APP_SUFFIX, unless it is the next one, and APP_SUFFIXES
    LiveSuffix,  \* APP_SUFFIX_READONLY
    Version,     \* versions of the tool
    CacheGap,    \* CACHE_GAP
    MaxTime,     \* bound: the clock
    MaxDeploys,  \* bound: deployments
    MaxCalls     \* bound: calls of the command line

ASSUME ToolAssumption ==
    /\ \A p \in Process : /\ Path[p] \in Seq(Range(Path[p]))
                          /\ Path[p] # <<>> /\ Last(Path[p]) = Home
    /\ AppSuffixes \in Seq(STRING) /\ LiveSuffix \notin Range(AppSuffixes)
    /\ CacheGap \in Nat /\ MaxTime \in Nat /\ MaxDeploys \in Nat /\ MaxCalls \in Nat

VARIABLES
    offer,    \* the commands of every process
    shell,    \* the environment variables and the version of every process
    config,   \* .mtxrc.json of every directory
    cache,    \* .mtxcache.json of every directory
    deployed, \* the apps of the targeted space
    deploys,
    now,
    calls,
    proc      \* what every process remembers

vars == <<offer, shell, config, cache, deployed, deploys, now, calls, proc>>
outside == <<offer, shell, deployed, deploys, now>>

Dir == UNION {Range(Path[p]) : p \in Process}
App == AppName \X (Range(AppSuffixes) \cup {LiveSuffix})
Configuration == [Setting -> AppName \cup {None}]
Environment == [args : SUBSET EnvArgs, apps : Configuration, version : Version]

\* What may be found at first: the commands that a process may run, its environment
\* variables and version, the configurations, the suffix of the only app of every
\* name, and how many deployments and calls are not to come any more.
ASSUME SceneAssumption ==
    \A scene \in Scenes :
        /\ scene.offer \in [Process -> SUBSET DOMAIN Commands]
        /\ scene.shell \in [Process -> Environment]
        /\ DOMAIN scene.config \subseteq Dir
        /\ \A d \in DOMAIN scene.config : scene.config[d] \in Configuration
        /\ scene.suffix \in [AppName -> Range(AppSuffixes) \cup {LiveSuffix}]
        /\ scene.deploys \in 0..MaxDeploys /\ scene.calls \in 0..MaxCalls

\* An entry is stored under the configured name; the app that it is about has
\* that name with a suffix.
Entry == [name : AppName, app : App, stamp : 0..MaxTime, version : Version]
Content == [AppName -> {{}} \cup {{e} : e \in Entry}]

\* What cannot be parsed counts as empty.
Empty == [a \in AppName |-> {}]
Absent(content) == [exists |-> FALSE, content |-> content]
File(content) == [exists |-> TRUE, content |-> content]

\* phase: a command waits for consent, runs, stores an entry, asks for the
\*   settings, or removes caches; within these it reads and writes files
\* dir: where the configuration and the cache are
\* listed: the apps in Cloud Foundry, once they are listed
\* fetching: names whose information is being collected
\* info: the information that is used, since when, and whether it is its own
\* file: what is going to be written
NewProcess ==
    [phase |-> "idle", command |-> "help", args |-> <<>>, consent |-> "none",
     dir |-> Home, config |-> [s \in Setting |-> None], listed |-> {}, fetching |-> {},
     info |-> Empty, file |-> Empty, answers |-> <<>>, place |-> 1, disturbed |-> FALSE]

\* disturbed: another process has written to a file meanwhile that it stores an entry
\*   in, or that it looks for in order to remove it
Phases == {"idle", "consent", "running", "storing", "truncated", "unlinked", "dialogue",
           "writing", "cleaning", "found", "cleaned"}

TypeOK ==
    /\ offer \in [Process -> SUBSET DOMAIN Commands]
    /\ shell \in [Process -> Environment]
    /\ config \in [Dir -> [exists : BOOLEAN, content : {{}} \cup {{c} : c \in Configuration}]]
    /\ \A d \in Dir : cache[d].exists \in BOOLEAN /\ cache[d].content \in Content
    /\ deployed \subseteq App
    /\ deploys \in 0..MaxDeploys /\ now \in 0..MaxTime /\ calls \in 0..MaxCalls
    /\ \A p \in Process :
         LET q == proc[p]
         IN /\ q.phase \in Phases /\ q.command \in DOMAIN Commands /\ q.dir \in Dir
            /\ q.args \in Seq(Range(Typed) \cup EnvArgs) /\ q.consent \in {"none", "yes", "force"}
            /\ q.config \in Configuration
            /\ \A apps \in q.listed : apps \subseteq App
            /\ q.fetching \subseteq AppName
            /\ \A a \in AppName : \A i \in q.info[a] : i.entry \in Entry
            /\ q.file \in Content
            /\ \A s \in DOMAIN q.answers : q.answers[s] \in AppName \cup {None}
            /\ q.place \in 1..Len(Path[p]) + 1 /\ q.disturbed \in BOOLEAN

Init ==
    \E scene \in Scenes :
        /\ offer = scene.offer
        /\ shell = scene.shell
        /\ config = [d \in Dir |-> IF d \in DOMAIN scene.config THEN File({scene.config[d]})
                                  ELSE Absent({})]
        /\ deployed = {<<x, scene.suffix[x]>> : x \in AppName}
        /\ cache = [d \in Dir |-> Absent(Empty)]
        /\ deploys = scene.deploys /\ now = 0 /\ calls = scene.calls
        /\ proc = [p \in Process |-> NewProcess]

-----------------------------------------------------------------------------
(* The command line.                                                       *)

\* _resolveDir: the first directory with a file.
Found(files, p) == {i \in 1..Len(Path[p]) : files[Path[p][i]].exists}
ResolveDir(files, p) == Path[p][Min(Found(files, p))]

\* readRuntimeConfig for a context.
Configured(p) == Found(config, p) # {} /\ config[ResolveDir(config, p)].content # {}

FirstPhase(c, flag) ==
    CASE c \in {"setup", "setupLocal"} -> "dialogue"
      [] c = "setupCleanCache" -> "cleaning"
      [] Commands[c].danger /\ flag # "force" -> "consent"
      [] OTHER -> "running"

\* checkOption: the arguments are accepted, then the context is created, and
\* only then it is asked for consent.
Call(p, c, typed, flag) ==
    LET args == PassArgs(c, typed, shell[p].args)
        start == [NewProcess EXCEPT !.phase = FirstPhase(c, flag), !.command = c, !.args = args,
                                    !.consent = IF flag = "force" THEN flag ELSE "none"]
    IN /\ proc[p].phase = "idle" /\ calls < MaxCalls
       /\ c \in offer[p]
       /\ Accepts(c, args, flag)
       /\ Commands[c].context \/ c = "setupList" => Configured(p)
       /\ calls' = calls + 1
       /\ proc' = [proc EXCEPT ![p] =
              IF Commands[c].context
              THEN LET dir == ResolveDir(config, p)
                   IN [start EXCEPT !.dir = dir,
                                    !.config = CHOOSE x \in config[dir].content : TRUE]
              ELSE start]
       /\ UNCHANGED <<outside, config, cache>>

\* _dangerGuard is answered with yes.
Consent(p) ==
    /\ proc[p].phase = "consent"
    /\ proc' = [proc EXCEPT ![p].phase = "running", ![p].consent = "yes"]
    /\ UNCHANGED <<outside, config, cache, calls>>

\* A command returns or fails, or the process is killed; a promise that is still
\* pending is dropped with it.
End(p) ==
    /\ proc[p].phase \notin {"idle", "dialogue"}
    /\ proc' = [proc EXCEPT ![p] = NewProcess]
    /\ UNCHANGED <<outside, config, cache, calls>>

-----------------------------------------------------------------------------
(* The information of apps.                                                *)

IsAvailable(p, a) == proc[p].info[a] # {}

\* _getAppNameFromSettingType; the server commands also take a name.
Needed(p) ==
    {IF shell[p].apps[s] # None THEN shell[p].apps[s] ELSE proc[p].config[s] : s \in Setting}
        \cup (IF proc[p].args # <<>> /\ Head(AllPassArgs(proc[p].command)) = "APP_NAME"
              THEN AppName ELSE {})

\* Mutant of ReadPersisted: the age of an entry is not looked at.
ReadOverdue(p, a) ==
    IF Commands[proc[p].command].cached
    THEN {e \in cache[proc[p].dir].content[a] : e.version = shell[p].version}
    ELSE {}

\* _readRawAppPersistedCache
ReadPersisted(p, a) ==
    IF Commands[proc[p].command].cached
    THEN {e \in cache[proc[p].dir].content[a] :
             now - e.stamp <= CacheGap /\ e.version = shell[p].version}
    ELSE {}

Using(entry, own) == {[entry |-> entry, at |-> now, own |-> own]}

\* getRawAppInfoCached: the memory of the process, then the file, then Cloud
\* Foundry.
LookUp(p, a) ==
    /\ proc[p].phase = "running" /\ Commands[proc[p].command].context
    /\ a \in Needed(p) \ {None}
    /\ ~IsAvailable(p, a) /\ a \notin proc[p].fetching
    /\ IF ReadPersisted(p, a) # {}
       THEN \E e \in ReadPersisted(p, a) : proc' = [proc EXCEPT ![p].info[a] = Using(e, FALSE)]
       ELSE proc' = [proc EXCEPT ![p].fetching = @ \cup {a}]
    /\ UNCHANGED <<outside, config, cache, calls>>

\* getApps, once per process.
GetApps(p) ==
    /\ proc[p].phase = "running" /\ proc[p].fetching # {} /\ proc[p].listed = {}
    /\ proc' = [proc EXCEPT ![p].listed = {deployed}]
    /\ UNCHANGED <<outside, config, cache, calls>>

\* Mutant of AppNameCandidates: apps that are live are taken for every command.
AppNameCandidatesLive(p) == Append(AppSuffixes, LiveSuffix)

AppNameCandidates(p) ==
    IF Commands[proc[p].command].readonly THEN Append(AppSuffixes, LiveSuffix) ELSE AppSuffixes

\* getAppByName: the order of the candidates counts.
AppByName(p, a) ==
    LET suffixes == AppNameCandidates(p)
        matching == {i \in 1..Len(suffixes) :
                        \E apps \in proc[p].listed : <<a, suffixes[i]>> \in apps}
    IN IF matching = {} THEN {} ELSE {<<a, suffixes[Min(matching)]>>}

\* Mutant of GetRawAppInfo: what is in the file is not read before.
GetRawAppInfoAlone(p, a) ==
    /\ proc[p].phase = "running" /\ a \in proc[p].fetching
    /\ \E app \in AppByName(p, a) :
         LET e == [name |-> a, app |-> app, stamp |-> now, version |-> shell[p].version]
         IN proc' = [proc EXCEPT ![p].phase = "storing", ![p].fetching = @ \ {a},
                                 ![p].info[a] = Using(e, TRUE),
                                 ![p].file = [Empty EXCEPT ![a] = {e}],
                                 ![p].disturbed = FALSE]
    /\ UNCHANGED <<outside, config, cache, calls>>

\* getRawAppInfo and the beginning of _writeRawAppPersistedCache: all requests
\* are answered, and the file is read.
GetRawAppInfo(p, a) ==
    /\ proc[p].phase = "running" /\ a \in proc[p].fetching
    /\ \E app \in AppByName(p, a) :
         LET e == [name |-> a, app |-> app, stamp |-> now, version |-> shell[p].version]
         IN proc' = [proc EXCEPT ![p].phase = "storing", ![p].fetching = @ \ {a},
                                 ![p].info[a] = Using(e, TRUE),
                                 ![p].file = [cache[proc[p].dir].content EXCEPT ![a] = {e}],
                                 ![p].disturbed = FALSE]
    /\ UNCHANGED <<outside, config, cache, calls>>

\* Whose work a write to the cache of a directory concerns.
Concerns(q, d) ==
    \/ proc[q].phase \in {"storing", "truncated"} /\ proc[q].dir = d
    \/ proc[q].phase \in {"cleaning", "found", "cleaned"} /\ d \in Range(Path[q])

Disturb(p, changed, d) ==
    proc' = [q \in Process |->
                IF q = p THEN changed
                ELSE [proc[q] EXCEPT !.disturbed = @ \/ Concerns(q, d)]]

\* The file is written in two steps: it is emptied and it is filled.
TruncateCache(p) ==
    /\ proc[p].phase = "storing"
    /\ cache' = [cache EXCEPT ![proc[p].dir] = File(Empty)]
    /\ Disturb(p, [proc[p] EXCEPT !.phase = "truncated"], proc[p].dir)
    /\ UNCHANGED <<outside, config, calls>>

\* It is written from the beginning.  Of what another process has written
\* meanwhile nothing is left, or the end, if that was longer; and no JSON can be
\* parsed that is followed by the end of another one.
WriteCache(p) ==
    /\ proc[p].phase = "truncated"
    /\ LET d == proc[p].dir
       IN \E content \in {proc[p].file} \cup (IF cache[d].content = Empty THEN {} ELSE {Empty}) :
             cache' = [cache EXCEPT ![d] = File(content)]
    /\ Disturb(p, [proc[p] EXCEPT !.phase = "running", !.file = Empty], proc[p].dir)
    /\ UNCHANGED <<outside, config, calls>>

\* Once the file is removed it is written without a name, and another one that
\* was created instead stays as it is.
WriteUnlinked(p) ==
    /\ proc[p].phase = "unlinked"
    /\ proc' = [proc EXCEPT ![p].phase = "running", ![p].file = Empty]
    /\ UNCHANGED <<outside, config, cache, calls>>

-----------------------------------------------------------------------------
(* The commands of the setup.                                              *)

SetupDir(p) == IF proc[p].command = "setup" THEN Home ELSE Head(Path[p])

\* One question is answered, or skipped.
Answer(p, s, name) ==
    /\ proc[p].phase = "dialogue" /\ s \notin DOMAIN proc[p].answers
    /\ LET answers == proc[p].answers
       IN proc' = [proc EXCEPT ![p].answers =
                      [x \in DOMAIN answers \cup {s} |-> IF x = s THEN name ELSE answers[x]]]
    /\ UNCHANGED <<outside, config, cache, calls>>

\* Mutant of Interrupt: what was answered so far is written.
InterruptWrites(p) ==
    /\ proc[p].phase = "dialogue"
    /\ config' = [config EXCEPT ![SetupDir(p)] =
           File({proc[p].answers @@ [s \in Setting |-> None]})]
    /\ proc' = [proc EXCEPT ![p] = NewProcess]
    /\ UNCHANGED <<outside, cache, calls>>

\* Ctrl-c at a question, or the end of the process.
Interrupt(p) ==
    /\ proc[p].phase = "dialogue"
    /\ proc' = [proc EXCEPT ![p] = NewProcess]
    /\ UNCHANGED <<outside, config, cache, calls>>

\* _writeRuntimeConfig, in two steps as well.
TruncateConfig(p) ==
    /\ proc[p].phase = "dialogue" /\ DOMAIN proc[p].answers = Setting
    /\ config' = [config EXCEPT ![SetupDir(p)] = File({})]
    /\ proc' = [proc EXCEPT ![p].phase = "writing"]
    /\ UNCHANGED <<outside, cache, calls>>

WriteConfig(p) ==
    /\ proc[p].phase = "writing"
    /\ LET d == SetupDir(p)
       IN \E content \in {{proc[p].answers}} \cup (IF config[d].content = {} THEN {} ELSE {{}}) :
             config' = [config EXCEPT ![d] = File(content)]
    /\ proc' = [proc EXCEPT ![p] = NewProcess]
    /\ UNCHANGED <<outside, cache, calls>>

\* setupCleanCache looks for a cache in one directory after the other.
Search(p) ==
    /\ proc[p].phase = "cleaning"
    /\ LET place == proc[p].place
       IN proc' = IF place > Len(Path[p]) THEN [proc EXCEPT ![p].phase = "cleaned"]
                  ELSE IF cache[Path[p][place]].exists THEN [proc EXCEPT ![p].phase = "found"]
                  ELSE [proc EXCEPT ![p].place = place + 1]
    /\ UNCHANGED <<outside, config, cache, calls>>

\* Whoever has the cache of the directory open keeps it without its name.
Unlink(p, changed, d) ==
    proc' = [q \in Process |->
                IF q = p THEN changed
                ELSE IF proc[q].phase = "truncated" /\ proc[q].dir = d
                     THEN [proc[q] EXCEPT !.phase = "unlinked"]
                     ELSE proc[q]]

\* Mutant of RemoveCache: the nearest cache is enough.
RemoveNearest(p) ==
    /\ proc[p].phase = "found"
    /\ LET d == Path[p][proc[p].place]
       IN /\ cache[d].exists
          /\ cache' = [cache EXCEPT ![d] = Absent(Empty)]
          /\ Unlink(p, [proc[p] EXCEPT !.phase = "cleaned"], d)
    /\ UNCHANGED <<outside, config, calls>>

\* It removes what it has found and starts again; it fails if another process
\* was faster.
RemoveCache(p) ==
    /\ proc[p].phase = "found"
    /\ LET d == Path[p][proc[p].place]
       IN /\ cache[d].exists
          /\ cache' = [cache EXCEPT ![d] = Absent(Empty)]
          /\ Unlink(p, [proc[p] EXCEPT !.phase = "cleaning", !.place = 1], d)
    /\ UNCHANGED <<outside, config, calls>>

-----------------------------------------------------------------------------
\* External: an app is renamed or replaced by one with another suffix.
Deploy(old, new) ==
    /\ deploys < MaxDeploys
    /\ old \in deployed /\ new \in App \ deployed /\ old[1] = new[1]
    /\ deployed' = (deployed \ {old}) \cup {new}
    /\ deploys' = deploys + 1
    /\ UNCHANGED <<offer, shell, config, cache, now, calls, proc>>

Tick ==
    /\ now < MaxTime
    /\ now' = now + 1
    /\ UNCHANGED <<offer, shell, config, cache, deployed, deploys, calls, proc>>

Begin(p) == \E c \in offer[p], typed \in 0..Len(Typed), flag \in {"none", "force", "invalid"} :
               Call(p, c, typed, flag)
Information(p) == \/ GetApps(p) \/ TruncateCache(p) \/ WriteCache(p) \/ WriteUnlinked(p)
                  \/ \E a \in AppName : LookUp(p, a) \/ GetRawAppInfo(p, a)
Setup(p) == \/ Interrupt(p) \/ TruncateConfig(p) \/ WriteConfig(p) \/ Search(p) \/ RemoveCache(p)
            \/ \E s \in Setting, name \in AppName \cup {None} : Answer(p, s, name)

Next == \/ Tick
        \/ \E old, new \in App : Deploy(old, new)
        \/ \E p \in Process : Begin(p) \/ Consent(p) \/ End(p) \/ Information(p) \/ Setup(p)

Spec == Init /\ [][Next]_vars

-----------------------------------------------------------------------------
(* Properties                                                              *)

\* Whatever other processes do to the files, a command only works with
\* information that is stored for the name it was looked for, was collected by
\* the same version at most CacheGap before, and by itself if it must not use the
\* cache; and then, if it changes something, with no app that is live.
WorksWithValid ==
    \A p \in Process, a \in AppName : \A i \in proc[p].info[a] :
        LET command == Commands[proc[p].command]
        IN /\ i.entry.name = a /\ i.entry.app[1] = a
           /\ i.entry.version = shell[p].version
           /\ i.at - i.entry.stamp <= CacheGap
           /\ command.cached \/ i.own
           /\ command.cached \/ command.readonly \/ i.entry.app[2] # LiveSuffix

\* A dangerous command runs with consent only; and every command with each
\* argument in its place, whether it was typed or comes from the environment.
RunsAsAsked ==
    \A p \in Process :
        LET q == proc[p]
            all == AllPassArgs(q.command)
            fromEnv(i) == q.args[i] = all[i]
        IN q.phase \notin {"idle", "consent"} =>
              /\ Commands[q.command].danger => q.consent # "none"
              /\ Len(q.args) \in Len(Commands[q.command].required)..Len(all)
              /\ \A i \in 1..Len(q.args) : all[i] \in shell[p].args <=> fromEnv(i)
              /\ \A i \in 1..Len(q.args) :
                    ~fromEnv(i) => q.args[i] = Typed[Cardinality({j \in 1..i : ~fromEnv(j)})]

\* A configuration only changes when a dialogue writes the answers to all of its
\* questions: to these, or, between the two steps of the write, for good if the
\* process ends there, and where two dialogues write at once, to nothing, which no
\* command accepts.  And when the caches are removed none is left that can be
\* found, unless another process has written one of these meanwhile.
FilesAsMeant ==
    [][/\ \A d \in Dir :
            config'[d].content # config[d].content =>
                \E p \in Process :
                    /\ SetupDir(p) = d /\ DOMAIN proc[p].answers = Setting
                    /\ config'[d].content \in {{}, {proc[p].answers}}
       /\ \A p \in Process :
            proc'[p].phase = "cleaned" /\ ~proc'[p].disturbed =>
                \A d \in Range(Path[p]) : ~cache'[d].exists]_vars

\* An entry is stored by reading the file, adding it, and writing the file.  What is
\* in the file when it is emptied comes back with the write, or something that is
\* not older, unless another process has written to the file since it was read:
\* nothing but that loses what other commands, or other calls of this one, have
\* stored.
EntriesKept ==
    [][\A p \in Process :
         LET q == proc[p]
             d == q.dir
         IN ~q.disturbed =>
              /\ q.phase = "storing" /\ proc'[p].phase = "truncated" =>
                    \A a \in AppName : \A e \in cache[d].content[a] :
                       \E f \in q.file[a] : f.stamp >= e.stamp
              /\ q.phase = "truncated" /\ proc'[p].phase = "running" =>
                    cache'[d] = File(q.file)]_vars

\* docs/tool-setup/index.md: commands that change something do not use apps in
\* the live state.
NoLiveForOthers ==
    \A p \in Process, a \in AppName : \A i \in proc[p].info[a] :
        Commands[proc[p].command].readonly \/ i.entry.app[2] # LiveSuffix
=============================================================================
