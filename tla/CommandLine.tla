---------------------------- MODULE CommandLine ----------------------------
(***************************************************************************)
(* The commands of src/src/commands.js with what src/src/cli.js asks of    *)
(* them, and how it takes the arguments of a call.  Flags other than       *)
(* --force are passed on and change nothing else, so that only whether one *)
(* is valid is looked at.  A deprecated command differs by a pause.        *)
(***************************************************************************)
EXTENDS Naturals, SequencesExt

\* The defaults of checkOption.
Plain == [required |-> <<>>, optional |-> <<>>, context |-> TRUE, danger |-> FALSE,
          cached |-> TRUE, readonly |-> FALSE]

Taking(command, required, optional) ==
    [command EXCEPT !.required = required, !.optional = optional]

Readonly == [Plain EXCEPT !.readonly = TRUE]
Dangerous == [Plain EXCEPT !.danger = TRUE]
Uncached == [Plain EXCEPT !.cached = FALSE]
WithoutContext == [Plain EXCEPT !.context = FALSE]

\* HELP and VERSION.
GenericCommands == [help |-> WithoutContext, version |-> WithoutContext]

SetupCommands == [
    setupList |-> [WithoutContext EXCEPT !.readonly = TRUE],
    setup |-> WithoutContext,
    setupLocal |-> WithoutContext,
    setupCleanCache |-> WithoutContext]

UaaCommands == [
    uaaDecode |-> [Taking(Readonly, <<"TOKEN">>, <<>>) EXCEPT !.context = FALSE],
    uaaClient |-> Taking(Readonly, <<>>, <<"TENANT">>),
    uaaPasscode |-> Taking(Readonly, <<"PASSCODE">>, <<"TENANT">>),
    uaaUser |-> Taking(Readonly, <<"USERNAME", "PASSWORD">>, <<"TENANT">>),
    uaaServiceClient |-> Taking(Readonly, <<"SERVICE">>, <<"TENANT">>),
    uaaServicePasscode |-> Taking(Readonly, <<"SERVICE", "PASSCODE">>, <<"TENANT">>),
    uaaServiceUser |-> Taking(Readonly, <<"SERVICE", "USERNAME", "PASSWORD">>, <<"TENANT">>)]

RegistryCommands == [
    registryList |-> Taking(Readonly, <<>>, <<"TENANT">>),
    registryLongList |-> Taking(Readonly, <<>>, <<"TENANT">>),
    registryServiceConfig |-> Readonly,
    registryUpdate |-> Taking(Plain, <<"TENANT_ID">>, <<>>),
    registryUpdateAll |-> Plain,
    registryUpdateUrl |-> Taking(Plain, <<>>, <<"TENANT_ID">>),
    registryMigrate |-> Taking(Dangerous, <<"TENANT_ID">>, <<>>),
    registryOffboard |-> Taking(Dangerous, <<"TENANT_ID">>, <<>>),
    registryOffboardSkip |-> Taking(Dangerous, <<"TENANT_ID", "SKIP_APPS">>, <<>>)]

CdsCommands == [
    cdsList |-> Taking(Readonly, <<>>, <<"TENANT">>),
    cdsLongList |-> Taking(Readonly, <<>>, <<"TENANT">>),
    cdsOnboardTenant |-> Taking(Plain, <<"TENANT_ID">>, <<"METADATA">>),
    cdsUpgradeTenant |-> Taking(Plain, <<"TENANT_ID">>, <<>>),
    cdsUpgradeAll |-> Uncached,
    cdsOffboardTenant |-> Taking(Dangerous, <<"TENANT_ID">>, <<>>),
    cdsOffboardAll |-> Dangerous]

HdiCommands == [
    hdiList |-> Taking(Readonly, <<>>, <<"TENANT_ID">>),
    hdiLongList |-> Taking(Readonly, <<>>, <<"TENANT_ID">>),
    hdiTunnelTenant |-> [Taking(Readonly, <<"TENANT_ID">>, <<>>) EXCEPT !.cached = FALSE]]

DangerousUncached == [Dangerous EXCEPT !.cached = FALSE]

SvmCommands == [
    svmList |-> Taking(Readonly, <<>>, <<"TENANT_ID">>),
    svmLongList |-> Taking(Readonly, <<>>, <<"TENANT_ID">>),
    svmMakeBindingsSingle |-> Taking(Uncached, <<"SERVICE_PLAN", "TENANT_ID">>, <<"PARAMS">>),
    svmMakeBindingsDouble |-> Taking(Uncached, <<"SERVICE_PLAN", "TENANT_ID">>, <<"PARAMS">>),
    svmDeleteBindings |-> Taking(DangerousUncached, <<"SERVICE_PLAN", "TENANT_ID">>, <<>>),
    svmDelete |-> Taking(DangerousUncached, <<"SERVICE_PLAN", "TENANT_ID">>, <<>>),
    svmRestart |-> Uncached,
    svmRestartSkip |-> Taking(Uncached, <<"SKIP_APPS">>, <<>>),
    svmRepair |-> Taking(Uncached, <<"SERVICE_PLAN">>, <<"PARAMS">>),
    svmFresh |-> Taking(Uncached, <<"SERVICE_PLAN", "TENANT_ID">>, <<"PARAMS">>),
    svmRefresh |-> Taking(Uncached, <<"SERVICE_PLAN", "TENANT_ID">>, <<"PARAMS">>)]

SrvCommands == [
    srvEnvironment |-> [Taking(Readonly, <<>>, <<"APP_NAME">>) EXCEPT !.cached = FALSE],
    srvCertificates |->
        [Taking(Readonly, <<>>, <<"APP_NAME", "APP_INSTANCE">>) EXCEPT !.cached = FALSE],
    srvDebug |-> Taking(Plain, <<>>, <<"APP_NAME", "APP_INSTANCE">>)]

Groups == {GenericCommands, SetupCommands, UaaCommands, RegistryCommands, CdsCommands,
           HdiCommands, SvmCommands, SrvCommands}

\* Every command is in one of the groups.
Commands == [c \in UNION {DOMAIN group : group \in Groups} |->
                (CHOOSE group \in Groups : c \in DOMAIN group)[c]]

\* The arguments for which an environment variable can stand in.
EnvArgs == {"PASSCODE", "USERNAME", "PASSWORD"}

AllPassArgs(c) == Commands[c].required \o Commands[c].optional

\* The arguments that are typed are anything; only their order matters.
Typed == <<"1st", "2nd", "3rd", "4th", "5th">>

\* A value for the argument at position i is put there or, if there are too few, at
\* the end.
Splice(args, i, value) == InsertAt(args, IF i <= Len(args) THEN i ELSE Len(args) + 1, value)

\* Mutant of PassArgs: a variable that is not set is put in all the same.
PassArgsUndefined(c, typed, env) ==
    LET all == AllPassArgs(c)
        mixed[i \in 0..Len(all)] ==
            IF i = 0 THEN SubSeq(Typed, 1, typed)
            ELSE IF all[i] \in EnvArgs
                 THEN Splice(mixed[i - 1], i, IF all[i] \in env THEN all[i] ELSE "undefined")
                 ELSE mixed[i - 1]
    IN mixed[Len(all)]

\* Arguments from environment variables env are put between the typed ones.
PassArgs(c, typed, env) ==
    LET all == AllPassArgs(c)
        mixed[i \in 0..Len(all)] ==
            IF i = 0 THEN SubSeq(Typed, 1, typed)
            ELSE IF all[i] \in env THEN Splice(mixed[i - 1], i, all[i])
            ELSE mixed[i - 1]
    IN mixed[Len(all)]

\* Mutant of Accepts: the required arguments are counted without those typed.
AcceptsTooFew(c, args, flag) ==
    /\ Len(args) <= Len(AllPassArgs(c))
    /\ flag # "invalid"

\* The assertions of checkOption.
Accepts(c, args, flag) ==
    /\ Len(args) >= Len(Commands[c].required)
    /\ Len(args) <= Len(AllPassArgs(c))
    /\ flag # "invalid"
=============================================================================
