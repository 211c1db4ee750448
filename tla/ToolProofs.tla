----------------------------- MODULE ToolProofs -----------------------------
(***************************************************************************)
(* Proofs about Tool, for any number of processes, directories, apps and   *)
(* versions, and whatever is configured at first.                          *)
(***************************************************************************)
EXTENDS Tool, FiniteSetTheorems, SequenceTheorems, WellFoundedInduction, TLAPS

\* A set of natural numbers that is not empty has a least one.
LEMMA Least ==
    ASSUME NEW S, S \subseteq Nat, S # {}
    PROVE  \E k \in S : \A l \in S : k <= l
<1>1. PICK k \in S : \A l \in S : ~(<<l, k>> \in OpToRel(<, Nat))
  BY NatLessThanWellFounded, WFMin
<1>2. \A l \in S : ~(l < k)
  BY <1>1 DEF OpToRel
<1> QED
  BY <1>2

-----------------------------------------------------------------------------
(* The table of commands                                                   *)

\* The names of arguments.
Names == {"TOKEN", "TENANT", "PASSCODE", "USERNAME", "PASSWORD", "SERVICE", "TENANT_ID",
          "SKIP_APPS", "METADATA", "SERVICE_PLAN", "PARAMS", "APP_NAME", "APP_INSTANCE"}

\* What is said of every command; only required arguments can be taken from the
\* environment.
Columns == {"required", "optional", "context", "danger", "cached", "readonly"}

Row(command) == /\ DOMAIN command = Columns
                /\ command.required \in Seq(Names)
                /\ command.optional \in Seq(Names \ EnvArgs)

\* The ways in which rows are written.
LEMMA PlainIsRow == Row(Plain)
  BY DEF Row, Plain, Columns

LEMMA FlagIsRow ==
    ASSUME NEW command, Row(command), NEW f \in {"context", "danger", "cached", "readonly"},
           NEW v
    PROVE  Row([command EXCEPT ![f] = v])
  BY DEF Row, Columns

LEMMA TakingIsRow ==
    ASSUME NEW command, Row(command), NEW r \in Seq(Names), NEW o \in Seq(Names \ EnvArgs)
    PROVE  Row(Taking(command, r, o))
  BY DEF Row, Taking, Columns

LEMMA BasicRows == /\ Row(Plain) /\ Row(Readonly) /\ Row(Dangerous) /\ Row(Uncached)
                   /\ Row(WithoutContext) /\ Row(DangerousUncached)
<1>1. Row(Readonly)
  BY PlainIsRow, FlagIsRow DEF Readonly
<1>2. Row(Dangerous)
  BY PlainIsRow, FlagIsRow DEF Dangerous
<1>3. Row(Uncached)
  BY PlainIsRow, FlagIsRow DEF Uncached
<1>4. Row(WithoutContext)
  BY PlainIsRow, FlagIsRow DEF WithoutContext
<1>5. Row(DangerousUncached)
  BY <1>2, FlagIsRow DEF DangerousUncached
<1> QED
  BY PlainIsRow, <1>1, <1>2, <1>3, <1>4, <1>5

Rows(table) == \A c \in DOMAIN table : Row(table[c])

LEMMA TakingRows ==
    ASSUME NEW command, Row(command)
    PROVE  /\ \A x \in Names : Row(Taking(command, <<x>>, <<>>))
           /\ \A x, y \in Names : Row(Taking(command, <<x, y>>, <<>>))
           /\ \A u \in Names \ EnvArgs : Row(Taking(command, <<>>, <<u>>))
           /\ \A u, v \in Names \ EnvArgs : Row(Taking(command, <<>>, <<u, v>>))
           /\ \A x \in Names, u \in Names \ EnvArgs : Row(Taking(command, <<x>>, <<u>>))
           /\ \A x, y \in Names, u \in Names \ EnvArgs :
                 Row(Taking(command, <<x, y>>, <<u>>))
           /\ \A x, y, z \in Names, u \in Names \ EnvArgs :
                 Row(Taking(command, <<x, y, z>>, <<u>>))
<1>1. /\ <<>> \in Seq(Names) /\ <<>> \in Seq(Names \ EnvArgs)
      /\ \A x \in Names : <<x>> \in Seq(Names)
      /\ \A x, y \in Names : <<x, y>> \in Seq(Names)
      /\ \A x, y, z \in Names : <<x, y, z>> \in Seq(Names)
      /\ \A u \in Names \ EnvArgs : <<u>> \in Seq(Names \ EnvArgs)
      /\ \A u, v \in Names \ EnvArgs : <<u, v>> \in Seq(Names \ EnvArgs)
  OBVIOUS
<1> QED
  BY <1>1, TakingIsRow

LEMMA NamesInUse ==
    /\ {"TOKEN", "PASSCODE", "USERNAME", "PASSWORD", "SERVICE", "TENANT_ID", "SKIP_APPS",
        "SERVICE_PLAN"} \subseteq Names
    /\ {"TENANT", "TENANT_ID", "METADATA", "PARAMS", "APP_NAME", "APP_INSTANCE"}
          \subseteq Names \ EnvArgs
  BY DEF Names, EnvArgs

LEMMA GenericRows == Rows(GenericCommands)
<1>1. DOMAIN GenericCommands = {"help", "version"}
  BY DEF GenericCommands
<1>2. /\ Row(GenericCommands.help) /\ Row(GenericCommands.version)
  BY BasicRows, TakingRows, FlagIsRow, NamesInUse DEF GenericCommands
<1> QED
  BY <1>1, <1>2 DEF Rows

LEMMA SetupRows == Rows(SetupCommands)
<1>1. DOMAIN SetupCommands = {"setupList", "setup", "setupLocal", "setupCleanCache"}
  BY DEF SetupCommands
<1>2. /\ Row(SetupCommands.setupList) /\ Row(SetupCommands.setup)
      /\ Row(SetupCommands.setupLocal) /\ Row(SetupCommands.setupCleanCache)
  BY BasicRows, TakingRows, FlagIsRow, NamesInUse DEF SetupCommands
<1> QED
  BY <1>1, <1>2 DEF Rows

LEMMA UaaRows == Rows(UaaCommands)
<1>1. DOMAIN UaaCommands = {"uaaDecode", "uaaClient", "uaaPasscode", "uaaUser",
            "uaaServiceClient", "uaaServicePasscode", "uaaServiceUser"}
  BY DEF UaaCommands
<1>2. /\ Row(UaaCommands.uaaDecode) /\ Row(UaaCommands.uaaClient)
      /\ Row(UaaCommands.uaaPasscode) /\ Row(UaaCommands.uaaUser)
      /\ Row(UaaCommands.uaaServiceClient) /\ Row(UaaCommands.uaaServicePasscode)
      /\ Row(UaaCommands.uaaServiceUser)
  BY BasicRows, TakingRows, FlagIsRow, NamesInUse DEF UaaCommands
<1> QED
  BY <1>1, <1>2 DEF Rows

LEMMA RegistryRows == Rows(RegistryCommands)
<1>1. DOMAIN RegistryCommands = {"registryList", "registryLongList",
            "registryServiceConfig", "registryUpdate", "registryUpdateAll",
            "registryUpdateUrl", "registryMigrate", "registryOffboard",
            "registryOffboardSkip"}
  BY DEF RegistryCommands
<1>2. /\ Row(RegistryCommands.registryList) /\ Row(RegistryCommands.registryLongList)
      /\ Row(RegistryCommands.registryServiceConfig)
      /\ Row(RegistryCommands.registryUpdate) /\ Row(RegistryCommands.registryUpdateAll)
      /\ Row(RegistryCommands.registryUpdateUrl) /\ Row(RegistryCommands.registryMigrate)
      /\ Row(RegistryCommands.registryOffboard)
      /\ Row(RegistryCommands.registryOffboardSkip)
  BY BasicRows, TakingRows, FlagIsRow, NamesInUse DEF RegistryCommands
<1> QED
  BY <1>1, <1>2 DEF Rows

LEMMA CdsRows == Rows(CdsCommands)
<1>1. DOMAIN CdsCommands = {"cdsList", "cdsLongList", "cdsOnboardTenant",
            "cdsUpgradeTenant", "cdsUpgradeAll", "cdsOffboardTenant", "cdsOffboardAll"}
  BY DEF CdsCommands
<1>2. /\ Row(CdsCommands.cdsList) /\ Row(CdsCommands.cdsLongList)
      /\ Row(CdsCommands.cdsOnboardTenant) /\ Row(CdsCommands.cdsUpgradeTenant)
      /\ Row(CdsCommands.cdsUpgradeAll) /\ Row(CdsCommands.cdsOffboardTenant)
      /\ Row(CdsCommands.cdsOffboardAll)
  BY BasicRows, TakingRows, FlagIsRow, NamesInUse DEF CdsCommands
<1> QED
  BY <1>1, <1>2 DEF Rows

LEMMA HdiRows == Rows(HdiCommands)
<1>1. DOMAIN HdiCommands = {"hdiList", "hdiLongList", "hdiTunnelTenant"}
  BY DEF HdiCommands
<1>2. /\ Row(HdiCommands.hdiList) /\ Row(HdiCommands.hdiLongList)
      /\ Row(HdiCommands.hdiTunnelTenant)
  BY BasicRows, TakingRows, FlagIsRow, NamesInUse DEF HdiCommands
<1> QED
  BY <1>1, <1>2 DEF Rows

LEMMA SvmRows == Rows(SvmCommands)
<1>1. DOMAIN SvmCommands = {"svmList", "svmLongList", "svmMakeBindingsSingle",
            "svmMakeBindingsDouble", "svmDeleteBindings", "svmDelete", "svmRestart",
            "svmRestartSkip", "svmRepair", "svmFresh", "svmRefresh"}
  BY DEF SvmCommands
<1>2. /\ Row(SvmCommands.svmList) /\ Row(SvmCommands.svmLongList)
      /\ Row(SvmCommands.svmMakeBindingsSingle) /\ Row(SvmCommands.svmMakeBindingsDouble)
      /\ Row(SvmCommands.svmDeleteBindings) /\ Row(SvmCommands.svmDelete)
      /\ Row(SvmCommands.svmRestart) /\ Row(SvmCommands.svmRestartSkip)
      /\ Row(SvmCommands.svmRepair) /\ Row(SvmCommands.svmFresh)
      /\ Row(SvmCommands.svmRefresh)
  BY BasicRows, TakingRows, FlagIsRow, NamesInUse DEF SvmCommands
<1> QED
  BY <1>1, <1>2 DEF Rows

LEMMA SrvRows == Rows(SrvCommands)
<1>1. DOMAIN SrvCommands = {"srvEnvironment", "srvCertificates", "srvDebug"}
  BY DEF SrvCommands
<1>2. /\ Row(SrvCommands.srvEnvironment) /\ Row(SrvCommands.srvCertificates)
      /\ Row(SrvCommands.srvDebug)
  BY BasicRows, TakingRows, FlagIsRow, NamesInUse DEF SrvCommands
<1> QED
  BY <1>1, <1>2 DEF Rows

\* Every command is a row, whichever group it is looked up in.
LEMMA CommandRows == \A c \in DOMAIN Commands : Row(Commands[c])
<1>1. \A group \in Groups : Rows(group)
  BY GenericRows, SetupRows, UaaRows, RegistryRows, CdsRows, HdiRows, SvmRows, SrvRows
  DEF Groups
<1> SUFFICES ASSUME NEW c \in DOMAIN Commands PROVE Row(Commands[c])
  OBVIOUS
<1> DEFINE group == CHOOSE g \in Groups : c \in DOMAIN g
<1>2. c \in UNION {DOMAIN g : g \in Groups} /\ Commands[c] = group[c]
  BY DEF Commands
<1>3. group \in Groups /\ c \in DOMAIN group
  BY <1>2
<1> HIDE DEF group
<1> QED
  BY <1>1, <1>2, <1>3 DEF Rows

\* Commands of the setup never ask for consent, which their dialogue would skip.
LEMMA SetupIsHarmless ==
    \A c \in {"setup", "setupLocal", "setupCleanCache"} : Commands[c].danger = FALSE
<1> SUFFICES ASSUME NEW c \in {"setup", "setupLocal", "setupCleanCache"}
             PROVE  Commands[c].danger = FALSE
  OBVIOUS
<1> DEFINE group == CHOOSE g \in Groups : c \in DOMAIN g
<1>1. c \in DOMAIN SetupCommands /\ SetupCommands[c] = WithoutContext
  BY DEF SetupCommands
<1>2. /\ c \notin DOMAIN GenericCommands /\ c \notin DOMAIN UaaCommands
      /\ c \notin DOMAIN RegistryCommands /\ c \notin DOMAIN CdsCommands
      /\ c \notin DOMAIN HdiCommands /\ c \notin DOMAIN SvmCommands
      /\ c \notin DOMAIN SrvCommands
  BY DEF GenericCommands, UaaCommands, RegistryCommands, CdsCommands, HdiCommands,
         SvmCommands, SrvCommands
<1>3. SetupCommands \in Groups /\ \A g \in Groups : c \in DOMAIN g => g = SetupCommands
  BY <1>2 DEF Groups
<1>4. group = SetupCommands
  BY <1>1, <1>3
<1>5. c \in DOMAIN Commands /\ Commands[c] = group[c]
  BY <1>1, <1>3 DEF Commands
<1>6. WithoutContext.danger = FALSE
  BY DEF WithoutContext, Plain
<1> HIDE DEF group
<1> QED
  BY <1>1, <1>4, <1>5, <1>6

-----------------------------------------------------------------------------
(* The arguments of a call                                                 *)

\* A value is put at its position, or behind the others if it is further on.
LEMMA Spliced ==
    ASSUME NEW S, NEW args \in Seq(S), NEW i \in Nat \ {0}, NEW value \in S
    PROVE  /\ Splice(args, i, value) \in Seq(S)
           /\ Len(Splice(args, i, value)) = Len(args) + 1
           /\ i <= Len(args) + 1 =>
                \A j \in 1..Len(args) + 1 :
                    Splice(args, i, value)[j] = IF j < i THEN args[j]
                                                ELSE IF j = i THEN value ELSE args[j - 1]
<1> DEFINE at == IF i <= Len(args) THEN i ELSE Len(args) + 1
           head == SubSeq(args, 1, at - 1)
           tail == SubSeq(args, at, Len(args))
<1>1. at \in 1..Len(args) + 1 /\ (i <= Len(args) + 1 => at = i)
  OBVIOUS
<1>2. Splice(args, i, value) = head \o <<value>> \o tail
  BY DEF Splice, InsertAt
<1> HIDE DEF at
<1>3. /\ head \in Seq(S) /\ Len(head) = at - 1
      /\ \A j \in 1..at - 1 : head[j] = args[j]
  BY <1>1
<1>4. /\ tail \in Seq(S) /\ Len(tail) = Len(args) + 1 - at
      /\ \A j \in 1..Len(args) + 1 - at : tail[j] = args[at + j - 1]
  BY <1>1
<1>5. <<value>> \in Seq(S) /\ Len(<<value>>) = 1 /\ <<value>>[1] = value
  OBVIOUS
<1> HIDE DEF head, tail
<1> DEFINE front == head \o <<value>>
<1>6. /\ front \in Seq(S) /\ Len(front) = at
      /\ \A j \in 1..at : front[j] = IF j < at THEN head[j] ELSE value
  BY <1>1, <1>3, <1>5
<1> HIDE DEF front
<1>7. /\ front \o tail \in Seq(S) /\ Len(front \o tail) = Len(args) + 1
      /\ \A j \in 1..Len(args) + 1 :
            (front \o tail)[j] = IF j <= at THEN front[j] ELSE tail[j - at]
  <2>1. Len(front) + Len(tail) = Len(args) + 1 /\ Len(front) = at
    BY <1>1, <1>4, <1>6
  <2>2. /\ front \o tail \in Seq(S) /\ Len(front \o tail) = Len(front) + Len(tail)
        /\ \A j \in 1..Len(front) + Len(tail) :
            (front \o tail)[j] = IF j <= Len(front) THEN front[j] ELSE tail[j - Len(front)]
    BY <1>4, <1>6, ConcatProperties, Zenon
  <2> QED
    BY <2>1, <2>2
<1>8. Splice(args, i, value) = front \o tail
  BY <1>2 DEF front
<1>9. ASSUME NEW j \in 1..Len(args) + 1
      PROVE  (front \o tail)[j] = IF j < at THEN args[j]
                                  ELSE IF j = at THEN value ELSE args[j - 1]
  <2>1. CASE j < at
    BY <1>1, <1>3, <1>6, <1>7, <2>1
  <2>2. CASE j = at
    BY <1>1, <1>6, <1>7, <2>2
  <2>3. CASE j > at
    <3>1. j - at \in 1..Len(args) + 1 - at /\ at + (j - at) - 1 = j - 1
      BY <1>1, <2>3
    <3>2. tail[j - at] = args[at + (j - at) - 1]
      BY <1>4, <3>1
    <3>3. (front \o tail)[j] = tail[j - at]
      BY <1>1, <1>7, <2>3
    <3>4. (front \o tail)[j] = args[j - 1]
      BY <3>1, <3>2, <3>3
    <3>5. ~(j < at) /\ j # at
      BY <1>1, <2>3
    <3> QED
      BY <3>4, <3>5
  <2>4. j < at \/ j = at \/ j > at
    BY <1>1
  <2> QED
    BY <2>1, <2>2, <2>3, <2>4
<1> QED
  BY <1>1, <1>7, <1>8, <1>9

\* A function that is defined by recursion over 0..n exists.
Solves(m, S, n, base, step) ==
    /\ m \in [0..n -> S] /\ m[0] = base
    /\ \A i \in 1..n : m[i] = step[<<i, m[i - 1]>>]

LEMMA Recursion ==
    ASSUME NEW S, NEW n \in Nat, NEW base \in S, NEW step \in [(1..n) \X S -> S]
    PROVE  \E m : Solves(m, S, n, base, step)
<1> DEFINE Unsolved == {k \in 0..n : \A m : ~Solves(m, S, k, base, step)}
<1>1. Solves([i \in 0..0 |-> base], S, 0, base, step)
  BY DEF Solves
<1>2. Unsolved = {}
  <2> SUFFICES ASSUME Unsolved # {} PROVE FALSE
    OBVIOUS
  <2>1. Unsolved \subseteq Nat
    OBVIOUS
  <2>2. PICK k \in Unsolved : \A l \in Unsolved : k <= l
    <3> HIDE DEF Unsolved
    <3> QED
      BY <2>1, Least
  <2>3. k # 0
    BY <1>1, <2>2
  <2>4. k - 1 \in 0..n /\ k - 1 \notin Unsolved /\ k \in 1..n
    <3>1. k \in 0..n
      OBVIOUS
    <3> HIDE DEF Unsolved
    <3> QED
      BY <2>2, <2>3, <3>1
  <2>5. PICK m : Solves(m, S, k - 1, base, step)
    BY <2>4
  <2> DEFINE next == [i \in 0..k |-> IF i = k THEN step[<<k, m[k - 1]>>] ELSE m[i]]
  <2>6. m[k - 1] \in S
    BY <2>4, <2>5 DEF Solves
  <2>7. step[<<k, m[k - 1]>>] \in S
    BY <2>4, <2>6
  <2>8. next \in [0..k -> S] /\ next[0] = base
    BY <2>4, <2>5, <2>7 DEF Solves
  <2>9. ASSUME NEW i \in 1..k PROVE next[i] = step[<<i, next[i - 1]>>]
    <3>1. i - 1 \in 0..k /\ i - 1 # k /\ i \in 0..k
      BY <2>4
    <3>2. next[i - 1] = m[i - 1]
      BY <3>1
    <3>3. i # k => i \in 1..k - 1
      BY <2>4
    <3> QED
      BY <2>5, <3>1, <3>2, <3>3 DEF Solves
  <2>10. Solves(next, S, k, base, step)
    BY <2>8, <2>9 DEF Solves
  <2> QED
    BY <2>2, <2>10
<1>3. n \in 0..n
  OBVIOUS
<1> QED
  BY <1>2, <1>3

\* The arguments up to position i that have to be typed.
Own(all, env, i) == Cardinality({j \in 1..i : all[j] \notin env})

\* Own counts one position after the other.
LEMMA OwnCounts ==
    ASSUME NEW all, NEW env
    PROVE  /\ Own(all, env, 0) = 0
           /\ \A i \in Nat : Own(all, env, i) \in 0..i
           /\ \A i \in Nat \ {0} :
                Own(all, env, i) = IF all[i] \in env THEN Own(all, env, i - 1)
                                   ELSE Own(all, env, i - 1) + 1
<1> DEFINE O(i) == {j \in 1..i : all[j] \notin env}
<1>1. O(0) = {}
  OBVIOUS
<1>2. ASSUME NEW i \in Nat
      PROVE  IsFiniteSet(O(i)) /\ Cardinality(O(i)) \in Nat /\ Cardinality(O(i)) <= i
  <2>1. IsFiniteSet(1..i) /\ Cardinality(1..i) = i
    BY FS_Interval
  <2>2. O(i) \subseteq 1..i
    OBVIOUS
  <2> HIDE DEF O
  <2> QED
    BY <2>1, <2>2, FS_Subset, FS_CardinalityType
<1>3. ASSUME NEW i \in Nat \ {0}
      PROVE  Cardinality(O(i)) = IF all[i] \in env THEN Cardinality(O(i - 1))
                                 ELSE Cardinality(O(i - 1)) + 1
  <2>1. i - 1 \in Nat /\ 1..i = (1..i - 1) \cup {i} /\ i \notin 1..i - 1
    OBVIOUS
  <2>2. O(i) = IF all[i] \in env THEN O(i - 1) ELSE O(i - 1) \cup {i}
    BY <2>1
  <2>3. i \notin O(i - 1)
    BY <2>1
  <2> HIDE DEF O
  <2> QED
    BY <1>2, <2>1, <2>2, <2>3, FS_AddElement
<1> HIDE DEF O
<1>4. \A i \in Nat : Cardinality(O(i)) \in 0..i
  BY <1>2
<1> QED
  BY <1>1, <1>3, <1>4, FS_EmptySet DEF Own, O

\* Own grows by at most one with every position, so also over several.
LEMMA OwnGrows ==
    ASSUME NEW all, NEW env, NEW k \in Nat
    PROVE  \A i \in Nat : i <= k =>
              /\ Own(all, env, i) <= Own(all, env, k)
              /\ (\A j \in i + 1..k : all[j] \notin env) =>
                    Own(all, env, k) = Own(all, env, i) + k - i
<1> DEFINE O(i) == Own(all, env, i)
           Grows(j, i) == /\ O(j) <= O(i)
                          /\ (\A l \in j + 1..i : all[l] \notin env) => O(i) = O(j) + i - j
           S == {i \in Nat : \E j \in Nat : j <= i /\ ~Grows(j, i)}
<1>1. /\ \A i \in Nat : O(i) \in 0..i
      /\ \A i \in Nat \ {0} : O(i) = IF all[i] \in env THEN O(i - 1) ELSE O(i - 1) + 1
  BY OwnCounts
<1> HIDE DEF O, Grows
<1>2. S = {}
  <2> SUFFICES ASSUME S # {} PROVE FALSE
    OBVIOUS
  <2>1. S \subseteq Nat
    OBVIOUS
  <2>2. PICK i \in S : \A l \in S : i <= l
    <3> HIDE DEF S
    <3> QED
      BY <2>1, Least
  <2>3. PICK j \in Nat : j <= i /\ ~Grows(j, i)
    BY <2>2
  <2>4. i \in Nat
    OBVIOUS
  <2>5. i # j
    <3>1. O(i) \in Nat /\ ~(\E l \in i + 1..i : TRUE)
      BY <1>1, <2>4
    <3>2. Grows(i, i)
      BY <2>4, <3>1 DEF Grows
    <3> QED
      BY <2>3, <3>2
  <2>6. i \in Nat \ {0} /\ i - 1 \in Nat /\ j <= i - 1 /\ i - 1 \notin S
    <3>1. i \in Nat \ {0} /\ i - 1 \in Nat /\ j <= i - 1 /\ ~(i <= i - 1)
      BY <2>3, <2>4, <2>5
    <3> HIDE DEF S
    <3> QED
      BY <2>2, <3>1
  <2>7. Grows(j, i - 1)
    BY <2>6
  <2>8. O(i) = IF all[i] \in env THEN O(i - 1) ELSE O(i - 1) + 1
    BY <1>1, <2>6
  <2>9. O(i) \in Nat /\ O(i - 1) \in Nat /\ O(j) \in Nat
    BY <1>1, <2>6
  <2>10. O(j) <= O(i)
    BY <2>7, <2>8, <2>9 DEF Grows
  <2>11. ASSUME \A l \in j + 1..i : all[l] \notin env
         PROVE  O(i) = O(j) + i - j
    <3>1. \A l \in j + 1..i - 1 : l \in j + 1..i
      BY <2>6
    <3>2. i \in j + 1..i
      BY <2>6
    <3>3. O(i - 1) = O(j) + (i - 1) - j
      BY <2>7, <2>11, <3>1 DEF Grows
    <3>4. O(i) = O(i - 1) + 1
      BY <2>8, <2>11, <3>2
    <3> QED
      BY <2>6, <2>9, <3>3, <3>4
  <2> QED
    BY <2>3, <2>10, <2>11 DEF Grows
<1>3. \A i \in Nat : i <= k => Grows(i, k)
  BY <1>2
<1> QED
  BY <1>3 DEF Grows, O

\* The arguments a command takes: names other than what may be typed, of which
\* those with an environment variable are required.
LEMMA ArgumentsTaken ==
    ASSUME NEW c \in DOMAIN Commands
    PROVE  /\ AllPassArgs(c) \in Seq(Names)
           /\ Len(Commands[c].required) \in 0..Len(AllPassArgs(c))
           /\ \A i \in Len(Commands[c].required) + 1..Len(AllPassArgs(c)) :
                 AllPassArgs(c)[i] \notin EnvArgs
<1> DEFINE r == Commands[c].required
           o == Commands[c].optional
<1>1. r \in Seq(Names) /\ o \in Seq(Names \ EnvArgs)
  BY CommandRows DEF Row
<1>2. AllPassArgs(c) = r \o o
  BY DEF AllPassArgs
<1> HIDE DEF r, o
<1>3. o \in Seq(Names) /\ Len(o) \in Nat /\ Len(r) \in Nat
  BY <1>1
<1>4. /\ r \o o \in Seq(Names) /\ Len(r \o o) = Len(r) + Len(o)
      /\ \A i \in Len(r) + 1..Len(r) + Len(o) : (r \o o)[i] = o[i - Len(r)]
  BY <1>1, <1>3
<1>5. ASSUME NEW i \in Len(r) + 1..Len(r) + Len(o) PROVE (r \o o)[i] \notin EnvArgs
  <2>1. i - Len(r) \in 1..Len(o)
    BY <1>3
  <2>2. o[i - Len(r)] \in Names \ EnvArgs
    BY <1>1, <2>1
  <2> QED
    BY <1>4, <2>2
<1>6. Len(r) \in 0..Len(r \o o)
  BY <1>3, <1>4
<1> QED
  BY <1>2, <1>4, <1>5, <1>6 DEF r

\* The values that arguments may have.
Arg == Range(Typed) \cup EnvArgs

\* The first arguments of those that are typed.
LEMMA Beginning ==
    ASSUME NEW S, NEW s \in Seq(S), NEW k \in 0..Len(s)
    PROVE  /\ SubSeq(s, 1, k) \in Seq(S) /\ Len(SubSeq(s, 1, k)) = k
           /\ \A i \in 1..k : SubSeq(s, 1, k)[i] = s[i]
  OBVIOUS

\* No argument that is typed is mistaken for a name.
LEMMA TypedArgs ==
    /\ Typed \in Seq(Arg) /\ Len(Typed) = 5
    /\ \A i \in 1..5 : Typed[i] \in Range(Typed) /\ Typed[i] \notin Names
<1>1. Range(Typed) = {"1st", "2nd", "3rd", "4th", "5th"}
  BY DEF Range, Typed
<1>2. Typed \in Seq(Range(Typed)) /\ Len(Typed) = 5 /\ \A i \in 1..5 : Typed[i] \in Range(Typed)
  BY <1>1 DEF Typed
<1>3. \A x \in Range(Typed) : x \notin Names
  BY <1>1 DEF Names
<1> HIDE DEF Typed
<1>4. Typed \in Seq(Arg)
  BY <1>2 DEF Arg
<1> QED
  BY <1>2, <1>3, <1>4

\* The sequences that PassArgs goes through, from one position to the next.
Mixing(mixed, all, env, typed) ==
    /\ mixed[0] = SubSeq(Typed, 1, typed)
    /\ \A i \in 1..Len(all) :
          mixed[i] = IF all[i] \in env THEN Splice(mixed[i - 1], i, all[i])
                     ELSE mixed[i - 1]

\* PassArgs is the last of such sequences.
LEMMA Mixed ==
    ASSUME NEW c \in DOMAIN Commands, NEW typed \in 0..5, NEW env \in SUBSET EnvArgs
    PROVE  \E mixed :
              /\ PassArgs(c, typed, env) = mixed[Len(AllPassArgs(c))]
              /\ Mixing(mixed, AllPassArgs(c), env, typed)
<1> DEFINE all == AllPassArgs(c)
           n == Len(all)
           base == SubSeq(Typed, 1, typed)
           next(i, args) == IF all[i] \in env THEN Splice(args, i, all[i]) ELSE args
           step == [pair \in (1..n) \X Seq(Arg) |-> next(pair[1], pair[2])]
<1>1. all \in Seq(Names) /\ n \in Nat
  BY ArgumentsTaken
<1>2. base \in Seq(Arg)
  BY TypedArgs, Beginning
<1> HIDE DEF all, n, base
<1>3. ASSUME NEW i \in 1..n, NEW args \in Seq(Arg) PROVE next(i, args) \in Seq(Arg)
  <2>1. CASE all[i] \in env
    <3>1. all[i] \in Arg /\ i \in Nat \ {0}
      BY <1>1, <2>1 DEF Arg
    <3> QED
      BY <2>1, <3>1, Spliced
  <2>2. CASE all[i] \notin env
    BY <2>2
  <2> QED
    BY <2>1, <2>2
<1> HIDE DEF next
<1>4. step \in [(1..n) \X Seq(Arg) -> Seq(Arg)]
  BY <1>3
<1> DEFINE Solution(m) ==
             m = [i \in 0..n |-> IF i = 0 THEN base ELSE next(i, m[i - 1])]
<1>5. PICK m : Solves(m, Seq(Arg), n, base, step)
  <2> HIDE DEF step
  <2> QED
    BY <1>1, <1>2, <1>4, Recursion
<1>6. Solution(m)
  <2>1. ASSUME NEW i \in 0..n
        PROVE  m[i] = IF i = 0 THEN base ELSE next(i, m[i - 1])
    <3>1. i # 0 => i \in 1..n /\ m[i - 1] \in Seq(Arg)
      BY <1>1, <1>5 DEF Solves
    <3> QED
      BY <1>5, <3>1 DEF Solves
  <2>2. m = [i \in 0..n |-> m[i]]
    BY <1>5 DEF Solves
  <2> QED
    BY <2>1, <2>2
<1> DEFINE mixed == CHOOSE f : Solution(f)
<1>7. Solution(mixed)
  <2> HIDE DEF Solution
  <2> QED
    BY <1>6
<1>8. PassArgs(c, typed, env) = mixed[n]
  BY DEF PassArgs, all, n, base, next
<1> HIDE DEF mixed
<1>9. /\ mixed[0] = base
      /\ \A i \in 1..n : mixed[i] = next(i, mixed[i - 1])
  <2>1. \A i \in 0..n : mixed[i] = IF i = 0 THEN base ELSE next(i, mixed[i - 1])
    BY <1>7
  <2>2. 0 \in 0..n /\ \A i \in 1..n : i \in 0..n /\ i # 0
    BY <1>1
  <2> QED
    BY <2>1, <2>2
<1> QED
  BY <1>8, <1>9 DEF Mixing, next, all, n, base

\* The arguments that are typed come first.
LEMMA TypedStart ==
    ASSUME NEW typed \in 0..5
    PROVE  /\ SubSeq(Typed, 1, typed) \in Seq(Arg)
           /\ Len(SubSeq(Typed, 1, typed)) = typed
           /\ \A i \in 1..typed : SubSeq(Typed, 1, typed)[i] = Typed[i]
<1>1. Typed \in Seq(Arg) /\ typed \in 0..Len(Typed)
  BY TypedArgs
<1>2. SubSeq(Typed, 1, typed) \in Seq(Arg)
  BY <1>1, Beginning
<1>3. Len(SubSeq(Typed, 1, typed)) = typed
  BY <1>1, Beginning
<1>4. \A i \in 1..typed : SubSeq(Typed, 1, typed)[i] = Typed[i]
  BY <1>1, Beginning
<1> QED
  BY <1>2, <1>3, <1>4

\* One position more.
LEMMA OwnStep ==
    ASSUME NEW all, NEW env, NEW i \in Nat \ {0}
    PROVE  /\ Own(all, env, i) \in Nat /\ Own(all, env, i) <= i
           /\ Own(all, env, i - 1) \in Nat /\ Own(all, env, i - 1) <= i - 1
           /\ all[i] \in env => Own(all, env, i) = Own(all, env, i - 1)
           /\ all[i] \notin env => Own(all, env, i) = Own(all, env, i - 1) + 1
<1>1. i - 1 \in Nat
  OBVIOUS
<1> DEFINE k == i - 1
<1> HIDE DEF k
<1>2. Own(all, env, k) \in 0..k
  BY <1>1, OwnCounts DEF k
<1>3. Own(all, env, i) \in 0..i
  BY OwnCounts
<1>4. Own(all, env, i) = IF all[i] \in env THEN Own(all, env, i - 1)
                        ELSE Own(all, env, i - 1) + 1
  BY OwnCounts
<1> QED
  BY <1>1, <1>2, <1>3, <1>4 DEF k

\* After position i there are the arguments that were typed and those from the
\* environment so far.
LEMMA MixedLength ==
    ASSUME NEW all \in Seq(Names), NEW env \in SUBSET EnvArgs, NEW typed \in 0..5, NEW mixed,
           Mixing(mixed, all, env, typed)
    PROVE  \A i \in 0..Len(all) : /\ mixed[i] \in Seq(Arg)
                                  /\ Len(mixed[i]) = typed + i - Own(all, env, i)
<1> DEFINE Right(i) == /\ mixed[i] \in Seq(Arg)
                       /\ Len(mixed[i]) = typed + i - Own(all, env, i)
           Wrong == {i \in 0..Len(all) : ~Right(i)}
<1>1. Len(all) \in Nat
  OBVIOUS
<1>2. Right(0)
  <2>0. SubSeq(Typed, 1, typed) \in Seq(Arg) /\ Len(SubSeq(Typed, 1, typed)) = typed
    BY TypedStart
  <2>1. mixed[0] \in Seq(Arg) /\ Len(mixed[0]) = typed
    BY <2>0 DEF Mixing
  <2>2. Own(all, env, 0) = 0
    BY OwnCounts
  <2> QED
    BY <2>1, <2>2
<1>3. Wrong = {}
  <2> SUFFICES ASSUME Wrong # {} PROVE FALSE
    OBVIOUS
  <2>1. PICK i \in Wrong : \A l \in Wrong : i <= l
    <3>1. Wrong \subseteq Nat
      OBVIOUS
    <3> HIDE DEF Wrong
    <3> QED
      BY <3>1, Least
  <2>2. i \in 0..Len(all) /\ ~Right(i)
    OBVIOUS
  <2> HIDE DEF Wrong, Right
  <2>3. i # 0
    BY <1>2, <2>2
  <2>4. i \in 1..Len(all) /\ i \in Nat \ {0} /\ i - 1 \in 0..Len(all) /\ ~(i <= i - 1)
    BY <1>1, <2>2, <2>3
  <2>5. Right(i - 1)
    BY <2>1, <2>4 DEF Wrong
  <2>6. /\ Own(all, env, i) \in Nat /\ Own(all, env, i) <= i
        /\ Own(all, env, i - 1) \in Nat /\ Own(all, env, i - 1) <= i - 1
    BY <2>4, OwnStep
  <2>7. all[i] \in env => Own(all, env, i) = Own(all, env, i - 1)
    BY <2>4, OwnStep
  <2>8. all[i] \notin env => Own(all, env, i) = Own(all, env, i - 1) + 1
    BY <2>4, OwnStep
  <2>9. CASE all[i] \in env
    <3>1. all[i] \in Arg /\ mixed[i] = Splice(mixed[i - 1], i, all[i])
      BY <2>4, <2>9 DEF Arg, Mixing
    <3>2. mixed[i - 1] \in Seq(Arg) /\ i \in Nat \ {0}
      BY <2>4, <2>5 DEF Right
    <3> DEFINE before == mixed[i - 1]
    <3> HIDE DEF before
    <3>a. before \in Seq(Arg)
      BY <3>2 DEF before
    <3>b. Splice(before, i, all[i]) \in Seq(Arg)
      BY <3>1, <3>2, <3>a, Spliced
    <3>3. Len(Splice(before, i, all[i])) = Len(before) + 1
      BY <3>1, <3>2, <3>a, Spliced
    <3>4. mixed[i] \in Seq(Arg) /\ Len(mixed[i]) = Len(mixed[i - 1]) + 1
      BY <3>1, <3>b, <3>3 DEF before
    <3> QED
      BY <2>2, <2>4, <2>5, <2>6, <2>7, <2>8, <2>9, <3>4 DEF Right
  <2>10. CASE all[i] \notin env
    <3>1. mixed[i] = mixed[i - 1]
      BY <2>4, <2>10 DEF Mixing
    <3> QED
      BY <2>2, <2>4, <2>5, <2>6, <2>7, <2>8, <2>10, <3>1 DEF Right
  <2> QED
    BY <2>9, <2>10
<1> QED
  BY <1>3

\* No environment variable can stand in for an argument after the r-th.
NoneAfter(all, env, r) == \A i \in r + 1..Len(all) : all[i] \notin env

\* Up to position i there are the arguments that belong there, after it the rest
\* of those typed.
Ordered(mixed, all, env) ==
    \A i \in 0..Len(all) : \A j \in 1..Len(mixed[i]) :
        mixed[i][j] = IF j > i THEN Typed[j - (i - Own(all, env, i))]
                      ELSE IF all[j] \in env THEN all[j]
                      ELSE Typed[Own(all, env, j)]

\* If the arguments that have to be typed up to the r-th are, all are in order.
LEMMA MixedContent ==
    ASSUME NEW all \in Seq(Names), NEW env \in SUBSET EnvArgs, NEW typed \in 0..5, NEW mixed,
           Mixing(mixed, all, env, typed),
           NEW r \in 0..Len(all), Own(all, env, r) <= typed, NoneAfter(all, env, r)
    PROVE  Ordered(mixed, all, env)
<1> DEFINE O(i) == Own(all, env, i)
           Placed(i, j) == mixed[i][j] = IF j > i THEN Typed[j - (i - O(i))]
                                         ELSE IF all[j] \in env THEN all[j] ELSE Typed[O(j)]
           Right(i) == \A j \in 1..Len(mixed[i]) : Placed(i, j)
           Wrong == {i \in 0..Len(all) : ~Right(i)}
<1>1. Len(all) \in Nat
  OBVIOUS
<1>5. \A i \in 0..Len(all) : mixed[i] \in Seq(Arg) /\ Len(mixed[i]) = typed + i - O(i)
  BY MixedLength
<1>6. \A i \in Nat : O(i) \in 0..i
  BY OwnCounts
<1>7. ASSUME NEW i \in Nat \ {0}
      PROVE  /\ O(i) \in Nat /\ O(i) <= i /\ O(i - 1) \in Nat /\ O(i - 1) <= i - 1
             /\ O(i) = IF all[i] \in env THEN O(i - 1) ELSE O(i - 1) + 1
  BY OwnStep
<1>8. \A i, k \in Nat : i <= k => O(i) <= O(k)
  BY OwnGrows
<1>2. O(0) = 0
  BY OwnCounts
<1>3. Right(0)
  <2>1. \A j \in 1..typed : mixed[0][j] = Typed[j]
    BY TypedArgs, Beginning DEF Mixing
  <2>2. Len(mixed[0]) = typed
    BY TypedArgs, Beginning DEF Mixing
  <2>3. \A j \in 1..typed : j > 0 /\ j - (0 - 0) = j
    OBVIOUS
  <2> QED
    BY <1>2, <2>1, <2>2, <2>3
<1> HIDE DEF O
<1>4. Wrong = {}
  <2> SUFFICES ASSUME Wrong # {} PROVE FALSE
    OBVIOUS
  <2>1. PICK i \in Wrong : \A l \in Wrong : i <= l
    <3>1. Wrong \subseteq Nat
      OBVIOUS
    <3> HIDE DEF Wrong
    <3> QED
      BY <3>1, Least
  <2>2. i \in 0..Len(all) /\ ~Right(i)
    OBVIOUS
  <2> HIDE DEF Wrong, Right
  <2>3. i # 0
    BY <1>3, <2>2
  <2>4. i \in 1..Len(all) /\ i \in Nat \ {0} /\ i - 1 \in 0..Len(all) /\ ~(i <= i - 1)
    BY <1>1, <2>2, <2>3
  <2>5. Right(i - 1)
    BY <2>1, <2>4 DEF Wrong
  <2>a. O(i) \in Nat /\ O(i) <= i /\ O(i - 1) \in Nat /\ O(i - 1) <= i - 1
    BY <1>7, <2>4
  <2>b. O(i) = IF all[i] \in env THEN O(i - 1) ELSE O(i - 1) + 1
    BY <1>7, <2>4
  <2>c. /\ mixed[i - 1] \in Seq(Arg) /\ Len(mixed[i - 1]) = typed + (i - 1) - O(i - 1)
        /\ Len(mixed[i]) = typed + i - O(i)
    BY <1>5, <2>4
  <2>6. /\ O(i) \in Nat /\ O(i) <= i /\ O(i - 1) \in Nat /\ O(i - 1) <= i - 1
        /\ O(i) = IF all[i] \in env THEN O(i - 1) ELSE O(i - 1) + 1
        /\ mixed[i - 1] \in Seq(Arg) /\ Len(mixed[i - 1]) = typed + (i - 1) - O(i - 1)
        /\ Len(mixed[i]) = typed + i - O(i)
    BY <2>a, <2>b, <2>c
  <2>7. PICK j \in 1..Len(mixed[i]) : ~Placed(i, j)
    BY <2>2 DEF Right
  <2>8. CASE all[i] \in env
    <3>9. i <= r
      BY <1>1, <2>4, <2>8 DEF NoneAfter
    <3>10. O(i - 1) <= O(r) /\ O(r) <= typed /\ O(r) \in Nat
      BY <1>1, <1>6, <1>8, <2>4, <3>9 DEF O
    <3>1. O(i - 1) <= typed
      BY <2>4, <2>6, <3>10
    <3>11. O(i) = O(i - 1)
      BY <2>6, <2>8
    <3>2. i <= Len(mixed[i - 1]) + 1 /\ Len(mixed[i]) = Len(mixed[i - 1]) + 1
      BY <2>4, <2>6, <3>11, <3>1
    <3>3. all[i] \in Arg /\ mixed[i] = Splice(mixed[i - 1], i, all[i])
      BY <2>4, <2>8 DEF Arg, Mixing
    <3> DEFINE before == mixed[i - 1]
    <3> HIDE DEF before
    <3>12. before \in Seq(Arg) /\ i \in Nat \ {0} /\ i <= Len(before) + 1 /\ all[i] \in Arg
      BY <2>4, <2>6, <3>2, <3>3 DEF before
    <3> DEFINE value == all[i]
    <3> HIDE DEF value
    <3>15. value \in Arg
      BY <3>12 DEF value
    <3>13. \A k \in 1..Len(before) + 1 :
              Splice(before, i, value)[k] = IF k < i THEN before[k]
                                            ELSE IF k = i THEN value ELSE before[k - 1]
      BY <3>12, <3>15, Spliced
    <3>14. j \in 1..Len(before) + 1
      BY <3>2 DEF before
    <3>4. mixed[i][j] = IF j < i THEN mixed[i - 1][j]
                        ELSE IF j = i THEN all[i] ELSE mixed[i - 1][j - 1]
      BY <3>3, <3>13, <3>14 DEF before, value
    <3>5. CASE j < i
      <4>1. j \in 1..Len(mixed[i - 1]) /\ ~(j > i - 1) /\ ~(j > i)
        BY <2>4, <2>6, <3>2, <3>5
      <4>2. Placed(i - 1, j)
        BY <2>5, <4>1 DEF Right
      <4> QED
        BY <2>7, <3>4, <3>5, <4>1, <4>2
    <3>6. CASE j = i
      <4>1. ~(j > i) /\ ~(j < i)
        BY <2>4, <3>6
      <4> QED
        BY <2>7, <2>8, <3>4, <3>6, <4>1
    <3>7. CASE j > i
      <4>4. j \in Nat /\ i \in Nat /\ O(i) \in Nat /\ O(i - 1) \in Nat
        BY <2>4, <2>6
      <4>1. /\ j - 1 \in 1..Len(mixed[i - 1]) /\ j - 1 > i - 1 /\ ~(j < i) /\ j # i
            /\ (j - 1) - ((i - 1) - O(i - 1)) = j - (i - O(i))
        BY <2>4, <3>2, <3>7, <3>11, <4>4
      <4>2. Placed(i - 1, j - 1)
        BY <2>5, <4>1 DEF Right
      <4>3. mixed[i][j] = Typed[j - (i - O(i))]
        BY <3>4, <4>1, <4>2
      <4> QED
        BY <2>7, <3>7, <4>3
    <3>8. j < i \/ j = i \/ j > i
      BY <2>4, <2>6
    <3> QED
      BY <3>5, <3>6, <3>7, <3>8
  <2>9. CASE all[i] \notin env
    <3>1. mixed[i] = mixed[i - 1]
      BY <2>4, <2>9 DEF Mixing
    <3>2. Placed(i - 1, j)
      BY <2>5, <3>1 DEF Right
    <3>3. CASE j < i
      <4>1. ~(j > i - 1) /\ ~(j > i)
        BY <2>4, <2>6, <3>3
      <4> QED
        BY <2>7, <3>1, <3>2, <4>1
    <3>4. CASE j = i
      <4>1. /\ j > i - 1 /\ ~(j > i)
            /\ j - ((i - 1) - O(i - 1)) = O(j)
        BY <2>4, <2>6, <2>9, <3>4
      <4>2. mixed[i][j] = Typed[O(j)]
        BY <3>1, <3>2, <4>1
      <4> QED
        BY <2>7, <2>9, <3>4, <4>1, <4>2
    <3>5. CASE j > i
      <4>1. /\ j > i - 1
            /\ j - ((i - 1) - O(i - 1)) = j - (i - O(i))
        BY <2>4, <2>6, <2>9, <3>5
      <4>2. mixed[i][j] = Typed[j - (i - O(i))]
        BY <3>1, <3>2, <4>1
      <4> QED
        BY <2>7, <3>5, <4>2
    <3>6. j < i \/ j = i \/ j > i
      BY <2>4, <2>6
    <3> QED
      BY <3>3, <3>4, <3>5, <3>6
  <2> QED
    BY <2>8, <2>9
<1> QED
  BY <1>4 DEF O, Ordered

\* What RunsAsAsked says of the arguments of a command.
InPlace(c, args, env) ==
    LET all == AllPassArgs(c)
        fromEnv(i) == args[i] = all[i]
    IN /\ Len(args) \in Len(Commands[c].required)..Len(all)
       /\ \A i \in 1..Len(args) : all[i] \in env <=> fromEnv(i)
       /\ \A i \in 1..Len(args) :
             ~fromEnv(i) => args[i] = Typed[Cardinality({j \in 1..i : ~fromEnv(j)})]

\* Arguments that are accepted are in place.
LEMMA ArgumentsInPlace ==
    ASSUME NEW c \in DOMAIN Commands, NEW typed \in 0..5, NEW env \in SUBSET EnvArgs, NEW flag
    PROVE  /\ PassArgs(c, typed, env) \in Seq(Arg)
           /\ Accepts(c, PassArgs(c, typed, env), flag) =>
                 InPlace(c, PassArgs(c, typed, env), env)
<1> DEFINE all == AllPassArgs(c)
           n == Len(all)
           r == Len(Commands[c].required)
           args == PassArgs(c, typed, env)
           O(i) == Own(all, env, i)
<1>1. all \in Seq(Names) /\ n \in Nat /\ r \in 0..n
  BY ArgumentsTaken
<1>2. \A i \in r + 1..n : all[i] \notin env
  BY ArgumentsTaken
<1>3. PICK mixed : args = mixed[n] /\ Mixing(mixed, all, env, typed)
  BY Mixed
<1> HIDE DEF args, n, r, all, O
<1>4. args \in Seq(Arg) /\ Len(args) = typed + n - O(n)
  <2>1. n \in 0..n /\ n = Len(all)
    BY <1>1 DEF n
  <2>2. \A i \in 0..n : mixed[i] \in Seq(Arg) /\ Len(mixed[i]) = typed + i - O(i)
    BY <1>1, <1>3, <2>1, MixedLength DEF O
  <2> QED
    BY <1>3, <2>1, <2>2
<1> SUFFICES ASSUME Accepts(c, args, flag) PROVE InPlace(c, args, env)
  BY <1>4 DEF args
<1>5. Len(args) \in Nat /\ r <= Len(args) /\ Len(args) <= n
  BY <1>4 DEF Accepts, n, r, all
<1>6. O(n) = O(r) + n - r
  BY <1>1, <1>2, OwnGrows DEF O
<1>7. \A i \in Nat : O(i) \in 0..i
  BY OwnCounts DEF O
<1>8. O(r) \in Nat /\ O(n) \in Nat
  BY <1>1, <1>7
<1>9. O(r) <= typed
  BY <1>1, <1>4, <1>5, <1>6, <1>8
<1>10. ASSUME NEW i \in 1..Len(args)
       PROVE  args[i] = IF all[i] \in env THEN all[i] ELSE Typed[O(i)]
  <2>1. n \in 0..n /\ ~(i > n)
    BY <1>1, <1>5
  <2>2. Ordered(mixed, all, env)
    <3>1. r \in 0..Len(all) /\ NoneAfter(all, env, r)
      BY <1>1, <1>2 DEF n, NoneAfter
    <3>2. Own(all, env, r) <= typed
      BY <1>9 DEF O
    <3> QED
      BY <1>1, <1>3, <3>1, <3>2, MixedContent
  <2>3. i \in 1..Len(mixed[n]) /\ n = Len(all)
    BY <1>3 DEF n
  <2> QED
    BY <1>3, <2>1, <2>2, <2>3 DEF Ordered, O
<1>11. ASSUME NEW i \in 1..Len(args) PROVE O(i) <= typed
  <2>1. i \in Nat /\ O(i) \in Nat
    BY <1>7
  <2>2. CASE i <= r
    <3>1. O(i) <= O(r)
      BY <1>1, <2>1, <2>2, OwnGrows DEF O
    <3> QED
      BY <1>8, <1>9, <2>1, <3>1
  <2>3. CASE ~(i <= r)
    <3>1. r \in Nat /\ r <= i
      BY <1>1, <2>1, <2>3
    <3>2. \A j \in r + 1..i : all[j] \notin env
      BY <1>1, <1>2, <1>5, <2>1
    <3>3. O(i) = O(r) + i - r
      BY <2>1, <3>1, <3>2, OwnGrows DEF O
    <3>4. Len(args) = typed + r - O(r)
      BY <1>1, <1>4, <1>6, <1>8
    <3> QED
      BY <1>5, <1>8, <2>1, <3>1, <3>3, <3>4
  <2> QED
    BY <2>2, <2>3
<1>12. ASSUME NEW i \in 1..Len(args), all[i] \notin env PROVE O(i) \in 1..5
  <2>1. i \in Nat \ {0}
    OBVIOUS
  <2>2. O(i) = O(i - 1) + 1 /\ O(i - 1) \in Nat
    BY <1>12, <2>1, OwnStep DEF O
  <2>3. O(i) <= typed
    BY <1>11
  <2> QED
    BY <2>2, <2>3
<1>13. ASSUME NEW i \in 1..Len(args) PROVE all[i] \in env <=> args[i] = all[i]
  <2>1. all[i] \in Names
    BY <1>1, <1>5 DEF n
  <2>2. ASSUME all[i] \notin env PROVE args[i] # all[i]
    <3>1. Typed[O(i)] \notin Names
      BY <1>12, <2>2, TypedArgs
    <3> QED
      BY <1>10, <2>1, <2>2, <3>1
  <2> QED
    BY <1>10, <2>2
<1>14. ASSUME NEW i \in 1..Len(args), args[i] # all[i]
       PROVE  args[i] = Typed[Cardinality({j \in 1..i : args[j] # all[j]})]
  <2>1. \A j \in 1..i : j \in 1..Len(args)
    BY <1>5
  <2>2. {j \in 1..i : args[j] # all[j]} = {j \in 1..i : all[j] \notin env}
    BY <1>13, <2>1
  <2>3. args[i] = Typed[O(i)]
    BY <1>10, <1>13, <1>14
  <2> QED
    BY <2>2, <2>3 DEF Own, O
<1>15. Len(args) \in r..n
  BY <1>1, <1>5
<1> QED
  BY <1>13, <1>14, <1>15 DEF InPlace, n, r, all

-----------------------------------------------------------------------------
(* The inductive invariant                                                 *)

\* The fields of a process; of most of them nothing else is needed.
Fields == {"phase", "command", "args", "consent", "dir", "config", "listed", "fetching",
           "info", "file", "answers", "place", "disturbed"}

Shape(q) == DOMAIN q = Fields /\ DOMAIN q.info = AppName /\ DOMAIN q.file = AppName

Shaped ==
    /\ now \in Nat
    /\ DOMAIN proc = Process
    /\ \A p \in Process : Shape(proc[p]) /\ proc[p].dir \in Dir
    /\ DOMAIN cache = Dir
    /\ \A d \in Dir : DOMAIN cache[d].content = AppName

\* Entries are stored for the name of their app, in every file and in what is
\* going to be written.
WellStored(content) ==
    \A a \in AppName : \A e \in content[a] : e.name = a /\ e.app[1] = a

FilesInv ==
    /\ \A d \in Dir : WellStored(cache[d].content)
    /\ \A p \in Process : WellStored(proc[p].file)

\* Information a process may use for the name a with the given command.  What
\* it collected itself is not live if it changes something.
Usable(i, a, command, version) ==
    /\ i.entry.name = a /\ i.entry.app[1] = a
    /\ i.entry.version = version
    /\ i.at - i.entry.stamp <= CacheGap
    /\ Commands[command].cached \/ i.own
    /\ i.own => Commands[command].readonly \/ i.entry.app[2] # LiveSuffix

InfoInv ==
    \A p \in Process, a \in AppName : \A i \in proc[p].info[a] :
        Usable(i, a, proc[p].command, shell[p].version)

IInv == Shaped /\ FilesInv /\ InfoInv

-----------------------------------------------------------------------------
(* Directories and candidates                                              *)

\* A set of natural numbers that is not empty has a minimum.
LEMMA MinIsIn ==
    ASSUME NEW S, S \subseteq Nat, S # {}
    PROVE  Min(S) \in S
<1>1. PICK k \in S : \A l \in S : k <= l
  BY Least
<1> QED
  BY <1>1 DEF Min

LEMMA PathIsIn ==
    ASSUME NEW p \in Process, NEW i \in 1..Len(Path[p])
    PROVE  Path[p][i] \in Dir
  BY ToolAssumption DEF Dir, Range

LEMMA HomeIsIn == Process # {} => Home \in Dir
<1> SUFFICES ASSUME NEW p \in Process PROVE Home \in Dir
  OBVIOUS
<1>1. Path[p] \in Seq(Range(Path[p])) /\ Path[p] # <<>> /\ Path[p][Len(Path[p])] = Home
  BY ToolAssumption DEF Last
<1>2. Len(Path[p]) \in 1..Len(Path[p])
  BY <1>1
<1> QED
  BY <1>1, <1>2, PathIsIn

\* The directory that is chosen is one of those searched.
LEMMA ResolvedIsIn ==
    ASSUME NEW p \in Process, NEW files, Found(files, p) # {}
    PROVE  ResolveDir(files, p) \in Dir
<1>1. Len(Path[p]) \in Nat
  BY ToolAssumption
<1>2. Found(files, p) \subseteq Nat /\ Found(files, p) \subseteq 1..Len(Path[p])
  BY <1>1 DEF Found
<1>3. Min(Found(files, p)) \in 1..Len(Path[p])
  BY <1>2, MinIsIn
<1> QED
  BY <1>3, PathIsIn DEF ResolveDir

\* An app that is found has the name it was looked for, and the suffix for live
\* apps at most if the command is readonly.
LEMMA FoundApp ==
    ASSUME NEW p \in Process, NEW a \in AppName, NEW app \in AppByName(p, a)
    PROVE  /\ app[1] = a
           /\ Commands[proc[p].command].readonly \/ app[2] # LiveSuffix
<1> DEFINE suffixes == AppNameCandidates(p)
           matching == {i \in 1..Len(suffixes) :
                           \E apps \in proc[p].listed : <<a, suffixes[i]>> \in apps}
<1>1. matching # {} /\ app = <<a, suffixes[Min(matching)]>>
  BY DEF AppByName
<1>2. suffixes \in Seq(STRING \cup {LiveSuffix})
  BY ToolAssumption DEF AppNameCandidates
<1>3. matching \subseteq Nat /\ matching \subseteq 1..Len(suffixes)
  BY <1>2
<1>4. Min(matching) \in 1..Len(suffixes)
  BY <1>1, <1>3, MinIsIn
<1>5. ASSUME ~Commands[proc[p].command].readonly
      PROVE  suffixes[Min(matching)] # LiveSuffix
  <2>1. suffixes = AppSuffixes
    BY <1>5 DEF AppNameCandidates
  <2>2. Min(matching) \in DOMAIN AppSuffixes
    BY <1>4, <2>1, ToolAssumption
  <2> QED
    BY <2>1, <2>2, ToolAssumption DEF Range
<1> HIDE DEF suffixes, matching
<1> QED
  BY <1>1, <1>5

-----------------------------------------------------------------------------
(* Steps that change no information                                        *)

\* A process goes on with what it has, or starts with nothing.
Kept(q, r) == /\ Shape(r) /\ r.info = q.info /\ r.file = q.file
              /\ r.command = q.command /\ r.dir = q.dir
Fresh(r) == Shape(r) /\ r.info = Empty /\ r.file = Empty /\ r.dir \in Dir

LEMMA FreshIsValid ==
    ASSUME NEW r, Fresh(r), NEW a \in AppName
    PROVE  r.info[a] = {} /\ r.file[a] = {}
  BY DEF Fresh, Empty

LEMMA Quiet ==
    ASSUME IInv, UNCHANGED shell, now' \in Nat,
           DOMAIN cache' = Dir,
           \A d \in Dir : /\ DOMAIN cache'[d].content = AppName
                          /\ WellStored(cache'[d].content),
           DOMAIN proc' = Process,
           \A p \in Process : Kept(proc[p], proc'[p]) \/ Fresh(proc'[p])
    PROVE  IInv'
<1>1. \A p \in Process : Shape(proc'[p]) /\ proc'[p].dir \in Dir
  BY DEF IInv, Shaped, Kept, Fresh
<1>2. Shaped'
  BY <1>1 DEF Shaped, Shape
<1>3. ASSUME NEW p \in Process PROVE WellStored(proc'[p].file)
  BY FreshIsValid DEF IInv, FilesInv, WellStored, Kept
<1>4. FilesInv'
  BY <1>3 DEF FilesInv, WellStored
<1>5. ASSUME NEW p \in Process, NEW a \in AppName, NEW i \in proc'[p].info[a]
      PROVE  Usable(i, a, proc'[p].command, shell'[p].version)
  <2>1. CASE Kept(proc[p], proc'[p])
    BY <1>5, <2>1 DEF IInv, InfoInv, Kept
  <2>2. CASE Fresh(proc'[p])
    BY <1>5, <2>2, FreshIsValid
  <2> QED
    BY <2>1, <2>2
<1>6. InfoInv'
  BY <1>5 DEF InfoInv, Usable
<1> QED
  BY <1>2, <1>4, <1>6 DEF IInv

\* The same where the files remain and one process changes.
LEMMA QuietOne ==
    ASSUME IInv, UNCHANGED <<shell, cache>>, now' \in Nat, NEW p \in Process, NEW r,
           Kept(proc[p], r) \/ Fresh(r), proc' = [proc EXCEPT ![p] = r]
    PROVE  IInv'
<1>1. \A q \in Process : proc'[q] = IF q = p THEN r ELSE proc[q]
  BY DEF IInv, Shaped
<1>2. DOMAIN proc' = Process
  BY DEF IInv, Shaped
<1>3. ASSUME NEW q \in Process PROVE Kept(proc[q], proc'[q]) \/ Fresh(proc'[q])
  <2>1. CASE q = p
    BY <1>1, <2>1
  <2>2. CASE q # p
    BY <1>1, <2>2 DEF IInv, Shaped, Kept
  <2> QED
    BY <2>1, <2>2
<1>4. /\ DOMAIN cache' = Dir
      /\ \A d \in Dir : /\ DOMAIN cache'[d].content = AppName
                        /\ WellStored(cache'[d].content)
  BY DEF IInv, Shaped, FilesInv
<1> QED
  BY <1>2, <1>3, <1>4, Quiet

LEMMA NewIsFresh ==
    ASSUME NEW p \in Process
    PROVE  Fresh(NewProcess)
  BY HomeIsIn DEF Fresh, Shape, Fields, NewProcess, Empty

LEMMA CallKeeps ==
    ASSUME IInv, NEW p \in Process, NEW c, NEW typed, NEW flag, Call(p, c, typed, flag)
    PROVE  IInv'
<1> DEFINE args == PassArgs(c, typed, shell[p].args)
           consent == IF flag = "force" THEN flag ELSE "none"
           dir == ResolveDir(config, p)
           read == CHOOSE x \in config[dir].content : TRUE
           start == [NewProcess EXCEPT !.phase = FirstPhase(c, flag), !.command = c,
                                       !.args = args, !.consent = consent]
           r == IF Commands[c].context THEN [start EXCEPT !.dir = dir, !.config = read]
                ELSE start
<1>1. /\ proc' = [proc EXCEPT ![p] = r]
      /\ Commands[c].context => Found(config, p) # {}
      /\ UNCHANGED <<shell, now, cache>>
  BY DEF Call, outside, Configured
<1>2. Fresh(NewProcess)
  BY NewIsFresh
<1>3. Fresh(start)
  <2> HIDE DEF args, consent
  <2> QED
    BY <1>2 DEF Fresh, Shape, Fields
<1>4. ASSUME Commands[c].context PROVE Fresh([start EXCEPT !.dir = dir, !.config = read])
  <2>1. dir \in Dir
    BY <1>1, <1>4, ResolvedIsIn
  <2> HIDE DEF args, consent, dir, read, start
  <2> QED
    BY <1>3, <2>1 DEF Fresh, Shape, Fields
<1>5. Fresh(r)
  <2> HIDE DEF start, dir, read
  <2> QED
    BY <1>3, <1>4
<1>6. now' \in Nat
  BY <1>1 DEF IInv, Shaped
<1> HIDE DEF r
<1> QED
  BY <1>1, <1>5, <1>6, QuietOne

\* A process whose phase, and fields that matter less, change.
LEMMA QuietField ==
    ASSUME IInv, UNCHANGED <<shell, cache, now>>, NEW p \in Process, NEW x,
           NEW f \in {"phase", "listed", "answers", "place", "fetching"},
           proc' = [proc EXCEPT ![p] = [proc[p] EXCEPT ![f] = x]]
    PROVE  IInv'
<1> DEFINE r == [proc[p] EXCEPT ![f] = x]
<1>1. Kept(proc[p], r)
  BY DEF IInv, Shaped, Kept, Shape, Fields
<1>2. now' \in Nat
  BY DEF IInv, Shaped
<1> HIDE DEF r
<1>3. proc' = [proc EXCEPT ![p] = r]
  BY DEF r
<1> QED
  BY <1>1, <1>2, <1>3, QuietOne

LEMMA ProcessKeeps ==
    ASSUME IInv, NEW p \in Process,
           \/ Consent(p) \/ End(p) \/ GetApps(p) \/ Interrupt(p) \/ TruncateConfig(p)
           \/ WriteConfig(p) \/ Search(p)
           \/ \E s \in Setting, name \in AppName \cup {None} : Answer(p, s, name)
    PROVE  IInv'
<1>1. CASE Consent(p)
  <2> DEFINE r == [proc[p] EXCEPT !.phase = "running", !.consent = "yes"]
  <2>1. /\ proc' = [proc EXCEPT ![p] = r]
        /\ UNCHANGED <<shell, cache, now>>
    BY <1>1 DEF Consent, outside
  <2>2. Kept(proc[p], r) /\ now' \in Nat
    BY <2>1 DEF IInv, Shaped, Kept, Shape, Fields
  <2> HIDE DEF r
  <2> QED
    BY <2>1, <2>2, QuietOne
<1>2. CASE End(p) \/ Interrupt(p) \/ WriteConfig(p)
  <2>1. /\ proc' = [proc EXCEPT ![p] = NewProcess]
        /\ UNCHANGED <<shell, cache, now>>
    BY <1>2 DEF End, Interrupt, WriteConfig, outside
  <2>2. Fresh(NewProcess) /\ now' \in Nat
    BY <2>1, NewIsFresh DEF IInv, Shaped
  <2> QED
    BY <2>1, <2>2, QuietOne
<1>3. CASE GetApps(p)
  <2>1. /\ proc' = [proc EXCEPT ![p] = [proc[p] EXCEPT !["listed"] = {deployed}]]
        /\ UNCHANGED <<shell, cache, now>>
    BY <1>3 DEF GetApps, outside
  <2> QED
    BY <2>1, QuietField
<1>4. CASE TruncateConfig(p)
  <2>1. /\ proc' = [proc EXCEPT ![p] = [proc[p] EXCEPT !["phase"] = "writing"]]
        /\ UNCHANGED <<shell, cache, now>>
    BY <1>4 DEF TruncateConfig, outside
  <2> QED
    BY <2>1, QuietField
<1>5. CASE Search(p)
  <2>1. UNCHANGED <<shell, cache, now>>
    BY <1>5 DEF Search, outside
  <2>2. \/ proc' = [proc EXCEPT ![p] = [proc[p] EXCEPT !["phase"] = "cleaned"]]
        \/ proc' = [proc EXCEPT ![p] = [proc[p] EXCEPT !["phase"] = "found"]]
        \/ proc' = [proc EXCEPT ![p] = [proc[p] EXCEPT !["place"] = proc[p].place + 1]]
    BY <1>5 DEF Search
  <2> QED
    BY <2>1, <2>2, QuietField
<1>6. ASSUME NEW s \in Setting, NEW name \in AppName \cup {None}, Answer(p, s, name)
      PROVE  IInv'
  <2> DEFINE old == proc[p].answers
             answers == [x \in DOMAIN old \cup {s} |-> IF x = s THEN name ELSE old[x]]
  <2>1. /\ proc' = [proc EXCEPT ![p] = [proc[p] EXCEPT !["answers"] = answers]]
        /\ UNCHANGED <<shell, cache, now>>
    BY <1>6 DEF Answer, outside
  <2> HIDE DEF answers
  <2> QED
    BY <2>1, QuietField
<1> QED
  BY <1>1, <1>2, <1>3, <1>4, <1>5, <1>6

-----------------------------------------------------------------------------
(* Steps that collect, use or store information                            *)

LEMMA LookUpKeeps ==
    ASSUME IInv, NEW p \in Process, NEW a \in AppName, LookUp(p, a)
    PROVE  IInv'
<1>1. UNCHANGED <<shell, cache, now>>
  BY DEF LookUp, outside
<1>2. CASE ReadPersisted(p, a) = {}
  <2> DEFINE fetching == proc[p].fetching \cup {a}
  <2>1. proc' = [proc EXCEPT ![p] = [proc[p] EXCEPT !["fetching"] = fetching]]
    BY <1>2 DEF LookUp
  <2> HIDE DEF fetching
  <2> QED
    BY <1>1, <2>1, QuietField
<1>3. CASE ReadPersisted(p, a) # {}
  <2>1. PICK e \in ReadPersisted(p, a) : proc' = [proc EXCEPT ![p].info[a] = Using(e, FALSE)]
    BY <1>3 DEF LookUp
  <2>2. /\ Commands[proc[p].command].cached
        /\ e \in cache[proc[p].dir].content[a]
        /\ now - e.stamp <= CacheGap /\ e.version = shell[p].version
    BY DEF ReadPersisted
  <2>3. e.name = a /\ e.app[1] = a
    BY <2>2 DEF IInv, Shaped, FilesInv, WellStored
  <2> DEFINE r == [proc[p] EXCEPT !.info = [proc[p].info EXCEPT ![a] = Using(e, FALSE)]]
  <2>4. proc' = [proc EXCEPT ![p] = r]
    BY <2>1
  <2>5. /\ Shape(r) /\ r.file = proc[p].file /\ r.command = proc[p].command
        /\ r.dir = proc[p].dir
        /\ \A b \in AppName : r.info[b] = IF b = a THEN Using(e, FALSE) ELSE proc[p].info[b]
    BY DEF IInv, Shaped, Shape, Fields
  <2> HIDE DEF r
  <2>6. /\ DOMAIN proc' = Process
        /\ \A q \in Process : proc'[q] = IF q = p THEN r ELSE proc[q]
    BY <2>4 DEF IInv, Shaped
  <2>7. Shaped'
    BY <1>1, <2>5, <2>6 DEF IInv, Shaped, Shape
  <2>8. FilesInv'
    BY <1>1, <2>5, <2>6 DEF IInv, FilesInv
  <2>9. ASSUME NEW i \in Using(e, FALSE)
        PROVE  Usable(i, a, proc[p].command, shell[p].version)
    <3>1. i.entry = e /\ i.at = now /\ ~i.own
      BY DEF Using
    <3> QED
      BY <2>2, <2>3, <3>1 DEF Usable
  <2>10. ASSUME NEW q \in Process, NEW b \in AppName, NEW i \in proc'[q].info[b]
         PROVE  Usable(i, b, proc'[q].command, shell[q].version)
    BY <2>5, <2>6, <2>9, <2>10 DEF IInv, InfoInv
  <2>11. InfoInv'
    BY <1>1, <2>10 DEF InfoInv, Usable
  <2> QED
    BY <2>7, <2>8, <2>11 DEF IInv
<1> QED
  BY <1>2, <1>3

LEMMA GetRawAppInfoKeeps ==
    ASSUME IInv, NEW p \in Process, NEW a \in AppName, GetRawAppInfo(p, a)
    PROVE  IInv'
<1>1. UNCHANGED <<shell, cache, now>>
  BY DEF GetRawAppInfo, outside
<1> DEFINE E(app) == [name |-> a, app |-> app, stamp |-> now, version |-> shell[p].version]
           Content1(e) == [cache[proc[p].dir].content EXCEPT ![a] = {e}]
<1>2. PICK app \in AppByName(p, a) :
        proc' = [proc EXCEPT ![p].phase = "storing", ![p].fetching = @ \ {a},
                             ![p].info[a] = Using(E(app), TRUE),
                             ![p].file = Content1(E(app)), ![p].disturbed = FALSE]
  BY DEF GetRawAppInfo
<1> DEFINE e == E(app)
           r == [proc[p] EXCEPT !.phase = "storing", !.fetching = proc[p].fetching \ {a},
                                !.info = [proc[p].info EXCEPT ![a] = Using(e, TRUE)],
                                !.file = Content1(e), !.disturbed = FALSE]
<1>3. /\ app[1] = a
      /\ Commands[proc[p].command].readonly \/ app[2] # LiveSuffix
  BY FoundApp
<1>4. e.name = a /\ e.app = app /\ e.stamp = now /\ e.version = shell[p].version
  OBVIOUS
<1>5. WellStored(Content1(e)) /\ DOMAIN Content1(e) = AppName
  <2> HIDE DEF e
  <2> QED
    BY <1>3, <1>4 DEF IInv, Shaped, FilesInv, WellStored
<1> HIDE DEF e, E, Content1
<1>6. /\ DOMAIN proc' = Process
      /\ \A q \in Process : q # p => proc'[q] = proc[q]
      /\ Shape(proc'[p]) /\ proc'[p].file = Content1(e)
      /\ proc'[p].command = proc[p].command /\ proc'[p].dir = proc[p].dir
      /\ \A b \in AppName :
            proc'[p].info[b] = IF b = a THEN Using(e, TRUE) ELSE proc[p].info[b]
  BY <1>2, <1>5 DEF e, IInv, Shaped, Shape, Fields
<1>7. Shaped'
  BY <1>1, <1>6 DEF IInv, Shaped, Shape
<1>8. FilesInv'
  BY <1>1, <1>5, <1>6 DEF IInv, FilesInv
<1>9. ASSUME NEW i \in Using(e, TRUE)
      PROVE  Usable(i, a, proc[p].command, shell[p].version)
  <2>1. i.entry = e /\ i.at = now /\ i.own
    BY DEF Using
  <2>2. now - now <= CacheGap
    BY ToolAssumption DEF IInv, Shaped
  <2> QED
    BY <1>3, <1>4, <2>1, <2>2 DEF Usable
<1>10. ASSUME NEW q \in Process, NEW b \in AppName, NEW i \in proc'[q].info[b]
       PROVE  Usable(i, b, proc'[q].command, shell[q].version)
  BY <1>6, <1>9, <1>10 DEF IInv, InfoInv
<1>11. InfoInv'
  BY <1>1, <1>10 DEF InfoInv, Usable
<1> QED
  BY <1>7, <1>8, <1>11 DEF IInv

\* Where a file is removed that others may have open, a process p goes on with r.
LEMMA Unlinked ==
    ASSUME DOMAIN proc = Process, NEW p \in Process, NEW r, NEW d, Unlink(p, r, d)
    PROVE  /\ DOMAIN proc' = Process
           /\ proc'[p] = r
           /\ \A q \in Process : q # p =>
                 \/ proc'[q] = proc[q]
                 \/ /\ proc[q].phase = "truncated" /\ proc[q].dir = d
                    /\ proc'[q] = [proc[q] EXCEPT !["phase"] = "unlinked"]
<1> DEFINE open(q) == proc[q].phase = "truncated" /\ proc[q].dir = d
<1>1. proc' = [q \in Process |->
                  IF q = p THEN r
                  ELSE IF open(q) THEN [proc[q] EXCEPT !["phase"] = "unlinked"] ELSE proc[q]]
  BY DEF Unlink
<1> QED
  BY <1>1

\* Nothing is stored in an empty file.
LEMMA EmptyIsStored == DOMAIN Empty = AppName /\ WellStored(Empty)
  BY DEF Empty, WellStored

\* Where others are disturbed, a process p goes on with r.
LEMMA Disturbed ==
    ASSUME IInv, NEW p \in Process, NEW r, NEW d, Disturb(p, r, d)
    PROVE  /\ DOMAIN proc' = Process
           /\ proc'[p] = r
           /\ \A q \in Process : q # p => Kept(proc[q], proc'[q])
<1> DEFINE over(q) == proc[q].disturbed \/ Concerns(q, d)
<1>1. proc' = [q \in Process |-> IF q = p THEN r ELSE [proc[q] EXCEPT !.disturbed = over(q)]]
  BY DEF Disturb
<1>2. ASSUME NEW q \in Process
      PROVE  Kept(proc[q], [proc[q] EXCEPT !.disturbed = over(q)])
  <2> HIDE DEF over
  <2> QED
    BY DEF IInv, Shaped, Kept, Shape, Fields
<1> HIDE DEF over
<1> QED
  BY <1>1, <1>2

LEMMA CacheKeeps ==
    ASSUME IInv, NEW p \in Process,
           TruncateCache(p) \/ WriteCache(p) \/ WriteUnlinked(p) \/ RemoveCache(p)
    PROVE  IInv'
<1>1. /\ UNCHANGED <<shell, now>> /\ now' \in Nat
  BY DEF TruncateCache, WriteCache, WriteUnlinked, RemoveCache, outside, IInv, Shaped
<1>2. /\ DOMAIN cache = Dir
      /\ \A d \in Dir : DOMAIN cache[d].content = AppName /\ WellStored(cache[d].content)
      /\ DOMAIN proc[p].file = AppName /\ WellStored(proc[p].file)
      /\ Shape(proc[p]) /\ proc[p].dir \in Dir
  BY DEF IInv, Shaped, FilesInv, Shape
<1>3. CASE TruncateCache(p)
  <2> DEFINE r == [proc[p] EXCEPT !.phase = "truncated"]
  <2>1. /\ cache' = [cache EXCEPT ![proc[p].dir] = File(Empty)]
        /\ Disturb(p, r, proc[p].dir)
    BY <1>3 DEF TruncateCache
  <2>2. Kept(proc[p], r)
    BY <1>2 DEF Kept, Shape, Fields
  <2> HIDE DEF r
  <2>3. \A q \in Process : Kept(proc[q], proc'[q])
    BY <2>1, <2>2, Disturbed
  <2>4. /\ DOMAIN cache' = Dir
        /\ \A d \in Dir : /\ DOMAIN cache'[d].content = AppName
                          /\ WellStored(cache'[d].content)
    BY <1>2, <2>1, EmptyIsStored DEF File
  <2>5. DOMAIN proc' = Process
    BY <2>1, Disturbed
  <2> QED
    BY <1>1, <2>3, <2>4, <2>5, Quiet
<1>4. CASE WriteCache(p)
  <2> DEFINE r == [proc[p] EXCEPT !.phase = "running", !.file = Empty]
             d == proc[p].dir
  <2>1. Disturb(p, r, d)
    BY <1>4 DEF WriteCache
  <2>2. PICK content \in {proc[p].file, Empty} : cache' = [cache EXCEPT ![d] = File(content)]
    BY <1>4 DEF WriteCache
  <2>3. /\ Shape(r) /\ r.info = proc[p].info /\ r.file = Empty
        /\ r.command = proc[p].command /\ r.dir = proc[p].dir
    BY <1>2, EmptyIsStored DEF Shape, Fields
  <2> HIDE DEF r
  <2>4. /\ DOMAIN proc' = Process /\ proc'[p] = r
        /\ \A q \in Process : q # p => Kept(proc[q], proc'[q])
    BY <2>1, Disturbed
  <2>5. DOMAIN content = AppName /\ WellStored(content)
    BY <1>2, EmptyIsStored
  <2>6. /\ DOMAIN cache' = Dir
        /\ \A c \in Dir : /\ DOMAIN cache'[c].content = AppName
                          /\ WellStored(cache'[c].content)
    <3>1. File(content).content = content
      BY DEF File
    <3> HIDE DEF d
    <3> QED
      BY <1>2, <2>2, <2>5, <3>1
  <2>7. \A q \in Process :
            /\ Shape(proc'[q]) /\ proc'[q].info = proc[q].info
            /\ proc'[q].command = proc[q].command /\ proc'[q].dir = proc[q].dir
            /\ WellStored(proc'[q].file)
    BY <2>3, <2>4, EmptyIsStored DEF Kept, IInv, FilesInv
  <2>8. Shaped'
    BY <1>1, <2>4, <2>6, <2>7 DEF IInv, Shaped, Shape
  <2>9. FilesInv'
    BY <2>6, <2>7 DEF FilesInv, WellStored
  <2>10. InfoInv'
    BY <1>1, <2>7 DEF IInv, InfoInv, Usable
  <2> QED
    BY <2>8, <2>9, <2>10 DEF IInv
<1>5. CASE RemoveCache(p)
  <2> DEFINE r == [proc[p] EXCEPT !.phase = "cleaning", !.place = 1]
             d == Path[p][proc[p].place]
  <2>1. cache' = [cache EXCEPT ![d] = Absent(Empty)] /\ Unlink(p, r, d)
    BY <1>5 DEF RemoveCache
  <2>2. Kept(proc[p], r)
    BY <1>2 DEF Kept, Shape, Fields
  <2> HIDE DEF r, d
  <2>3. /\ DOMAIN proc' = Process
        /\ \A q \in Process : Kept(proc[q], proc'[q])
    <3>1. /\ DOMAIN proc' = Process /\ proc'[p] = r
          /\ \A q \in Process : q # p =>
                \/ proc'[q] = proc[q]
                \/ proc'[q] = [proc[q] EXCEPT !["phase"] = "unlinked"]
      BY <2>1, Unlinked DEF IInv, Shaped
    <3>2. ASSUME NEW q \in Process
          PROVE  /\ Kept(proc[q], proc[q])
                 /\ Kept(proc[q], [proc[q] EXCEPT !["phase"] = "unlinked"])
      BY DEF IInv, Shaped, Kept, Shape, Fields
    <3> QED
      BY <2>2, <3>1, <3>2
  <2>4. Absent(Empty).content = Empty
    BY DEF Absent
  <2>5. /\ DOMAIN cache' = Dir
        /\ \A c \in Dir : /\ DOMAIN cache'[c].content = AppName
                          /\ WellStored(cache'[c].content)
    BY <1>2, <2>1, <2>4, EmptyIsStored
  <2> QED
    BY <1>1, <2>3, <2>5, Quiet
<1>6. CASE WriteUnlinked(p)
  <2> DEFINE r == [proc[p] EXCEPT !.phase = "running", !.file = Empty]
  <2>1. proc' = [proc EXCEPT ![p] = r] /\ UNCHANGED cache
    BY <1>6 DEF WriteUnlinked
  <2>2. /\ Shape(r) /\ r.info = proc[p].info /\ r.file = Empty
        /\ r.command = proc[p].command /\ r.dir = proc[p].dir
    BY <1>2, EmptyIsStored DEF Shape, Fields
  <2> HIDE DEF r
  <2>3. /\ DOMAIN proc' = Process
        /\ \A q \in Process : proc'[q] = IF q = p THEN r ELSE proc[q]
    BY <2>1 DEF IInv, Shaped
  <2>4. Shaped'
    BY <1>1, <2>1, <2>2, <2>3 DEF IInv, Shaped
  <2>5. FilesInv'
    BY <2>1, <2>2, <2>3, EmptyIsStored DEF IInv, FilesInv
  <2>6. ASSUME NEW q \in Process PROVE proc'[q].info = proc[q].info /\ proc'[q].command = proc[q].command
    BY <2>2, <2>3
  <2>7. InfoInv'
    BY <1>1, <2>6 DEF IInv, InfoInv, Usable
  <2> QED
    BY <2>4, <2>5, <2>7 DEF IInv
<1> QED
  BY <1>3, <1>4, <1>5, <1>6

-----------------------------------------------------------------------------
(* The invariant and what follows from it                                  *)

LEMMA InvInit == Init => IInv
<1> SUFFICES ASSUME Init PROVE IInv
  OBVIOUS
<1>1. /\ now = 0
      /\ cache = [d \in Dir |-> Absent(Empty)]
      /\ proc = [p \in Process |-> NewProcess]
  BY DEF Init
<1>2. \A p \in Process : Fresh(proc[p])
  BY <1>1, NewIsFresh
<1>3. \A d \in Dir : cache[d].content = Empty
  BY <1>1 DEF Absent
<1>4. Shaped
  BY <1>1, <1>2, <1>3, EmptyIsStored DEF Shaped, Fresh
<1>5. FilesInv
  BY <1>2, <1>3, EmptyIsStored DEF FilesInv, Fresh
<1>6. InfoInv
  BY <1>2, FreshIsValid DEF InfoInv
<1> QED
  BY <1>4, <1>5, <1>6 DEF IInv

LEMMA InvNext == IInv /\ [Next]_vars => IInv'
<1> SUFFICES ASSUME IInv, [Next]_vars PROVE IInv'
  OBVIOUS
<1>1. ASSUME NEW p \in Process, Begin(p) PROVE IInv'
  BY <1>1, CallKeeps DEF Begin
<1>2. ASSUME NEW p \in Process, Information(p) PROVE IInv'
  BY <1>2, ProcessKeeps, LookUpKeeps, GetRawAppInfoKeeps, CacheKeeps DEF Information
<1>3. ASSUME NEW p \in Process, Setup(p) PROVE IInv'
  BY <1>3, ProcessKeeps, CacheKeeps DEF Setup
<1>4. ASSUME NEW p \in Process, Consent(p) \/ End(p) PROVE IInv'
  BY <1>4, ProcessKeeps
<1>5. ASSUME UNCHANGED <<shell, cache, proc>>, now' \in Nat PROVE IInv'
  BY <1>5 DEF IInv, Shaped, FilesInv, InfoInv, WellStored, Usable, Shape
<1>6. ASSUME NEW old, NEW new, Deploy(old, new) PROVE IInv'
  BY <1>5, <1>6 DEF Deploy, IInv, Shaped
<1>7. CASE Tick
  BY <1>5, <1>7 DEF Tick, IInv, Shaped
<1>8. CASE UNCHANGED vars
  BY <1>5, <1>8 DEF vars, IInv, Shaped
<1> QED
  BY <1>1, <1>2, <1>3, <1>4, <1>6, <1>7, <1>8 DEF Next

LEMMA Invariant == Spec => []IInv
  BY InvInit, InvNext, PTL DEF Spec

\* Whatever other processes do to the files and whenever processes end, commands
\* only work with valid information, and those that collect it themselves and
\* change something not with apps that are live; for any number of processes.
THEOREM OnlyValid == Spec => []WorksWithValid
<1>1. IInv => WorksWithValid
  BY DEF IInv, InfoInv, Usable, WorksWithValid
<1> QED
  BY <1>1, Invariant, PTL

-----------------------------------------------------------------------------
(* Types                                                                   *)

\* Answers to some of the questions.
Partial(answers) == answers \in UNION {[S -> AppName \cup {None}] : S \in SUBSET Setting}

\* The field f of a process p may have the value v.
Right(p, f, v) ==
    /\ f = "phase" => v \in Phases
    /\ f = "command" => v \in DOMAIN Commands
    /\ f = "args" => v \in Seq(Arg)
    /\ f = "consent" => v \in {"none", "yes", "force"}
    /\ f = "dir" => v \in Dir
    /\ f = "config" => v \in Configuration
    /\ f = "listed" => \A apps \in v : apps \subseteq App
    /\ f = "fetching" => v \subseteq AppName
    /\ f = "info" => /\ DOMAIN v = AppName
                     /\ \A a \in AppName : \A i \in v[a] : i.entry \in Entry
    /\ f = "file" => v \in Content
    /\ f = "answers" => Partial(v)
    /\ f = "place" => v \in 1..Len(Path[p]) + 1
    /\ f = "disturbed" => v \in BOOLEAN

\* What a process p may remember.  It only writes when all questions are answered.
Remembered(p, q) ==
    /\ DOMAIN q = Fields
    /\ \A f \in Fields : Right(p, f, q[f])
    /\ q.phase = "writing" => DOMAIN q.answers = Setting

Stored(file) == file.exists \in BOOLEAN /\ file.content \in Content

ConfigFile == [exists : BOOLEAN, content : {{}} \cup {{c} : c \in Configuration}]

Around ==
    /\ offer \in [Process -> SUBSET DOMAIN Commands]
    /\ shell \in [Process -> Environment]
    /\ deployed \subseteq App
    /\ deploys \in 0..MaxDeploys /\ now \in 0..MaxTime /\ calls \in 0..MaxCalls

TypeInv ==
    /\ Around
    /\ config \in [Dir -> ConfigFile]
    /\ DOMAIN cache = Dir
    /\ \A d \in Dir : Stored(cache[d])
    /\ DOMAIN proc = Process
    /\ \A p \in Process : Remembered(p, proc[p])

\* Where one process changes, it is enough to look at that one.
LEMMA OneRemembers ==
    ASSUME TypeInv, NEW p \in Process, NEW r, Remembered(p, r),
           proc' = [proc EXCEPT ![p] = r]
    PROVE  /\ DOMAIN proc' = Process
           /\ \A q \in Process : Remembered(q, proc'[q])
<1>1. /\ DOMAIN proc' = Process
      /\ \A q \in Process : proc'[q] = IF q = p THEN r ELSE proc[q]
  BY DEF TypeInv
<1> QED
  BY <1>1 DEF TypeInv

\* Where one field changes, it is enough to look at its value.
LEMMA FieldChanges ==
    ASSUME NEW p, NEW q, Remembered(p, q), NEW f \in Fields, NEW x, Right(p, f, x),
           f = "phase" => x # "writing",
           f = "answers" => q.phase # "writing"
    PROVE  Remembered(p, [q EXCEPT ![f] = x])
<1> DEFINE r == [q EXCEPT ![f] = x]
<1>1. DOMAIN r = Fields /\ \A g \in Fields : r[g] = IF g = f THEN x ELSE q[g]
  BY DEF Remembered
<1>2. "phase" \in Fields /\ "answers" \in Fields
  BY DEF Fields
<1> HIDE DEF r
<1>3. \A g \in Fields : Right(p, g, r[g])
  BY <1>1 DEF Remembered
<1>4. r.phase = "writing" => DOMAIN r.answers = Setting
  BY <1>1, <1>2 DEF Remembered
<1>5. Remembered(p, r)
  BY <1>1, <1>3, <1>4 DEF Remembered
<1> QED
  BY <1>5 DEF r

\* The fields of what is remembered.
LEMMA FieldsOf ==
    ASSUME NEW p, NEW q, Remembered(p, q)
    PROVE  /\ q.phase \in Phases /\ q.command \in DOMAIN Commands /\ q.args \in Seq(Arg)
           /\ q.consent \in {"none", "yes", "force"}
           /\ q.dir \in Dir /\ q.config \in Configuration
           /\ \A apps \in q.listed : apps \subseteq App
           /\ q.fetching \subseteq AppName
           /\ DOMAIN q.info = AppName
           /\ \A a \in AppName : \A i \in q.info[a] : i.entry \in Entry
           /\ q.file \in Content /\ Partial(q.answers)
           /\ q.place \in 1..Len(Path[p]) + 1 /\ q.disturbed \in BOOLEAN
<1>1. Right(p, "phase", q.phase) /\ Right(p, "command", q.command)
  BY DEF Remembered, Fields
<1>2. Right(p, "args", q.args) /\ Right(p, "consent", q.consent)
  BY DEF Remembered, Fields
<1>3. Right(p, "dir", q.dir) /\ Right(p, "config", q.config)
  BY DEF Remembered, Fields
<1>4. Right(p, "listed", q.listed) /\ Right(p, "fetching", q.fetching)
  BY DEF Remembered, Fields
<1>5. Right(p, "info", q.info) /\ Right(p, "file", q.file)
  BY DEF Remembered, Fields
<1>6. Right(p, "answers", q.answers) /\ Right(p, "place", q.place)
  BY DEF Remembered, Fields
<1>7. Right(p, "disturbed", q.disturbed)
  BY DEF Remembered, Fields
<1> QED
  BY <1>1, <1>2, <1>3, <1>4, <1>5, <1>6, <1>7 DEF Right

\* A new process has the right types.
LEMMA EmptyIsContent == Empty \in Content
  BY DEF Empty, Content

LEMMA HelpIsThere == "help" \in DOMAIN Commands
<1>1. "help" \in DOMAIN GenericCommands /\ GenericCommands \in Groups
  BY DEF GenericCommands, Groups
<1> QED
  BY <1>1 DEF Commands

LEMMA NewRemembers ==
    ASSUME NEW p \in Process
    PROVE  Remembered(p, NewProcess)
<1> DEFINE q == NewProcess
<1>1. Right(p, "phase", q.phase) /\ Right(p, "command", q.command)
  BY HelpIsThere DEF Right, NewProcess, Phases
<1>2. Right(p, "args", q.args) /\ Right(p, "consent", q.consent)
  BY DEF Right, NewProcess
<1>3. Right(p, "dir", q.dir)
  BY HomeIsIn DEF Right, NewProcess
<1>4. Right(p, "config", q.config)
  BY DEF Right, NewProcess, Configuration
<1>5. Right(p, "listed", q.listed) /\ Right(p, "fetching", q.fetching)
  BY DEF Right, NewProcess
<1>6. Right(p, "info", q.info) /\ Right(p, "file", q.file)
  BY EmptyIsContent DEF Right, NewProcess, Empty
<1>7. Right(p, "answers", q.answers)
  <2>1. <<>> \in [{} -> AppName \cup {None}]
    OBVIOUS
  <2>2. Partial(<<>>)
    BY <2>1 DEF Partial
  <2> QED
    BY <2>2 DEF Right, NewProcess
<1>8. Right(p, "place", q.place)
  <2>1. Len(Path[p]) \in Nat
    BY ToolAssumption
  <2> QED
    BY <2>1 DEF Right, NewProcess
<1>9. Right(p, "disturbed", q.disturbed)
  BY DEF Right, NewProcess
<1>10. DOMAIN q = Fields /\ q.phase # "writing"
  BY DEF NewProcess, Fields
<1> HIDE DEF q
<1>11. \A f \in Fields : Right(p, f, q[f])
  BY <1>1, <1>2, <1>3, <1>4, <1>5, <1>6, <1>7, <1>8, <1>9 DEF Fields
<1>12. Remembered(p, q)
  BY <1>10, <1>11 DEF Remembered
<1> QED
  BY <1>12 DEF q

\* A process that changes while everything else remains.
LEMMA ProcessTypes ==
    ASSUME TypeInv, UNCHANGED <<outside, config, cache>>, calls' \in 0..MaxCalls,
           NEW p \in Process, NEW r, Remembered(p, r), proc' = [proc EXCEPT ![p] = r]
    PROVE  TypeInv'
<1>1. /\ DOMAIN proc' = Process
      /\ \A q \in Process : Remembered(q, proc'[q])
  BY OneRemembers
<1> QED
  BY <1>1 DEF TypeInv, Around, outside

\* The same for one field.
LEMMA FieldTypes ==
    ASSUME TypeInv, UNCHANGED <<outside, config, cache, calls>>,
           NEW p \in Process, NEW f \in Fields, NEW x, Right(p, f, x),
           f = "phase" => x # "writing",
           f = "answers" => proc[p].phase # "writing",
           proc' = [proc EXCEPT ![p] = [proc[p] EXCEPT ![f] = x]]
    PROVE  TypeInv'
<1> DEFINE r == [proc[p] EXCEPT ![f] = x]
<1>1. Remembered(p, proc[p])
  BY DEF TypeInv
<1>2. Remembered(p, r)
  BY <1>1, FieldChanges
<1>3. calls' \in 0..MaxCalls
  BY DEF TypeInv, Around
<1> HIDE DEF r
<1>4. proc' = [proc EXCEPT ![p] = r]
  BY DEF r
<1> QED
  BY <1>2, <1>3, <1>4, ProcessTypes

\* To cite the fields without expanding them.
LEMMA FieldNames ==
    {"phase", "command", "args", "consent", "dir", "config", "listed", "fetching",
     "info", "file", "answers", "place", "disturbed"} = Fields
  BY DEF Fields

\* The environment of a process.
LEMMA EnvironmentTypes ==
    ASSUME TypeInv, NEW p \in Process
    PROVE  /\ offer[p] \subseteq DOMAIN Commands
           /\ shell[p].args \in SUBSET EnvArgs /\ shell[p].version \in Version
  BY DEF TypeInv, Around, Environment

\* What a call gives to a process.
LEMMA CallTypes ==
    ASSUME TypeInv, NEW p \in Process, NEW c \in offer[p], NEW typed \in 0..Len(Typed),
           NEW flag, Call(p, c, typed, flag)
    PROVE  TypeInv'
<1> DEFINE args == PassArgs(c, typed, shell[p].args)
           consent == IF flag = "force" THEN flag ELSE "none"
           dir == ResolveDir(config, p)
           read == CHOOSE x \in config[dir].content : TRUE
           q0 == NewProcess
           q1 == [q0 EXCEPT !["phase"] = FirstPhase(c, flag)]
           q2 == [q1 EXCEPT !["command"] = c]
           q3 == [q2 EXCEPT !["args"] = args]
           q4 == [q3 EXCEPT !["consent"] = consent]
           q5 == [q4 EXCEPT !["dir"] = dir]
           q6 == [q5 EXCEPT !["config"] = read]
<1>1. /\ proc' = [proc EXCEPT ![p] = IF Commands[c].context THEN q6 ELSE q4]
      /\ Commands[c].context => Configured(p)
      /\ UNCHANGED <<outside, config, cache>>
      /\ calls' = calls + 1 /\ calls < MaxCalls
  BY DEF Call
<1>2. c \in DOMAIN Commands /\ shell[p].args \in SUBSET EnvArgs /\ typed \in 0..5
  BY EnvironmentTypes, TypedArgs
<1>3. Right(p, "phase", FirstPhase(c, flag)) /\ FirstPhase(c, flag) # "writing"
  BY DEF Right, FirstPhase, Phases
<1>4. Right(p, "command", c)
  BY <1>2 DEF Right
<1>5. Right(p, "args", args)
  <2>1. args \in Seq(Arg)
    BY <1>2, ArgumentsInPlace
  <2> HIDE DEF args
  <2> QED
    BY <2>1 DEF Right
<1>6. Right(p, "consent", consent)
  BY DEF Right
<1> HIDE DEF args, consent, dir, read
<1>7. Remembered(p, q4)
  <2>1. Remembered(p, q0)
    BY NewRemembers
  <2> HIDE DEF q0
  <2>2. Remembered(p, q1)
    BY <1>3, <2>1, FieldChanges, FieldNames
  <2> HIDE DEF q1
  <2>3. Remembered(p, q2)
    BY <1>4, <2>2, FieldChanges, FieldNames
  <2> HIDE DEF q2
  <2>4. Remembered(p, q3)
    BY <1>5, <2>3, FieldChanges, FieldNames
  <2> HIDE DEF q3
  <2> QED
    BY <1>6, <2>4, FieldChanges, FieldNames
<1> HIDE DEF q4
<1>8. ASSUME Commands[c].context PROVE Remembered(p, q6)
  <2>1. dir \in Dir /\ config[dir].content # {}
    BY <1>1, <1>8, ResolvedIsIn DEF Configured, dir
  <2>2. read \in Configuration
    <3>1. PICK x \in Configuration : config[dir].content = {x}
      BY <2>1 DEF TypeInv, ConfigFile
    <3> QED
      BY <3>1 DEF read
  <2>3. Right(p, "dir", dir) /\ Right(p, "config", read)
    BY <2>1, <2>2 DEF Right
  <2>4. Remembered(p, q5)
    BY <1>7, <2>3, FieldChanges, FieldNames
  <2> HIDE DEF q5
  <2> QED
    BY <2>3, <2>4, FieldChanges, FieldNames
<1> DEFINE r == IF Commands[c].context THEN q6 ELSE q4
<1>9. Remembered(p, r) /\ proc' = [proc EXCEPT ![p] = r]
  BY <1>1, <1>7, <1>8
<1>10. calls' \in 0..MaxCalls
  BY <1>1, ToolAssumption DEF TypeInv, Around
<1> HIDE DEF r
<1> QED
  BY <1>1, <1>9, <1>10, ProcessTypes

\* Steps that are taken by one process alone and change no file.
LEMMA QuietTypes ==
    ASSUME TypeInv, NEW p \in Process,
           \/ Consent(p) \/ End(p) \/ GetApps(p) \/ Interrupt(p) \/ Search(p)
           \/ \E s \in Setting, name \in AppName \cup {None} : Answer(p, s, name)
    PROVE  TypeInv'
<1>1. Remembered(p, proc[p])
  BY DEF TypeInv
<1>2. CASE Consent(p)
  <2> DEFINE q == [proc[p] EXCEPT !["phase"] = "running"]
             r == [q EXCEPT !["consent"] = "yes"]
  <2>1. proc' = [proc EXCEPT ![p] = r] /\ UNCHANGED <<outside, config, cache, calls>>
    BY <1>2 DEF Consent
  <2>2. Right(p, "phase", "running") /\ Right(p, "consent", "yes")
    BY DEF Right, Phases
  <2>3. Remembered(p, q)
    BY <1>1, <2>2, FieldChanges, FieldNames
  <2> HIDE DEF q
  <2>4. Remembered(p, r)
    BY <2>2, <2>3, FieldChanges, FieldNames
  <2>5. calls' \in 0..MaxCalls
    BY <2>1 DEF TypeInv, Around
  <2> HIDE DEF r
  <2> QED
    BY <2>1, <2>4, <2>5, ProcessTypes
<1>3. CASE End(p) \/ Interrupt(p)
  <2>1. proc' = [proc EXCEPT ![p] = NewProcess] /\ UNCHANGED <<outside, config, cache, calls>>
    BY <1>3 DEF End, Interrupt
  <2>2. calls' \in 0..MaxCalls
    BY <2>1 DEF TypeInv, Around
  <2> QED
    BY <2>1, <2>2, NewRemembers, ProcessTypes
<1>4. CASE GetApps(p)
  <2>1. /\ proc' = [proc EXCEPT ![p] = [proc[p] EXCEPT !["listed"] = {deployed}]]
        /\ UNCHANGED <<outside, config, cache, calls>>
    BY <1>4 DEF GetApps
  <2>2. Right(p, "listed", {deployed})
    BY DEF Right, TypeInv, Around
  <2> QED
    BY <2>1, <2>2, FieldTypes, FieldNames
<1>5. CASE Search(p)
  <2>1. proc[p].place \in 1..Len(Path[p]) + 1 /\ Len(Path[p]) \in Nat
    BY <1>1, FieldsOf, ToolAssumption
  <2>2. UNCHANGED <<outside, config, cache, calls>>
    BY <1>5 DEF Search
  <2>3. CASE proc' = [proc EXCEPT ![p] = [proc[p] EXCEPT !["phase"] = "cleaned"]]
    <3>1. Right(p, "phase", "cleaned")
      BY DEF Right, Phases
    <3> QED
      BY <2>2, <2>3, <3>1, FieldTypes, FieldNames
  <2>4. CASE proc' = [proc EXCEPT ![p] = [proc[p] EXCEPT !["phase"] = "found"]]
    <3>1. Right(p, "phase", "found")
      BY DEF Right, Phases
    <3> QED
      BY <2>2, <2>4, <3>1, FieldTypes, FieldNames
  <2>5. CASE /\ ~(proc[p].place > Len(Path[p]))
             /\ proc' = [proc EXCEPT ![p] = [proc[p] EXCEPT !["place"] = proc[p].place + 1]]
    <3> DEFINE next == proc[p].place + 1
    <3>1. next \in 1..Len(Path[p]) + 1
      BY <2>1, <2>5
    <3> HIDE DEF next
    <3>2. Right(p, "place", next)
      BY <3>1 DEF Right
    <3>3. proc' = [proc EXCEPT ![p] = [proc[p] EXCEPT !["place"] = next]]
      BY <2>5 DEF next
    <3> QED
      BY <2>2, <3>2, <3>3, FieldTypes, FieldNames
  <2> QED
    BY <1>5, <2>3, <2>4, <2>5 DEF Search
<1>6. ASSUME NEW s \in Setting, NEW name \in AppName \cup {None}, Answer(p, s, name)
      PROVE  TypeInv'
  <2> DEFINE old == proc[p].answers
             answers == [x \in DOMAIN old \cup {s} |-> IF x = s THEN name ELSE old[x]]
  <2>1. /\ proc' = [proc EXCEPT ![p] = [proc[p] EXCEPT !["answers"] = answers]]
        /\ UNCHANGED <<outside, config, cache, calls>> /\ proc[p].phase = "dialogue"
    BY <1>6 DEF Answer
  <2>a. Partial(old)
    BY <1>1, FieldsOf
  <2> HIDE DEF old
  <2>2. PICK S \in SUBSET Setting : old \in [S -> AppName \cup {None}]
    BY <2>a DEF Partial
  <2>3. answers \in [S \cup {s} -> AppName \cup {None}] /\ S \cup {s} \in SUBSET Setting
    BY <2>2
  <2> HIDE DEF answers
  <2>4. Partial(answers)
    BY <2>3 DEF Partial
  <2>5. Right(p, "answers", answers)
    BY <2>4 DEF Right
  <2> QED
    BY <2>1, <2>5, FieldTypes, FieldNames
<1> QED
  BY <1>2, <1>3, <1>4, <1>5, <1>6

\* What is stored for a name, or nothing.
LEMMA ContentOf ==
    ASSUME NEW content \in Content, NEW a \in AppName
    PROVE  content[a] \subseteq Entry
  BY DEF Content

\* What is taken from a file are entries.
LEMMA LookUpTypes ==
    ASSUME TypeInv, NEW p \in Process, NEW a \in AppName, LookUp(p, a)
    PROVE  TypeInv'
<1>1. Remembered(p, proc[p]) /\ UNCHANGED <<outside, config, cache, calls>>
  BY DEF TypeInv, LookUp
<1>2. CASE ReadPersisted(p, a) = {}
  <2> DEFINE fetching == proc[p].fetching \cup {a}
  <2>1. proc' = [proc EXCEPT ![p] = [proc[p] EXCEPT !["fetching"] = fetching]]
    BY <1>2 DEF LookUp
  <2>2. fetching \subseteq AppName
    BY <1>1, FieldsOf
  <2> HIDE DEF fetching
  <2>3. Right(p, "fetching", fetching)
    BY <2>2 DEF Right
  <2> QED
    BY <1>1, <2>1, <2>3, FieldTypes, FieldNames
<1>3. CASE ReadPersisted(p, a) # {}
  <2>1. PICK e \in ReadPersisted(p, a) : proc' = [proc EXCEPT ![p].info[a] = Using(e, FALSE)]
    BY <1>3 DEF LookUp
  <2> DEFINE info == [proc[p].info EXCEPT ![a] = Using(e, FALSE)]
  <2>2. proc' = [proc EXCEPT ![p] = [proc[p] EXCEPT !["info"] = info]]
    BY <2>1
  <2>3. e \in Entry
    <3>1. proc[p].dir \in Dir
      BY <1>1, FieldsOf
    <3>2. cache[proc[p].dir].content \in Content
      BY <3>1 DEF TypeInv, Stored
    <3>3. e \in cache[proc[p].dir].content[a]
      BY DEF ReadPersisted
    <3> QED
      BY <3>2, <3>3, ContentOf
  <2>4. \A i \in Using(e, FALSE) : i.entry \in Entry
    BY <2>3 DEF Using
  <2>a. DOMAIN info = AppName
    BY <1>1, FieldsOf
  <2>5. ASSUME NEW b \in AppName, NEW i \in info[b] PROVE i.entry \in Entry
    <3>1. \A c \in AppName : \A j \in proc[p].info[c] : j.entry \in Entry
      BY <1>1, FieldsOf
    <3>3. DOMAIN proc[p].info = AppName
      BY <1>1, FieldsOf
    <3>2. i \in proc[p].info[b] \/ i \in Using(e, FALSE)
      BY <2>5, <3>3
    <3> QED
      BY <2>4, <3>1, <3>2
  <2> HIDE DEF info
  <2>6. Right(p, "info", info)
    BY <2>5, <2>a DEF Right
  <2> QED
    BY <1>1, <2>2, <2>6, FieldTypes, FieldNames
<1> QED
  BY <1>2, <1>3

\* An app that is found was listed.
LEMMA FoundAppType ==
    ASSUME NEW p \in Process, NEW a \in AppName, NEW app \in AppByName(p, a),
           \A apps \in proc[p].listed : apps \subseteq App
    PROVE  app \in App
<1> DEFINE suffixes == AppNameCandidates(p)
           matching == {i \in 1..Len(suffixes) :
                           \E apps \in proc[p].listed : <<a, suffixes[i]>> \in apps}
<1>1. matching # {} /\ app = <<a, suffixes[Min(matching)]>>
  BY DEF AppByName
<1>2. matching \subseteq Nat
  <2>1. suffixes \in Seq(STRING \cup {LiveSuffix})
    BY ToolAssumption DEF AppNameCandidates
  <2> QED
    BY <2>1
<1>3. Min(matching) \in matching
  <2> HIDE DEF matching
  <2> QED
    BY <1>1, <1>2, MinIsIn
<1>4. PICK apps \in proc[p].listed : <<a, suffixes[Min(matching)]>> \in apps
  <2> DEFINE k == Min(matching)
  <2>1. k \in matching
    BY <1>3
  <2> HIDE DEF k
  <2>2. \E apps \in proc[p].listed : <<a, suffixes[k]>> \in apps
    BY <2>1
  <2> QED
    BY <2>2 DEF k
<1> QED
  BY <1>1, <1>4

\* What is collected is an entry.
LEMMA GetRawAppInfoTypes ==
    ASSUME TypeInv, NEW p \in Process, NEW a \in AppName, GetRawAppInfo(p, a)
    PROVE  TypeInv'
<1>1. Remembered(p, proc[p]) /\ UNCHANGED <<outside, config, cache, calls>>
  BY DEF TypeInv, GetRawAppInfo
<1> DEFINE E(app) == [name |-> a, app |-> app, stamp |-> now, version |-> shell[p].version]
           Content1(e) == [cache[proc[p].dir].content EXCEPT ![a] = {e}]
<1>2. PICK app \in AppByName(p, a) :
        proc' = [proc EXCEPT ![p].phase = "storing", ![p].fetching = @ \ {a},
                             ![p].info[a] = Using(E(app), TRUE),
                             ![p].file = Content1(E(app)), ![p].disturbed = FALSE]
  BY DEF GetRawAppInfo
<1> DEFINE e == E(app)
           fetching == proc[p].fetching \ {a}
           info == [proc[p].info EXCEPT ![a] = Using(e, TRUE)]
           file == Content1(e)
           q1 == [proc[p] EXCEPT !["phase"] = "storing"]
           q2 == [q1 EXCEPT !["fetching"] = fetching]
           q3 == [q2 EXCEPT !["info"] = info]
           q4 == [q3 EXCEPT !["file"] = file]
           q5 == [q4 EXCEPT !["disturbed"] = FALSE]
<1>3. proc' = [proc EXCEPT ![p] = q5]
  <2>1. q2.info = proc[p].info
    BY <1>1, FieldNames DEF Remembered
  <2> QED
    BY <1>2
<1>4. e \in Entry
  <2>1. app \in App
    BY <1>1, FieldsOf, FoundAppType
  <2>2. shell[p].version \in Version /\ now \in 0..MaxTime
    BY EnvironmentTypes DEF TypeInv, Around
  <2> QED
    BY <2>1, <2>2 DEF Entry
<1>5. file \in Content
  <2>1. cache[proc[p].dir].content \in Content
    BY <1>1, FieldsOf DEF TypeInv, Stored
  <2> HIDE DEF e
  <2> QED
    BY <1>4, <2>1 DEF Content
<1>6. ASSUME NEW b \in AppName, NEW i \in info[b] PROVE i.entry \in Entry
  <2>1. \A c \in AppName : \A j \in proc[p].info[c] : j.entry \in Entry
    BY <1>1, FieldsOf
  <2> HIDE DEF e
  <2>2. \A j \in Using(e, TRUE) : j.entry \in Entry
    BY <1>4 DEF Using
  <2>4. DOMAIN proc[p].info = AppName
    BY <1>1, FieldsOf
  <2>3. i \in proc[p].info[b] \/ i \in Using(e, TRUE)
    BY <1>6, <2>4
  <2> QED
    BY <2>1, <2>2, <2>3
<1>15. DOMAIN info = AppName
  BY <1>1, FieldsOf
<1>7. fetching \subseteq AppName
  BY <1>1, FieldsOf
<1> HIDE DEF e, info, file, fetching
<1>8. Right(p, "phase", "storing") /\ Right(p, "fetching", fetching)
  BY <1>7 DEF Right, Phases
<1>9. Right(p, "info", info) /\ Right(p, "file", file)
  BY <1>5, <1>6, <1>15 DEF Right
<1>10. Remembered(p, q1)
  BY <1>1, <1>8, FieldChanges, FieldNames
<1> HIDE DEF q1
<1>11. Remembered(p, q2)
  BY <1>8, <1>10, FieldChanges, FieldNames
<1> HIDE DEF q2
<1>12. Remembered(p, q3)
  BY <1>9, <1>11, FieldChanges, FieldNames
<1> HIDE DEF q3
<1>13. Remembered(p, q4)
  BY <1>9, <1>12, FieldChanges, FieldNames
<1> HIDE DEF q4
<1>16. Right(p, "disturbed", FALSE)
  BY DEF Right
<1>17. Remembered(p, q5)
  BY <1>13, <1>16, FieldChanges, FieldNames
<1>14. calls' \in 0..MaxCalls
  BY <1>1 DEF TypeInv, Around
<1> HIDE DEF q5
<1> QED
  BY <1>1, <1>3, <1>17, <1>14, ProcessTypes

\* Where others are disturbed.
LEMMA DisturbTypes ==
    ASSUME TypeInv, NEW p \in Process, NEW r, Remembered(p, r), NEW d, Disturb(p, r, d)
    PROVE  /\ DOMAIN proc' = Process
           /\ \A q \in Process : Remembered(q, proc'[q])
<1> DEFINE over(q) == proc[q].disturbed \/ Concerns(q, d)
<1>1. proc' = [q \in Process |-> IF q = p THEN r ELSE [proc[q] EXCEPT !["disturbed"] = over(q)]]
  BY DEF Disturb
<1>2. ASSUME NEW q \in Process PROVE Remembered(q, [proc[q] EXCEPT !["disturbed"] = over(q)])
  <2>1. Right(q, "disturbed", over(q))
    BY DEF Right
  <2> HIDE DEF over
  <2>2. Remembered(q, proc[q])
    BY DEF TypeInv
  <2> QED
    BY <2>1, <2>2, FieldChanges, FieldNames
<1> HIDE DEF over
<1> QED
  BY <1>1, <1>2

\* Where files change and processes remember what they may.
LEMMA FilesTypes ==
    ASSUME TypeInv, UNCHANGED <<outside, calls>>,
           config' \in [Dir -> ConfigFile], DOMAIN cache' = Dir,
           \A d \in Dir : Stored(cache'[d]),
           DOMAIN proc' = Process, \A q \in Process : Remembered(q, proc'[q])
    PROVE  TypeInv'
  BY DEF TypeInv, Around, outside

\* Caches have the right types, whatever gets mixed up.
LEMMA CacheTypes ==
    ASSUME TypeInv, NEW p \in Process,
           TruncateCache(p) \/ WriteCache(p) \/ WriteUnlinked(p) \/ RemoveCache(p)
    PROVE  TypeInv'
<1>1. /\ UNCHANGED <<outside, calls>> /\ config' \in [Dir -> ConfigFile]
      /\ Remembered(p, proc[p]) /\ DOMAIN cache = Dir
      /\ \A d \in Dir : Stored(cache[d])
  BY DEF TruncateCache, WriteCache, WriteUnlinked, RemoveCache, TypeInv
<1>2. Stored(File(Empty)) /\ Stored(Absent(Empty))
  BY EmptyIsContent DEF Stored, File, Absent
<1>3. CASE TruncateCache(p)
  <2> DEFINE r == [proc[p] EXCEPT !["phase"] = "truncated"]
  <2>1. /\ cache' = [cache EXCEPT ![proc[p].dir] = File(Empty)]
        /\ Disturb(p, r, proc[p].dir)
    BY <1>3 DEF TruncateCache
  <2>2. Right(p, "phase", "truncated")
    BY DEF Right, Phases
  <2>3. Remembered(p, r)
    BY <1>1, <2>2, FieldChanges, FieldNames
  <2> HIDE DEF r
  <2>4. DOMAIN cache' = Dir /\ \A d \in Dir : Stored(cache'[d])
    BY <1>1, <1>2, <2>1
  <2>5. DOMAIN proc' = Process /\ \A q \in Process : Remembered(q, proc'[q])
    BY <2>1, <2>3, DisturbTypes
  <2> QED
    BY <1>1, <2>4, <2>5, FilesTypes
<1>4. CASE WriteCache(p)
  <2> DEFINE d == proc[p].dir
             q == [proc[p] EXCEPT !["phase"] = "running"]
             r == [q EXCEPT !["file"] = Empty]
  <2>1. Disturb(p, r, d)
    BY <1>4 DEF WriteCache
  <2>2. PICK content \in {proc[p].file, Empty} : cache' = [cache EXCEPT ![d] = File(content)]
    BY <1>4 DEF WriteCache
  <2>3. content \in Content
    BY <1>1, FieldsOf, EmptyIsContent
  <2>4. Stored(File(content))
    BY <2>3 DEF Stored, File
  <2>5. Right(p, "phase", "running") /\ Right(p, "file", Empty)
    BY EmptyIsContent DEF Right, Phases
  <2>6. Remembered(p, q)
    BY <1>1, <2>5, FieldChanges, FieldNames
  <2> HIDE DEF q
  <2>7. Remembered(p, r)
    BY <2>5, <2>6, FieldChanges, FieldNames
  <2> HIDE DEF r, d
  <2>8. DOMAIN cache' = Dir /\ \A c \in Dir : Stored(cache'[c])
    BY <1>1, <2>2, <2>4
  <2>9. DOMAIN proc' = Process /\ \A s \in Process : Remembered(s, proc'[s])
    BY <2>1, <2>7, DisturbTypes
  <2> QED
    BY <1>1, <2>8, <2>9, FilesTypes
<1>5. CASE RemoveCache(p)
  <2> DEFINE d == Path[p][proc[p].place]
             q == [proc[p] EXCEPT !["phase"] = "cleaning"]
             r == [q EXCEPT !["place"] = 1]
  <2>1. cache' = [cache EXCEPT ![d] = Absent(Empty)] /\ Unlink(p, r, d)
    BY <1>5 DEF RemoveCache
  <2>2. Right(p, "phase", "cleaning")
    BY DEF Right, Phases
  <2>3. Right(p, "place", 1)
    <3>1. Len(Path[p]) \in Nat
      BY ToolAssumption
    <3> QED
      BY <3>1 DEF Right
  <2>4. Remembered(p, q)
    BY <1>1, <2>2, FieldChanges, FieldNames
  <2> HIDE DEF q
  <2>5. Remembered(p, r)
    BY <2>3, <2>4, FieldChanges, FieldNames
  <2> HIDE DEF r, d
  <2>6. DOMAIN cache' = Dir /\ \A c \in Dir : Stored(cache'[c])
    BY <1>1, <1>2, <2>1
  <2>7. DOMAIN proc' = Process /\ \A s \in Process : Remembered(s, proc'[s])
    <3>1. /\ DOMAIN proc' = Process /\ proc'[p] = r
          /\ \A s \in Process : s # p =>
                \/ proc'[s] = proc[s]
                \/ proc'[s] = [proc[s] EXCEPT !["phase"] = "unlinked"]
      BY <2>1, Unlinked DEF TypeInv
    <3>2. ASSUME NEW s \in Process
          PROVE  /\ Remembered(s, proc[s])
                 /\ Remembered(s, [proc[s] EXCEPT !["phase"] = "unlinked"])
      <4>1. Remembered(s, proc[s])
        BY DEF TypeInv
      <4>2. Right(s, "phase", "unlinked")
        BY DEF Right, Phases
      <4> QED
        BY <4>1, <4>2, FieldChanges, FieldNames
    <3> QED
      BY <2>5, <3>1, <3>2
  <2> QED
    BY <1>1, <2>6, <2>7, FilesTypes
<1>6. CASE WriteUnlinked(p)
  <2> DEFINE q == [proc[p] EXCEPT !["phase"] = "running"]
             r == [q EXCEPT !["file"] = Empty]
  <2>1. proc' = [proc EXCEPT ![p] = r] /\ UNCHANGED cache
    BY <1>6 DEF WriteUnlinked
  <2>2. Right(p, "phase", "running") /\ Right(p, "file", Empty)
    BY EmptyIsContent DEF Right, Phases
  <2>3. Remembered(p, q)
    BY <1>1, <2>2, FieldChanges, FieldNames
  <2> HIDE DEF q
  <2>4. Remembered(p, r)
    BY <2>2, <2>3, FieldChanges, FieldNames
  <2> HIDE DEF r
  <2>5. DOMAIN proc' = Process /\ \A s \in Process : Remembered(s, proc'[s])
    BY <2>1, <2>4, OneRemembers
  <2> QED
    BY <1>1, <2>1, <2>5, FilesTypes
<1> QED
  BY <1>3, <1>4, <1>5, <1>6

\* A configuration names an app, or none, for every setting.
LEMMA ConfigTypes ==
    ASSUME TypeInv, NEW p \in Process, TruncateConfig(p) \/ WriteConfig(p)
    PROVE  TypeInv'
<1>1. /\ UNCHANGED <<outside, cache, calls>> /\ DOMAIN cache' = Dir
      /\ \A d \in Dir : Stored(cache'[d])
      /\ Remembered(p, proc[p]) /\ config \in [Dir -> ConfigFile]
  BY DEF TruncateConfig, WriteConfig, TypeInv
<1>2. File({}) \in ConfigFile
  BY DEF File, ConfigFile
<1> DEFINE d == SetupDir(p)
<1>3. CASE TruncateConfig(p)
  <2> DEFINE r == [proc[p] EXCEPT !["phase"] = "writing"]
  <2>1. /\ config' = [config EXCEPT ![d] = File({})] /\ proc' = [proc EXCEPT ![p] = r]
        /\ DOMAIN proc[p].answers = Setting
    BY <1>3 DEF TruncateConfig
  <2>2. Right(p, "phase", "writing")
    BY DEF Right, Phases
  <2>3. Remembered(p, r)
    <3>1. /\ DOMAIN r = Fields
          /\ \A g \in Fields : r[g] = IF g = "phase" THEN "writing" ELSE proc[p][g]
      BY <1>1 DEF Remembered
    <3>2. r.answers = proc[p].answers
      BY <3>1, FieldNames
    <3> HIDE DEF r
    <3>3. \A g \in Fields : Right(p, g, r[g])
      BY <1>1, <2>2, <3>1 DEF Remembered
    <3> QED
      BY <2>1, <3>1, <3>2, <3>3 DEF Remembered
  <2> HIDE DEF r, d
  <2>4. config' \in [Dir -> ConfigFile]
    BY <1>1, <1>2, <2>1
  <2>5. DOMAIN proc' = Process /\ \A q \in Process : Remembered(q, proc'[q])
    BY <2>1, <2>3, OneRemembers
  <2> QED
    BY <1>1, <2>4, <2>5, FilesTypes
<1>4. CASE WriteConfig(p)
  <2>1. PICK content \in {{proc[p].answers}, {}} : config' = [config EXCEPT ![d] = File(content)]
    BY <1>4 DEF WriteConfig
  <2>2. proc[p].phase = "writing" /\ proc' = [proc EXCEPT ![p] = NewProcess]
    BY <1>4 DEF WriteConfig
  <2>3. proc[p].answers \in Configuration
    <3> DEFINE answers == proc[p].answers
    <3>1. DOMAIN answers = Setting
      BY <1>1, <2>2 DEF Remembered
    <3>2. Partial(answers)
      BY <1>1, FieldsOf
    <3> HIDE DEF answers
    <3>3. PICK S \in SUBSET Setting : answers \in [S -> AppName \cup {None}]
      BY <3>2 DEF Partial
    <3> QED
      BY <3>1, <3>3 DEF Configuration, answers
  <2>4. File(content) \in ConfigFile
    BY <2>3 DEF File, ConfigFile
  <2> HIDE DEF d
  <2>5. config' \in [Dir -> ConfigFile]
    BY <1>1, <2>1, <2>4
  <2>6. DOMAIN proc' = Process /\ \A q \in Process : Remembered(q, proc'[q])
    BY <2>2, NewRemembers, OneRemembers
  <2> QED
    BY <1>1, <2>5, <2>6, FilesTypes
<1> QED
  BY <1>3, <1>4

\* The types hold at first and are kept by every step.
LEMMA TypeInit == Init => TypeInv
<1> SUFFICES ASSUME Init PROVE TypeInv
  OBVIOUS
<1>1. PICK scene \in Scenes :
        /\ offer = scene.offer /\ shell = scene.shell
        /\ config = [d \in Dir |-> IF d \in DOMAIN scene.config THEN File({scene.config[d]})
                                  ELSE Absent({})]
        /\ deployed = {<<x, scene.suffix[x]>> : x \in AppName}
        /\ cache = [d \in Dir |-> Absent(Empty)]
        /\ deploys = scene.deploys /\ now = 0 /\ calls = scene.calls
        /\ proc = [p \in Process |-> NewProcess]
  BY DEF Init
<1>2. /\ scene.offer \in [Process -> SUBSET DOMAIN Commands]
      /\ scene.shell \in [Process -> Environment]
      /\ \A d \in DOMAIN scene.config : scene.config[d] \in Configuration
      /\ scene.suffix \in [AppName -> Range(AppSuffixes) \cup {LiveSuffix}]
      /\ scene.deploys \in 0..MaxDeploys /\ scene.calls \in 0..MaxCalls
  BY SceneAssumption
<1>3. Around
  <2>1. deployed \subseteq App
    BY <1>1, <1>2 DEF App
  <2>2. now \in 0..MaxTime
    BY <1>1, ToolAssumption
  <2> QED
    BY <1>1, <1>2, <2>1, <2>2 DEF Around
<1>4. config \in [Dir -> ConfigFile]
  <2>1. ASSUME NEW d \in Dir
        PROVE  (IF d \in DOMAIN scene.config THEN File({scene.config[d]}) ELSE Absent({}))
                  \in ConfigFile
    BY <1>2 DEF File, Absent, ConfigFile
  <2> QED
    BY <1>1, <2>1
<1>5. DOMAIN cache = Dir /\ \A d \in Dir : Stored(cache[d])
  <2>1. Stored(Absent(Empty))
    BY EmptyIsContent DEF Stored, Absent
  <2> QED
    BY <1>1, <2>1
<1>6. DOMAIN proc = Process /\ \A p \in Process : Remembered(p, proc[p])
  BY <1>1, NewRemembers
<1> QED
  BY <1>3, <1>4, <1>5, <1>6 DEF TypeInv

LEMMA TypeNext == TypeInv /\ [Next]_vars => TypeInv'
<1> SUFFICES ASSUME TypeInv, [Next]_vars PROVE TypeInv'
  OBVIOUS
<1>1. ASSUME NEW p \in Process, Begin(p) PROVE TypeInv'
  BY <1>1, CallTypes DEF Begin
<1>2. ASSUME NEW p \in Process, Information(p) PROVE TypeInv'
  BY <1>2, QuietTypes, LookUpTypes, GetRawAppInfoTypes, CacheTypes DEF Information
<1>3. ASSUME NEW p \in Process, Setup(p) PROVE TypeInv'
  BY <1>3, QuietTypes, CacheTypes, ConfigTypes DEF Setup
<1>4. ASSUME NEW p \in Process, Consent(p) \/ End(p) PROVE TypeInv'
  BY <1>4, QuietTypes
<1>5. ASSUME UNCHANGED <<config, cache, proc>>, Around' PROVE TypeInv'
  BY <1>5 DEF TypeInv
<1>6. ASSUME NEW old \in App, NEW new \in App, Deploy(old, new) PROVE TypeInv'
  <2>1. /\ deployed' = (deployed \ {old}) \cup {new} /\ deploys < MaxDeploys
        /\ deploys' = deploys + 1 /\ UNCHANGED <<offer, shell, config, cache, now, calls, proc>>
    BY <1>6 DEF Deploy
  <2>2. Around'
    BY <2>1, ToolAssumption DEF TypeInv, Around
  <2> QED
    BY <1>5, <2>1, <2>2
<1>7. CASE Tick
  <2>1. /\ now < MaxTime /\ now' = now + 1
        /\ UNCHANGED <<offer, shell, config, cache, deployed, deploys, calls, proc>>
    BY <1>7 DEF Tick
  <2>2. Around'
    BY <2>1, ToolAssumption DEF TypeInv, Around
  <2> QED
    BY <1>5, <2>1, <2>2
<1>8. CASE UNCHANGED vars
  BY <1>5, <1>8 DEF vars, TypeInv, Around
<1> QED
  BY <1>1, <1>2, <1>3, <1>4, <1>6, <1>7, <1>8 DEF Next

LEMMA Types == Spec => []TypeInv
  BY TypeInit, TypeNext, PTL DEF Spec

LEMMA TypesAreRight == TypeInv => TypeOK
<1> SUFFICES ASSUME TypeInv PROVE TypeOK
  OBVIOUS
<1>1. \A d \in Dir : cache[d].exists \in BOOLEAN /\ cache[d].content \in Content
  BY DEF TypeInv, Stored
<1>2. ASSUME NEW p \in Process, NEW s \in DOMAIN proc[p].answers
      PROVE  proc[p].answers[s] \in AppName \cup {None}
  <2> DEFINE answers == proc[p].answers
  <2>1. Partial(answers)
    BY FieldsOf DEF TypeInv
  <2>2. s \in DOMAIN answers
    OBVIOUS
  <2> HIDE DEF answers
  <2>3. answers[s] \in AppName \cup {None}
    BY <2>1, <2>2 DEF Partial
  <2> QED
    BY <2>3 DEF answers
<1>3. ASSUME NEW p \in Process
      PROVE  LET q == proc[p]
             IN /\ q.phase \in Phases /\ q.command \in DOMAIN Commands /\ q.dir \in Dir
                /\ q.args \in Seq(Range(Typed) \cup EnvArgs)
                /\ q.consent \in {"none", "yes", "force"}
                /\ q.config \in Configuration
                /\ \A apps \in q.listed : apps \subseteq App
                /\ q.fetching \subseteq AppName
                /\ \A a \in AppName : \A i \in q.info[a] : i.entry \in Entry
                /\ q.file \in Content
                /\ \A s \in DOMAIN q.answers : q.answers[s] \in AppName \cup {None}
                /\ q.place \in 1..Len(Path[p]) + 1 /\ q.disturbed \in BOOLEAN
  <2>1. Remembered(p, proc[p])
    BY DEF TypeInv
  <2> QED
    BY <1>2, <2>1, FieldsOf DEF Arg
<1> QED
  BY <1>1, <1>3 DEF TypeOK, TypeInv, Around, ConfigFile

\* Types are kept: in particular every argument was typed or stands for a variable,
\* and only apps, names and versions that there are get into files and processes.
THEOREM ToolTypeCorrect == Spec => []TypeOK
  BY Types, TypesAreRight, PTL

-----------------------------------------------------------------------------
(* Commands run as asked                                                   *)

\* A command that has started has its arguments in place; one that does not wait
\* for consent does not need it or has it.
Asked(q, env) ==
    /\ q.phase # "idle" => InPlace(q.command, q.args, env)
    /\ q.phase \notin {"idle", "consent"} /\ Commands[q.command].danger => q.consent # "none"

AskedInv == \A p \in Process : Asked(proc[p], shell[p].args)

\* A command goes on as it was asked.
GoesOn(q, r) ==
    /\ r.command = q.command /\ r.args = q.args /\ r.consent = q.consent
    /\ r.phase = q.phase \/ {r.phase, q.phase} \cap {"idle", "consent"} = {}

LEMMA GoingOn ==
    ASSUME NEW q, NEW r, NEW env, Asked(q, env), GoesOn(q, r)
    PROVE  Asked(r, env)
  BY DEF Asked, GoesOn

LEMMA NewIsAsked == \A env : Asked(NewProcess, env)
  BY DEF Asked, NewProcess

\* Where one process changes, it is enough to look at that one.
LEMMA OneAsked ==
    ASSUME AskedInv, Shaped, UNCHANGED shell, NEW p \in Process, NEW r, Asked(r, shell[p].args),
           proc' = [proc EXCEPT ![p] = r]
    PROVE  AskedInv'
<1>1. \A q \in Process : proc'[q] = IF q = p THEN r ELSE proc[q]
  BY DEF Shaped
<1>2. ASSUME NEW q \in Process PROVE Asked(proc'[q], shell'[q].args)
  BY <1>1 DEF AskedInv
<1> QED
  BY <1>2 DEF AskedInv

\* A call is accepted with its arguments in place only, and it waits for consent
\* if it needs one that was not given with it.
LEMMA CallIsAsked ==
    ASSUME AskedInv, Shaped, TypeInv, NEW p \in Process, NEW c \in offer[p],
           NEW typed \in 0..Len(Typed), NEW flag, Call(p, c, typed, flag)
    PROVE  AskedInv'
<1> DEFINE args == PassArgs(c, typed, shell[p].args)
           consent == IF flag = "force" THEN flag ELSE "none"
           phase == FirstPhase(c, flag)
           dir == ResolveDir(config, p)
           read == CHOOSE x \in config[dir].content : TRUE
           start == [NewProcess EXCEPT !.phase = phase, !.command = c, !.args = args,
                                       !.consent = consent]
           r == IF Commands[c].context THEN [start EXCEPT !.dir = dir, !.config = read]
                ELSE start
<1>1. /\ proc' = [proc EXCEPT ![p] = r] /\ UNCHANGED shell
      /\ Accepts(c, args, flag)
  BY DEF Call, outside
<1>2. c \in DOMAIN Commands /\ shell[p].args \in SUBSET EnvArgs /\ typed \in 0..5
  BY EnvironmentTypes, TypedArgs
<1>3. InPlace(c, args, shell[p].args)
  BY <1>1, <1>2, ArgumentsInPlace
<1>4. ASSUME phase \notin {"idle", "consent"}, Commands[c].danger PROVE consent # "none"
  <2>1. CASE c \in {"setup", "setupLocal", "setupCleanCache"}
    BY <1>4, <2>1, SetupIsHarmless
  <2>2. CASE c \notin {"setup", "setupLocal", "setupCleanCache"}
    BY <1>4, <2>2 DEF FirstPhase
  <2> QED
    BY <2>1, <2>2
<1> HIDE DEF args, consent, phase, dir, read
<1>5. r.phase = phase /\ r.command = c /\ r.args = args /\ r.consent = consent
  BY DEF NewProcess
<1> HIDE DEF r
<1>6. Asked(r, shell[p].args)
  BY <1>3, <1>4, <1>5 DEF Asked
<1> QED
  BY <1>1, <1>6, OneAsked

\* A process that goes on with some of its fields changed.
LEMMA FieldIsAsked ==
    ASSUME AskedInv, Shaped, UNCHANGED shell, NEW p \in Process, NEW r, GoesOn(proc[p], r),
           proc' = [proc EXCEPT ![p] = r]
    PROVE  AskedInv'
<1>1. Asked(r, shell[p].args)
  BY GoingOn DEF AskedInv
<1> QED
  BY <1>1, OneAsked

\* Only these fields change when information is collected.
LEMMA Collected ==
    ASSUME NEW p \in Process, NEW a \in AppName, GetRawAppInfo(p, a)
    PROVE  /\ proc[p].phase = "running"
           /\ \E fetching, info, file :
                 proc' = [proc EXCEPT ![p] = [proc[p] EXCEPT !.phase = "storing",
                                                 !.fetching = fetching, !.info = info,
                                                 !.file = file, !.disturbed = FALSE]]
<1> DEFINE E(app) == [name |-> a, app |-> app, stamp |-> now, version |-> shell[p].version]
           Content1(e) == [cache[proc[p].dir].content EXCEPT ![a] = {e}]
<1>1. PICK app \in AppByName(p, a) :
        proc' = [proc EXCEPT ![p].phase = "storing", ![p].fetching = @ \ {a},
                             ![p].info[a] = Using(E(app), TRUE),
                             ![p].file = Content1(E(app)), ![p].disturbed = FALSE]
  BY DEF GetRawAppInfo
<1> DEFINE fetching == proc[p].fetching \ {a}
           info == [proc[p].info EXCEPT ![a] = Using(E(app), TRUE)]
           file == Content1(E(app))
<1>2. proc' = [proc EXCEPT ![p] = [proc[p] EXCEPT !.phase = "storing",
                                      !.fetching = fetching, !.info = info, !.file = file,
                                      !.disturbed = FALSE]]
  BY <1>1
<1>3. proc[p].phase = "running"
  BY DEF GetRawAppInfo
<1> HIDE DEF fetching, info, file
<1> QED
  BY <1>2, <1>3

\* The other steps of a process.
LEMMA ProcessIsAsked ==
    ASSUME AskedInv, Shaped, NEW p \in Process,
           \/ Consent(p) \/ End(p) \/ GetApps(p) \/ Interrupt(p) \/ TruncateConfig(p)
           \/ WriteConfig(p) \/ Search(p) \/ WriteUnlinked(p)
           \/ \E a \in AppName : LookUp(p, a) \/ GetRawAppInfo(p, a)
           \/ \E s \in Setting, name \in AppName \cup {None} : Answer(p, s, name)
    PROVE  AskedInv'
<1>1. DOMAIN proc[p] = Fields /\ UNCHANGED shell
  BY DEF Shaped, Shape, Consent, End, GetApps, Interrupt, TruncateConfig, WriteConfig, Search,
         WriteUnlinked, LookUp, GetRawAppInfo, Answer, outside
<1>2. CASE Consent(p)
  <2> DEFINE r == [proc[p] EXCEPT !.phase = "running", !.consent = "yes"]
  <2>1. proc' = [proc EXCEPT ![p] = r] /\ proc[p].phase = "consent"
    BY <1>2 DEF Consent
  <2>2. /\ r.command = proc[p].command /\ r.args = proc[p].args /\ r.consent = "yes"
    BY <1>1 DEF Fields
  <2>3. Asked(r, shell[p].args)
    <3> HIDE DEF r
    <3> QED
      BY <2>1, <2>2 DEF AskedInv, Asked
  <2> HIDE DEF r
  <2> QED
    BY <1>1, <2>1, <2>3, OneAsked
<1>3. CASE End(p) \/ Interrupt(p) \/ WriteConfig(p)
  <2>1. proc' = [proc EXCEPT ![p] = NewProcess]
    BY <1>3 DEF End, Interrupt, WriteConfig
  <2> QED
    BY <1>1, <2>1, NewIsAsked, OneAsked
<1>4. CASE GetApps(p)
  <2> DEFINE r == [proc[p] EXCEPT !.listed = {deployed}]
  <2>1. proc' = [proc EXCEPT ![p] = r]
    BY <1>4 DEF GetApps
  <2>2. GoesOn(proc[p], r)
    BY <1>1 DEF GoesOn, Fields
  <2> HIDE DEF r
  <2> QED
    BY <1>1, <2>1, <2>2, FieldIsAsked
<1>5. CASE TruncateConfig(p)
  <2> DEFINE r == [proc[p] EXCEPT !.phase = "writing"]
  <2>1. proc' = [proc EXCEPT ![p] = r] /\ proc[p].phase = "dialogue"
    BY <1>5 DEF TruncateConfig
  <2>2. GoesOn(proc[p], r)
    BY <1>1, <2>1 DEF GoesOn, Fields
  <2> HIDE DEF r
  <2> QED
    BY <1>1, <2>1, <2>2, FieldIsAsked
<1>6. CASE Search(p)
  <2>1. PICK r \in {[proc[p] EXCEPT !.phase = "cleaned"], [proc[p] EXCEPT !.phase = "found"],
                    [proc[p] EXCEPT !.place = proc[p].place + 1]} :
          proc' = [proc EXCEPT ![p] = r]
    BY <1>6 DEF Search
  <2>2. GoesOn(proc[p], r)
    BY <1>1, <1>6 DEF Search, GoesOn, Fields
  <2> QED
    BY <1>1, <2>1, <2>2, FieldIsAsked
<1>7. CASE WriteUnlinked(p)
  <2> DEFINE r == [proc[p] EXCEPT !.phase = "running", !.file = Empty]
  <2>1. proc' = [proc EXCEPT ![p] = r] /\ proc[p].phase = "unlinked"
    BY <1>7 DEF WriteUnlinked
  <2>2. GoesOn(proc[p], r)
    BY <1>1, <2>1 DEF GoesOn, Fields
  <2> HIDE DEF r
  <2> QED
    BY <1>1, <2>1, <2>2, FieldIsAsked
<1>8. ASSUME NEW a \in AppName, LookUp(p, a) PROVE AskedInv'
  <2>1. \/ \E x : proc' = [proc EXCEPT ![p] = [proc[p] EXCEPT !.info = x]]
        \/ \E x : proc' = [proc EXCEPT ![p] = [proc[p] EXCEPT !.fetching = x]]
    BY <1>8 DEF LookUp
  <2>2. \A x : /\ GoesOn(proc[p], [proc[p] EXCEPT !.info = x])
               /\ GoesOn(proc[p], [proc[p] EXCEPT !.fetching = x])
    BY <1>1 DEF GoesOn, Fields
  <2> QED
    BY <1>1, <2>1, <2>2, FieldIsAsked
<1>9. ASSUME NEW a \in AppName, GetRawAppInfo(p, a) PROVE AskedInv'
  <2>1. PICK fetching, info, file :
          proc' = [proc EXCEPT ![p] = [proc[p] EXCEPT !.phase = "storing",
                                          !.fetching = fetching, !.info = info,
                                          !.file = file, !.disturbed = FALSE]]
    BY <1>9, Collected
  <2> DEFINE r == [proc[p] EXCEPT !.phase = "storing", !.fetching = fetching, !.info = info,
                                  !.file = file, !.disturbed = FALSE]
  <2>2. proc[p].phase = "running"
    BY <1>9, Collected
  <2>3. GoesOn(proc[p], r)
    BY <1>1, <2>2 DEF GoesOn, Fields
  <2>4. proc' = [proc EXCEPT ![p] = r]
    BY <2>1
  <2> HIDE DEF r
  <2> QED
    BY <1>1, <2>3, <2>4, FieldIsAsked
<1>10. ASSUME NEW s \in Setting, NEW name \in AppName \cup {None}, Answer(p, s, name)
       PROVE  AskedInv'
  <2>1. \E x : proc' = [proc EXCEPT ![p] = [proc[p] EXCEPT !.answers = x]]
    BY <1>10 DEF Answer
  <2>2. \A x : GoesOn(proc[p], [proc[p] EXCEPT !.answers = x])
    BY <1>1 DEF GoesOn, Fields
  <2> QED
    BY <1>1, <2>1, <2>2, FieldIsAsked
<1> QED
  BY <1>2, <1>3, <1>4, <1>5, <1>6, <1>7, <1>8, <1>9, <1>10

\* Those who are disturbed go on.
LEMMA DisturbedGoOn ==
    ASSUME AskedInv, Shaped, UNCHANGED shell, NEW p \in Process, NEW r, GoesOn(proc[p], r),
           NEW d, Disturb(p, r, d)
    PROVE  AskedInv'
<1> DEFINE over(q) == proc[q].disturbed \/ Concerns(q, d)
<1>1. proc' = [q \in Process |-> IF q = p THEN r ELSE [proc[q] EXCEPT !.disturbed = over(q)]]
  BY DEF Disturb
<1>2. ASSUME NEW q \in Process PROVE GoesOn(proc[q], [proc[q] EXCEPT !.disturbed = over(q)])
  <2> HIDE DEF over
  <2> QED
    BY DEF Shaped, Shape, Fields, GoesOn
<1> HIDE DEF over
<1>3. ASSUME NEW q \in Process PROVE GoesOn(proc[q], proc'[q])
  BY <1>1, <1>2
<1>4. ASSUME NEW q \in Process PROVE Asked(proc'[q], shell'[q].args)
  BY <1>3, GoingOn DEF AskedInv
<1> QED
  BY <1>4 DEF AskedInv

\* A process that writes or removes a cache goes on, and so do the others.
LEMMA WritingIsAsked ==
    ASSUME AskedInv, Shaped, NEW p \in Process,
           TruncateCache(p) \/ WriteCache(p) \/ RemoveCache(p)
    PROVE  AskedInv'
<1>1. DOMAIN proc[p] = Fields /\ UNCHANGED shell
  BY DEF Shaped, Shape, TruncateCache, WriteCache, RemoveCache, outside
<1>2. CASE TruncateCache(p)
  <2> DEFINE r == [proc[p] EXCEPT !.phase = "truncated"]
  <2>1. Disturb(p, r, proc[p].dir) /\ proc[p].phase = "storing"
    BY <1>2 DEF TruncateCache
  <2>2. GoesOn(proc[p], r)
    BY <1>1, <2>1 DEF GoesOn, Fields
  <2> HIDE DEF r
  <2> QED
    BY <1>1, <2>1, <2>2, DisturbedGoOn
<1>3. CASE WriteCache(p)
  <2> DEFINE r == [proc[p] EXCEPT !.phase = "running", !.file = Empty]
  <2>1. Disturb(p, r, proc[p].dir) /\ proc[p].phase = "truncated"
    BY <1>3 DEF WriteCache
  <2>2. GoesOn(proc[p], r)
    BY <1>1, <2>1 DEF GoesOn, Fields
  <2> HIDE DEF r
  <2> QED
    BY <1>1, <2>1, <2>2, DisturbedGoOn
<1>4. CASE RemoveCache(p)
  <2> DEFINE r == [proc[p] EXCEPT !.phase = "cleaning", !.place = 1]
             d == Path[p][proc[p].place]
  <2>1. Unlink(p, r, d) /\ proc[p].phase = "found"
    BY <1>4 DEF RemoveCache
  <2>2. GoesOn(proc[p], r)
    BY <1>1, <2>1 DEF GoesOn, Fields
  <2> HIDE DEF r, d
  <2>3. ASSUME NEW q \in Process PROVE GoesOn(proc[q], proc'[q])
    <3>1. CASE q = p
      BY <2>1, <2>2, <3>1, Unlinked DEF Shaped
    <3>2. CASE q # p
      <4>1. \/ proc'[q] = proc[q]
            \/ /\ proc[q].phase = "truncated"
               /\ proc'[q] = [proc[q] EXCEPT !["phase"] = "unlinked"]
        BY <2>1, <3>2, Unlinked DEF Shaped
      <4> QED
        BY <4>1 DEF GoesOn, Shaped, Shape, Fields
    <3> QED
      BY <3>1, <3>2
  <2>4. ASSUME NEW q \in Process PROVE Asked(proc'[q], shell'[q].args)
    BY <1>1, <2>3, GoingOn DEF AskedInv
  <2> QED
    BY <2>4 DEF AskedInv
<1> QED
  BY <1>2, <1>3, <1>4

LEMMA AskedInit == Init => AskedInv
  BY NewIsAsked DEF Init, AskedInv

LEMMA AskedNext == AskedInv /\ IInv /\ TypeInv /\ [Next]_vars => AskedInv'
<1> SUFFICES ASSUME AskedInv, IInv, TypeInv, [Next]_vars PROVE AskedInv'
  OBVIOUS
<1> Shaped
  BY DEF IInv
<1>1. ASSUME NEW p \in Process, Begin(p) PROVE AskedInv'
  BY <1>1, CallIsAsked DEF Begin
<1>2. ASSUME NEW p \in Process, Information(p) PROVE AskedInv'
  BY <1>2, ProcessIsAsked, WritingIsAsked DEF Information
<1>3. ASSUME NEW p \in Process, Setup(p) PROVE AskedInv'
  BY <1>3, ProcessIsAsked, WritingIsAsked DEF Setup
<1>4. ASSUME NEW p \in Process, Consent(p) \/ End(p) PROVE AskedInv'
  BY <1>4, ProcessIsAsked
<1>5. ASSUME UNCHANGED <<shell, proc>> PROVE AskedInv'
  BY <1>5 DEF AskedInv
<1>6. CASE \/ Tick \/ UNCHANGED vars \/ \E old, new \in App : Deploy(old, new)
  BY <1>5, <1>6 DEF Tick, vars, Deploy
<1> QED
  BY <1>1, <1>2, <1>3, <1>4, <1>6 DEF Next

\* No order of calls, and nothing that other processes do meanwhile, lets a dangerous
\* command run without consent, or any command with an argument in the wrong place.
THEOREM AskedFor == Spec => []RunsAsAsked
<1>1. AskedInv => RunsAsAsked
  BY DEF AskedInv, Asked, InPlace, RunsAsAsked
<1>2. Spec => []AskedInv
  BY AskedInit, AskedNext, Invariant, Types, PTL DEF Spec
<1> QED
  BY <1>1, <1>2, PTL

-----------------------------------------------------------------------------
(* Files are written and removed as meant                                  *)

Cleaning == {"cleaning", "found", "cleaned"}

\* A process that removes caches has left none behind it, unless it is disturbed,
\* and when it is done it has been everywhere.
Swept(p, q, files) ==
    /\ q.phase = "cleaned" => q.place > Len(Path[p])
    /\ q.phase \in Cleaning /\ ~q.disturbed =>
          \A i \in 1..Len(Path[p]) : i < q.place => ~files[Path[p][i]].exists

SweptInv == \A p \in Process : Swept(p, proc[p], cache)

\* Where no cache is added and one process changes, it is enough to look at that one.
LEMMA OneSweeps ==
    ASSUME SweptInv, Shaped, \A d \in Dir : cache'[d].exists => cache[d].exists,
           NEW p \in Process, NEW r, Swept(p, r, cache'), proc' = [proc EXCEPT ![p] = r]
    PROVE  SweptInv'
<1>1. \A q \in Process : proc'[q] = IF q = p THEN r ELSE proc[q]
  BY DEF Shaped
<1>2. ASSUME NEW q \in Process, q # p PROVE Swept(q, proc'[q], cache')
  <2>1. proc'[q] = proc[q] /\ Swept(q, proc[q], cache)
    BY <1>1, <1>2 DEF SweptInv
  <2>2. \A i \in 1..Len(Path[q]) : Path[q][i] \in Dir
    BY PathIsIn
  <2> QED
    BY <2>1, <2>2 DEF Swept
<1>3. ASSUME NEW q \in Process PROVE Swept(q, proc'[q], cache')
  BY <1>1, <1>2
<1> QED
  BY <1>3 DEF SweptInv

\* Nothing is said of processes that do something else.
LEMMA OtherSweeps ==
    ASSUME SweptInv, Shaped, UNCHANGED cache, NEW p \in Process, NEW r, r.phase \notin Cleaning,
           proc' = [proc EXCEPT ![p] = r]
    PROVE  SweptInv'
<1>1. Swept(p, r, cache')
  BY DEF Swept, Cleaning
<1> QED
  BY <1>1, OneSweeps

\* Steps of processes that do something else.
LEMMA ProcessSweeps ==
    ASSUME SweptInv, Shaped, NEW p \in Process,
           \/ Consent(p) \/ End(p) \/ GetApps(p) \/ Interrupt(p) \/ TruncateConfig(p)
           \/ WriteConfig(p) \/ WriteUnlinked(p)
           \/ \E a \in AppName : LookUp(p, a) \/ GetRawAppInfo(p, a)
           \/ \E s \in Setting, name \in AppName \cup {None} : Answer(p, s, name)
    PROVE  SweptInv'
<1>1. DOMAIN proc[p] = Fields /\ UNCHANGED cache
  BY DEF Shaped, Shape, Consent, End, GetApps, Interrupt, TruncateConfig, WriteConfig,
         WriteUnlinked, LookUp, GetRawAppInfo, Answer
<1>9. CASE WriteUnlinked(p)
  <2> DEFINE r == [proc[p] EXCEPT !.phase = "running", !.file = Empty]
  <2>1. proc' = [proc EXCEPT ![p] = r]
    BY <1>9 DEF WriteUnlinked
  <2>2. r.phase \notin Cleaning
    BY <1>1 DEF Fields, Cleaning
  <2> HIDE DEF r
  <2> QED
    BY <1>1, <2>1, <2>2, OtherSweeps
<1>2. CASE Consent(p)
  <2> DEFINE r == [proc[p] EXCEPT !.phase = "running", !.consent = "yes"]
  <2>1. proc' = [proc EXCEPT ![p] = r]
    BY <1>2 DEF Consent
  <2>2. r.phase \notin Cleaning
    BY <1>1 DEF Fields, Cleaning
  <2> HIDE DEF r
  <2> QED
    BY <1>1, <2>1, <2>2, OtherSweeps
<1>3. CASE End(p) \/ Interrupt(p) \/ WriteConfig(p)
  <2>1. proc' = [proc EXCEPT ![p] = NewProcess]
    BY <1>3 DEF End, Interrupt, WriteConfig
  <2>2. NewProcess.phase \notin Cleaning
    BY DEF NewProcess, Cleaning
  <2> QED
    BY <1>1, <2>1, <2>2, OtherSweeps
<1>4. CASE GetApps(p)
  <2> DEFINE r == [proc[p] EXCEPT !.listed = {deployed}]
  <2>1. proc' = [proc EXCEPT ![p] = r] /\ proc[p].phase = "running"
    BY <1>4 DEF GetApps
  <2>2. r.phase \notin Cleaning
    BY <1>1, <2>1 DEF Fields, Cleaning
  <2> HIDE DEF r
  <2> QED
    BY <1>1, <2>1, <2>2, OtherSweeps
<1>5. CASE TruncateConfig(p)
  <2> DEFINE r == [proc[p] EXCEPT !.phase = "writing"]
  <2>1. proc' = [proc EXCEPT ![p] = r]
    BY <1>5 DEF TruncateConfig
  <2>2. r.phase \notin Cleaning
    BY <1>1 DEF Fields, Cleaning
  <2> HIDE DEF r
  <2> QED
    BY <1>1, <2>1, <2>2, OtherSweeps
<1>6. ASSUME NEW a \in AppName, LookUp(p, a) PROVE SweptInv'
  <2>1. \/ \E x : proc' = [proc EXCEPT ![p] = [proc[p] EXCEPT !.info = x]]
        \/ \E x : proc' = [proc EXCEPT ![p] = [proc[p] EXCEPT !.fetching = x]]
    BY <1>6 DEF LookUp
  <2>2. proc[p].phase = "running"
    BY <1>6 DEF LookUp
  <2>3. \A x : /\ [proc[p] EXCEPT !.info = x].phase \notin Cleaning
               /\ [proc[p] EXCEPT !.fetching = x].phase \notin Cleaning
    BY <1>1, <2>2 DEF Fields, Cleaning
  <2> QED
    BY <1>1, <2>1, <2>3, OtherSweeps
<1>7. ASSUME NEW a \in AppName, GetRawAppInfo(p, a) PROVE SweptInv'
  <2>1. PICK fetching, info, file :
          proc' = [proc EXCEPT ![p] = [proc[p] EXCEPT !.phase = "storing",
                                          !.fetching = fetching, !.info = info,
                                          !.file = file, !.disturbed = FALSE]]
    BY <1>7, Collected
  <2> DEFINE r == [proc[p] EXCEPT !.phase = "storing", !.fetching = fetching, !.info = info,
                                  !.file = file, !.disturbed = FALSE]
  <2>2. proc' = [proc EXCEPT ![p] = r]
    BY <2>1
  <2>3. r.phase \notin Cleaning
    BY <1>1 DEF Fields, Cleaning
  <2> HIDE DEF r
  <2> QED
    BY <1>1, <2>2, <2>3, OtherSweeps
<1>8. ASSUME NEW s \in Setting, NEW name \in AppName \cup {None}, Answer(p, s, name)
      PROVE  SweptInv'
  <2>1. \E x : proc' = [proc EXCEPT ![p] = [proc[p] EXCEPT !.answers = x]]
    BY <1>8 DEF Answer
  <2>2. proc[p].phase = "dialogue"
    BY <1>8 DEF Answer
  <2>3. \A x : [proc[p] EXCEPT !.answers = x].phase \notin Cleaning
    BY <1>1, <2>2 DEF Fields, Cleaning
  <2> QED
    BY <1>1, <2>1, <2>3, OtherSweeps
<1> QED
  BY <1>2, <1>3, <1>4, <1>5, <1>6, <1>7, <1>8, <1>9

\* A process that starts to remove caches has been nowhere.
LEMMA CallSweeps ==
    ASSUME SweptInv, Shaped, NEW p \in Process, NEW c, NEW typed, NEW flag,
           Call(p, c, typed, flag)
    PROVE  SweptInv'
<1> DEFINE args == PassArgs(c, typed, shell[p].args)
           consent == IF flag = "force" THEN flag ELSE "none"
           phase == FirstPhase(c, flag)
           dir == ResolveDir(config, p)
           read == CHOOSE x \in config[dir].content : TRUE
           start == [NewProcess EXCEPT !.phase = phase, !.command = c, !.args = args,
                                       !.consent = consent]
           r == IF Commands[c].context THEN [start EXCEPT !.dir = dir, !.config = read]
                ELSE start
<1>1. proc' = [proc EXCEPT ![p] = r] /\ UNCHANGED cache
  BY DEF Call
<1>2. phase # "cleaned"
  BY DEF FirstPhase
<1> HIDE DEF args, consent, phase, dir, read
<1>3. r.phase = phase /\ r.place = 1
  BY DEF NewProcess
<1> HIDE DEF r
<1>4. Swept(p, r, cache')
  BY <1>2, <1>3 DEF Swept
<1> QED
  BY <1>1, <1>4, OneSweeps

\* The search goes on where there is nothing.
LEMMA SearchSweeps ==
    ASSUME SweptInv, Shaped, NEW p \in Process, proc[p].place \in Nat, Search(p)
    PROVE  SweptInv'
<1>1. /\ DOMAIN proc[p] = Fields /\ UNCHANGED cache /\ proc[p].phase = "cleaning"
      /\ Swept(p, proc[p], cache)
  BY DEF Shaped, Shape, Search, SweptInv
<1> DEFINE place == proc[p].place
<1>2. CASE place > Len(Path[p]) /\ proc' = [proc EXCEPT ![p].phase = "cleaned"]
  <2> DEFINE r == [proc[p] EXCEPT !.phase = "cleaned"]
  <2>1. r.phase = "cleaned" /\ r.place = place /\ r.disturbed = proc[p].disturbed
    BY <1>1 DEF Fields
  <2> HIDE DEF r
  <2>2. Swept(p, r, cache')
    BY <1>1, <1>2, <2>1 DEF Swept, Cleaning
  <2>3. proc' = [proc EXCEPT ![p] = r]
    BY <1>2 DEF r
  <2> QED
    BY <1>1, <2>2, <2>3, OneSweeps
<1>3. CASE proc' = [proc EXCEPT ![p].phase = "found"]
  <2> DEFINE r == [proc[p] EXCEPT !.phase = "found"]
  <2>1. r.phase = "found" /\ r.place = place /\ r.disturbed = proc[p].disturbed
    BY <1>1 DEF Fields
  <2> HIDE DEF r
  <2>2. Swept(p, r, cache')
    BY <1>1, <2>1 DEF Swept, Cleaning
  <2>3. proc' = [proc EXCEPT ![p] = r]
    BY <1>3 DEF r
  <2> QED
    BY <1>1, <2>2, <2>3, OneSweeps
<1>4. CASE ~cache[Path[p][place]].exists /\ proc' = [proc EXCEPT ![p].place = place + 1]
  <2> DEFINE r == [proc[p] EXCEPT !.place = place + 1]
  <2>1. r.phase = "cleaning" /\ r.place = place + 1 /\ r.disturbed = proc[p].disturbed
    BY <1>1 DEF Fields
  <2> HIDE DEF r
  <2>2. \A i \in 1..Len(Path[p]) : i < place + 1 => i < place \/ i = place
    OBVIOUS
  <2>3. Swept(p, r, cache')
    BY <1>1, <1>4, <2>1, <2>2 DEF Swept, Cleaning
  <2>4. proc' = [proc EXCEPT ![p] = r]
    BY <1>4 DEF r
  <2> QED
    BY <1>1, <2>3, <2>4, OneSweeps
<1> QED
  BY <1>2, <1>3, <1>4 DEF Search

\* The search starts again after a removal.
LEMMA RemoveSweeps ==
    ASSUME SweptInv, Shaped, NEW p \in Process, RemoveCache(p)
    PROVE  SweptInv'
<1> DEFINE d == Path[p][proc[p].place]
           r == [proc[p] EXCEPT !.phase = "cleaning", !.place = 1]
<1>1. cache' = [cache EXCEPT ![d] = Absent(Empty)] /\ Unlink(p, r, d)
  BY DEF RemoveCache
<1>2. r.phase = "cleaning" /\ r.place = 1
  BY DEF Shaped, Shape, Fields
<1> HIDE DEF d, r
<1>3. \A e \in Dir : cache'[e].exists => cache[e].exists
  BY <1>1 DEF Absent, Shaped
<1>4. Swept(p, proc'[p], cache')
  BY <1>1, <1>2, Unlinked DEF Swept, Shaped
<1>5. ASSUME NEW q \in Process, q # p PROVE Swept(q, proc'[q], cache')
  <2>1. CASE proc'[q] = proc[q]
    <3>1. \A i \in 1..Len(Path[q]) : Path[q][i] \in Dir
      BY PathIsIn
    <3> QED
      BY <1>3, <2>1, <3>1 DEF SweptInv, Swept
  <2>2. CASE proc'[q] = [proc[q] EXCEPT !["phase"] = "unlinked"]
    <3>1. proc'[q].phase = "unlinked"
      BY <2>2 DEF Shaped, Shape, Fields
    <3> QED
      BY <3>1 DEF Swept, Cleaning
  <2> QED
    BY <1>1, <1>5, <2>1, <2>2, Unlinked DEF Shaped
<1>6. ASSUME NEW q \in Process PROVE Swept(q, proc'[q], cache')
  BY <1>4, <1>5
<1> QED
  BY <1>6 DEF SweptInv

\* Whoever writes a cache disturbs those who look for it to remove it.
LEMMA WriteSweeps ==
    ASSUME SweptInv, Shaped, NEW p \in Process, TruncateCache(p) \/ WriteCache(p)
    PROVE  SweptInv'
<1> DEFINE d == proc[p].dir
           over(q) == proc[q].disturbed \/ Concerns(q, d)
<1>1. PICK r \in {[proc[p] EXCEPT !.phase = "truncated"],
                  [proc[p] EXCEPT !.phase = "running", !.file = Empty]} : Disturb(p, r, d)
  BY DEF TruncateCache, WriteCache
<1>a. PICK content : cache' = [cache EXCEPT ![d] = File(content)]
  BY DEF TruncateCache, WriteCache
<1>2. r.phase \notin Cleaning
  BY DEF Shaped, Shape, Fields, Cleaning
<1> HIDE DEF d
<1>3. proc' = [q \in Process |-> IF q = p THEN r ELSE [proc[q] EXCEPT !.disturbed = over(q)]]
  BY <1>1 DEF Disturb
<1>4. ASSUME NEW q \in Process, q # p PROVE Swept(q, proc'[q], cache')
  <2>1. /\ proc'[q].phase = proc[q].phase /\ proc'[q].place = proc[q].place
        /\ proc'[q].disturbed = over(q)
    <3>1. proc'[q] = [proc[q] EXCEPT !.disturbed = over(q)]
      BY <1>3, <1>4
    <3> HIDE DEF over
    <3> QED
      BY <3>1 DEF Shaped, Shape, Fields
  <2>2. Swept(q, proc[q], cache)
    BY DEF SweptInv
  <2>3. ASSUME proc[q].phase \in Cleaning, ~over(q), NEW i \in 1..Len(Path[q]),
               i < proc[q].place
        PROVE  ~cache'[Path[q][i]].exists
    <3>1. d \notin Range(Path[q])
      BY <2>3 DEF Concerns, Cleaning
    <3>2. Path[q][i] # d /\ Path[q][i] \in Dir
      BY <3>1, PathIsIn, ToolAssumption DEF Range
    <3>3. cache'[Path[q][i]] = cache[Path[q][i]]
      BY <1>a, <3>2 DEF Shaped
    <3> QED
      BY <2>2, <2>3, <3>3 DEF Swept
  <2> HIDE DEF over
  <2> QED
    BY <2>1, <2>2, <2>3 DEF Swept
<1>5. Swept(p, proc'[p], cache')
  <2>1. proc'[p] = r
    BY <1>3
  <2> QED
    BY <1>2, <2>1 DEF Swept, Cleaning
<1>6. ASSUME NEW q \in Process PROVE Swept(q, proc'[q], cache')
  BY <1>4, <1>5
<1> QED
  BY <1>6 DEF SweptInv

LEMMA SweptInit == Init => SweptInv
<1>1. \A p : Swept(p, NewProcess, [d \in Dir |-> Absent(Empty)])
  BY DEF Swept, NewProcess, Cleaning
<1> QED
  BY <1>1 DEF Init, SweptInv

LEMMA SweptNext == SweptInv /\ IInv /\ TypeInv /\ [Next]_vars => SweptInv'
<1> SUFFICES ASSUME SweptInv, IInv, TypeInv, [Next]_vars PROVE SweptInv'
  OBVIOUS
<1>1. Shaped
  BY DEF IInv
<1>2. ASSUME NEW p \in Process PROVE proc[p].place \in Nat
  <2>1. proc[p].place \in 1..Len(Path[p]) + 1
    BY FieldsOf DEF TypeInv
  <2> QED
    BY <2>1
<1>3. ASSUME NEW p \in Process, Begin(p) PROVE SweptInv'
  BY <1>1, <1>3, CallSweeps DEF Begin
<1>4. ASSUME NEW p \in Process, Information(p) PROVE SweptInv'
  BY <1>1, <1>4, ProcessSweeps, WriteSweeps DEF Information
<1>5. ASSUME NEW p \in Process, Setup(p) PROVE SweptInv'
  BY <1>1, <1>2, <1>5, ProcessSweeps, SearchSweeps, RemoveSweeps DEF Setup
<1>6. ASSUME NEW p \in Process, Consent(p) \/ End(p) PROVE SweptInv'
  BY <1>1, <1>6, ProcessSweeps
<1>7. ASSUME UNCHANGED <<cache, proc>> PROVE SweptInv'
  BY <1>7 DEF SweptInv, Swept
<1>8. CASE \/ Tick \/ UNCHANGED vars \/ \E old, new \in App : Deploy(old, new)
  BY <1>7, <1>8 DEF Tick, vars, Deploy
<1> QED
  BY <1>3, <1>4, <1>5, <1>6, <1>8 DEF Next

\* Where a configuration changes, all questions of one dialogue are answered, and
\* it changes to these answers or to nothing.
LEMMA WrittenAnswers ==
    ASSUME TypeInv, [Next]_vars, NEW d \in Dir, config'[d].content # config[d].content
    PROVE  \E p \in Process : /\ SetupDir(p) = d /\ DOMAIN proc[p].answers = Setting
                              /\ config'[d].content \in {{}, {proc[p].answers}}
<1>1. PICK p \in Process : TruncateConfig(p) \/ WriteConfig(p)
  <2>1. config' # config
    OBVIOUS
  <2>2. ASSUME NEW p \in Process, Begin(p) \/ Consent(p) \/ End(p) PROVE UNCHANGED config
    BY <2>2 DEF Begin, Call, Consent, End
  <2>3. ASSUME NEW p \in Process, Information(p) PROVE UNCHANGED config
    BY <2>3 DEF Information, GetApps, TruncateCache, WriteCache, WriteUnlinked, LookUp,
                GetRawAppInfo
  <2>4. ASSUME NEW p \in Process, Setup(p), ~TruncateConfig(p), ~WriteConfig(p)
        PROVE  UNCHANGED config
    BY <2>4 DEF Setup, Interrupt, Search, RemoveCache, Answer
  <2>5. ASSUME \/ Tick \/ UNCHANGED vars \/ \E old, new \in App : Deploy(old, new)
        PROVE  UNCHANGED config
    BY <2>5 DEF Tick, vars, Deploy
  <2> QED
    BY <2>1, <2>2, <2>3, <2>4, <2>5 DEF Next
<1>2. DOMAIN config = Dir
  BY DEF TypeInv
<1>3. PICK content \in {{proc[p].answers}, {}} :
        config' = [config EXCEPT ![SetupDir(p)] = File(content)]
  BY <1>1 DEF TruncateConfig, WriteConfig
<1>4. File(content).content = content
  BY DEF File
<1>5. SetupDir(p) = d /\ config'[d].content = content
  BY <1>2, <1>3, <1>4
<1>6. DOMAIN proc[p].answers = Setting
  <2>1. CASE TruncateConfig(p)
    BY <2>1 DEF TruncateConfig
  <2>2. CASE WriteConfig(p)
    BY <2>2 DEF WriteConfig, TypeInv, Remembered
  <2> QED
    BY <1>1, <2>1, <2>2
<1> QED
  BY <1>3, <1>5, <1>6

\* A configuration is replaced by complete answers only, whatever is interrupted, or
\* by nothing if that happens while they are written; and where caches are removed
\* none is left, unless others write them meanwhile.
THEOREM WrittenAsMeant == Spec => FilesAsMeant
<1>1. ASSUME TypeInv, SweptInv', [Next]_vars
      PROVE  [/\ \A d \in Dir :
                    config'[d].content # config[d].content =>
                        \E p \in Process :
                            /\ SetupDir(p) = d /\ DOMAIN proc[p].answers = Setting
                            /\ config'[d].content \in {{}, {proc[p].answers}}
              /\ \A p \in Process :
                    proc'[p].phase = "cleaned" /\ ~proc'[p].disturbed =>
                        \A d \in Range(Path[p]) : ~cache'[d].exists]_vars
  <2>1. ASSUME NEW p \in Process, proc'[p].phase = "cleaned", ~proc'[p].disturbed,
               NEW d \in Range(Path[p])
        PROVE  ~cache'[d].exists
    <3>1. Swept(p, proc'[p], cache')
      BY <1>1 DEF SweptInv
    <3>2. PICK i \in 1..Len(Path[p]) : d = Path[p][i]
      BY ToolAssumption DEF Range
    <3>3. Len(Path[p]) \in Nat /\ proc'[p].place \in Nat
      <4>1. TypeInv'
        BY <1>1, TypeNext
      <4>2. proc'[p].place \in 1..Len(Path[p]) + 1
        BY <4>1, FieldsOf DEF TypeInv
      <4> QED
        BY <4>2, ToolAssumption
    <3>4. proc'[p].place > Len(Path[p])
      BY <2>1, <3>1 DEF Swept
    <3>5. i < proc'[p].place
      BY <3>3, <3>4
    <3> QED
      BY <2>1, <3>1, <3>2, <3>5 DEF Swept, Cleaning
  <2> QED
    BY <1>1, <2>1, WrittenAnswers
<1>2. Spec => []SweptInv
  BY SweptInit, SweptNext, Invariant, Types, PTL DEF Spec
<1> QED
  BY <1>1, <1>2, Types, PTL DEF Spec, FilesAsMeant
-----------------------------------------------------------------------------
(* No entry gets lost but between processes that store at the same time    *)

\* Nothing was collected later than now.
Past(content, t) == \A a \in AppName : \A e \in content[a] : e.stamp \in Nat /\ e.stamp <= t

\* For every entry of the content there is one in the file that is as recent.
Covers(file, content) ==
    \A a \in AppName : \A e \in content[a] : \E f \in file[a] : f.stamp >= e.stamp

\* What a process that nobody disturbs is about to write covers the file, until it
\* empties it; and then the file stays empty.
Holding(q, files, t) ==
    /\ Past(q.file, t)
    /\ q.phase = "storing" /\ ~q.disturbed => Covers(q.file, files[q.dir].content)
    /\ q.phase = "truncated" /\ ~q.disturbed => files[q.dir] = File(Empty)

KeptInv == /\ \A d \in Dir : Past(cache[d].content, now)
           /\ \A p \in Process : Holding(proc[p], cache, now)

LEMMA EmptyIsPast == \A t : Past(Empty, t)
  BY DEF Past, Empty

\* Where one process changes, it is enough to look at that one.
LEMMA OneHolds ==
    ASSUME KeptInv, Shaped, UNCHANGED <<cache, now>>, NEW p \in Process, NEW r,
           Holding(r, cache, now), proc' = [proc EXCEPT ![p] = r]
    PROVE  KeptInv'
<1>1. \A q \in Process : proc'[q] = IF q = p THEN r ELSE proc[q]
  BY DEF Shaped
<1>2. ASSUME NEW q \in Process PROVE Holding(proc'[q], cache', now')
  BY <1>1 DEF KeptInv
<1> QED
  BY <1>2 DEF KeptInv

\* Most steps of a process store nothing.
StoresNothing(p, r) ==
    /\ proc' = [proc EXCEPT ![p] = r]
    /\ r.phase \notin {"storing", "truncated"} /\ r.file \in {proc[p].file, Empty}
    /\ proc[p].phase = "truncated" => r.phase # "running"

LEMMA CallStoresNothing ==
    ASSUME Shaped, NEW p \in Process, NEW c, NEW typed, NEW flag, Call(p, c, typed, flag)
    PROVE  \E r : StoresNothing(p, r) /\ UNCHANGED <<cache, now>>
<1> DEFINE args == PassArgs(c, typed, shell[p].args)
           consent == IF flag = "force" THEN flag ELSE "none"
           phase == FirstPhase(c, flag)
           dir == ResolveDir(config, p)
           read == CHOOSE x \in config[dir].content : TRUE
           start == [NewProcess EXCEPT !.phase = phase, !.command = c, !.args = args,
                                       !.consent = consent]
           r == IF Commands[c].context THEN [start EXCEPT !.dir = dir, !.config = read]
                ELSE start
<1>1. /\ proc' = [proc EXCEPT ![p] = r] /\ UNCHANGED <<cache, now>>
      /\ proc[p].phase = "idle"
  BY DEF Call, outside
<1>2. phase \notin {"storing", "truncated"}
  BY DEF FirstPhase
<1> HIDE DEF args, consent, phase, dir, read
<1>3. r.phase = phase /\ r.file = Empty
  BY DEF NewProcess
<1> HIDE DEF r
<1>4. StoresNothing(p, r)
  BY <1>1, <1>2, <1>3 DEF StoresNothing
<1> QED
  BY <1>1, <1>4

LEMMA ProcessStoresNothing ==
    ASSUME Shaped, NEW p \in Process,
           \/ Consent(p) \/ End(p) \/ GetApps(p) \/ Interrupt(p) \/ TruncateConfig(p)
           \/ WriteConfig(p) \/ Search(p) \/ WriteUnlinked(p)
           \/ \E a \in AppName : LookUp(p, a)
           \/ \E s \in Setting, name \in AppName \cup {None} : Answer(p, s, name)
    PROVE  \E r : StoresNothing(p, r) /\ UNCHANGED <<cache, now>>
<1>1. DOMAIN proc[p] = Fields /\ UNCHANGED <<cache, now>>
  BY DEF Shaped, Shape, Consent, End, GetApps, Interrupt, TruncateConfig, WriteConfig, Search,
         WriteUnlinked, LookUp, Answer, outside
<1>2. CASE Consent(p)
  <2> DEFINE r == [proc[p] EXCEPT !.phase = "running", !.consent = "yes"]
  <2>1. proc' = [proc EXCEPT ![p] = r] /\ proc[p].phase = "consent"
    BY <1>2 DEF Consent
  <2>2. r.phase = "running" /\ r.file = proc[p].file
    BY <1>1 DEF Fields
  <2> HIDE DEF r
  <2>3. StoresNothing(p, r)
    BY <2>1, <2>2 DEF StoresNothing
  <2> QED
    BY <1>1, <2>3
<1>3. CASE End(p) \/ Interrupt(p) \/ WriteConfig(p)
  <2>1. proc' = [proc EXCEPT ![p] = NewProcess]
    BY <1>3 DEF End, Interrupt, WriteConfig
  <2>2. StoresNothing(p, NewProcess)
    BY <2>1 DEF StoresNothing, NewProcess
  <2> QED
    BY <1>1, <2>2
<1>4. CASE GetApps(p)
  <2> DEFINE r == [proc[p] EXCEPT !.listed = {deployed}]
  <2>1. proc' = [proc EXCEPT ![p] = r] /\ proc[p].phase = "running"
    BY <1>4 DEF GetApps
  <2>2. r.phase = "running" /\ r.file = proc[p].file
    BY <1>1, <2>1 DEF Fields
  <2> HIDE DEF r
  <2>3. StoresNothing(p, r)
    BY <2>1, <2>2 DEF StoresNothing
  <2> QED
    BY <1>1, <2>3
<1>5. CASE TruncateConfig(p)
  <2> DEFINE r == [proc[p] EXCEPT !.phase = "writing"]
  <2>1. proc' = [proc EXCEPT ![p] = r]
    BY <1>5 DEF TruncateConfig
  <2>2. r.phase = "writing" /\ r.file = proc[p].file
    BY <1>1 DEF Fields
  <2> HIDE DEF r
  <2>3. StoresNothing(p, r)
    BY <2>1, <2>2 DEF StoresNothing
  <2> QED
    BY <1>1, <2>3
<1>6. CASE Search(p)
  <2>1. PICK r \in {[proc[p] EXCEPT !.phase = "cleaned"], [proc[p] EXCEPT !.phase = "found"],
                    [proc[p] EXCEPT !.place = proc[p].place + 1]} :
          proc' = [proc EXCEPT ![p] = r]
    BY <1>6 DEF Search
  <2>2. proc[p].phase = "cleaning"
    BY <1>6 DEF Search
  <2>3. r.phase \in {"cleaning", "found", "cleaned"} /\ r.file = proc[p].file
    BY <1>1, <2>2 DEF Fields
  <2>4. StoresNothing(p, r)
    BY <2>1, <2>3 DEF StoresNothing
  <2> QED
    BY <1>1, <2>4
<1>7. CASE WriteUnlinked(p)
  <2> DEFINE r == [proc[p] EXCEPT !.phase = "running", !.file = Empty]
  <2>1. proc' = [proc EXCEPT ![p] = r] /\ proc[p].phase = "unlinked"
    BY <1>7 DEF WriteUnlinked
  <2>2. r.phase = "running" /\ r.file = Empty
    BY <1>1 DEF Fields
  <2> HIDE DEF r
  <2>3. StoresNothing(p, r)
    BY <2>1, <2>2 DEF StoresNothing
  <2> QED
    BY <1>1, <2>3
<1>8. ASSUME NEW a \in AppName, LookUp(p, a)
      PROVE  \E r : StoresNothing(p, r) /\ UNCHANGED <<cache, now>>
  <2>1. PICK r : /\ proc' = [proc EXCEPT ![p] = r]
                 /\ \/ \E x : r = [proc[p] EXCEPT !.info = x]
                    \/ \E x : r = [proc[p] EXCEPT !.fetching = x]
    <3>1. \/ \E x : proc' = [proc EXCEPT ![p] = [proc[p] EXCEPT !.info = x]]
          \/ \E x : proc' = [proc EXCEPT ![p] = [proc[p] EXCEPT !.fetching = x]]
      BY <1>8 DEF LookUp
    <3> QED
      BY <3>1
  <2>2. proc[p].phase = "running"
    BY <1>8 DEF LookUp
  <2>3. r.phase = "running" /\ r.file = proc[p].file
    BY <1>1, <2>1, <2>2 DEF Fields
  <2>4. StoresNothing(p, r)
    BY <2>1, <2>2, <2>3 DEF StoresNothing
  <2> QED
    BY <1>1, <2>4
<1>9. ASSUME NEW s \in Setting, NEW name \in AppName \cup {None}, Answer(p, s, name)
      PROVE  \E r : StoresNothing(p, r) /\ UNCHANGED <<cache, now>>
  <2>1. PICK x : proc' = [proc EXCEPT ![p] = [proc[p] EXCEPT !.answers = x]]
    BY <1>9 DEF Answer
  <2> DEFINE r == [proc[p] EXCEPT !.answers = x]
  <2>2. proc[p].phase = "dialogue"
    BY <1>9 DEF Answer
  <2>3. r.phase = "dialogue" /\ r.file = proc[p].file
    BY <1>1, <2>2 DEF Fields
  <2>4. proc' = [proc EXCEPT ![p] = r]
    BY <2>1
  <2> HIDE DEF r
  <2>5. StoresNothing(p, r)
    BY <2>3, <2>4 DEF StoresNothing
  <2> QED
    BY <1>1, <2>5
<1> QED
  BY <1>2, <1>3, <1>4, <1>5, <1>6, <1>7, <1>8, <1>9

LEMMA NothingHolds ==
    ASSUME KeptInv, Shaped, NEW p \in Process, NEW r, StoresNothing(p, r),
           UNCHANGED <<cache, now>>
    PROVE  KeptInv'
<1>1. Holding(r, cache, now)
  BY EmptyIsPast DEF KeptInv, Holding, StoresNothing
<1> QED
  BY <1>1, OneHolds DEF StoresNothing

\* The file is read when the information has been collected.
LEMMA CollectedHolds ==
    ASSUME KeptInv, Shaped, NEW p \in Process, NEW a \in AppName, GetRawAppInfo(p, a)
    PROVE  KeptInv'
<1> DEFINE E(app) == [name |-> a, app |-> app, stamp |-> now, version |-> shell[p].version]
           Content1(e) == [cache[proc[p].dir].content EXCEPT ![a] = {e}]
<1>1. PICK app \in AppByName(p, a) :
        proc' = [proc EXCEPT ![p].phase = "storing", ![p].fetching = @ \ {a},
                             ![p].info[a] = Using(E(app), TRUE),
                             ![p].file = Content1(E(app)), ![p].disturbed = FALSE]
  BY DEF GetRawAppInfo
<1> DEFINE old == cache[proc[p].dir].content
           e == E(app)
           fetching == proc[p].fetching \ {a}
           info == [proc[p].info EXCEPT ![a] = Using(e, TRUE)]
           file == Content1(e)
           r == [proc[p] EXCEPT !.phase = "storing", !.fetching = fetching, !.info = info,
                                !.file = file, !.disturbed = FALSE]
<1>2. proc' = [proc EXCEPT ![p] = r]
  BY <1>1
<1>3. UNCHANGED <<cache, now>>
  BY DEF GetRawAppInfo, outside
<1>4. DOMAIN old = AppName /\ Past(old, now) /\ now \in Nat
  BY DEF Shaped, KeptInv
<1>5. e.stamp = now
  OBVIOUS
<1> HIDE DEF old
<1>6. \A b \in AppName : file[b] = IF b = a THEN {e} ELSE old[b]
  BY <1>4 DEF old
<1> HIDE DEF e, E, Content1, fetching, info, file
<1>7. /\ r.phase = "storing" /\ r.file = file /\ r.dir = proc[p].dir
  BY DEF Shaped, Shape, Fields
<1> HIDE DEF r
<1>8. Past(file, now)
  BY <1>4, <1>5, <1>6 DEF Past
<1>9. Covers(file, old)
  BY <1>4, <1>5, <1>6 DEF Past, Covers
<1>10. Holding(r, cache, now)
  BY <1>7, <1>8, <1>9 DEF Holding, old
<1> QED
  BY <1>2, <1>3, <1>10, OneHolds

\* Who writes disturbs those who are storing in the same file.
LEMMA OthersHold ==
    ASSUME KeptInv, Shaped, UNCHANGED now, NEW p \in Process, NEW r, NEW d,
           Disturb(p, r, d), NEW content, cache' = [cache EXCEPT ![d] = File(content)],
           NEW q \in Process, q # p
    PROVE  Holding(proc'[q], cache', now')
<1> DEFINE over == proc[q].disturbed \/ Concerns(q, d)
<1>1. proc'[q] = [proc[q] EXCEPT !.disturbed = over]
  BY DEF Disturb
<1> HIDE DEF over
<1>2. /\ proc'[q].phase = proc[q].phase /\ proc'[q].file = proc[q].file
      /\ proc'[q].dir = proc[q].dir /\ proc'[q].disturbed = over
  BY <1>1 DEF Shaped, Shape, Fields
<1>3. Holding(proc[q], cache, now)
  BY DEF KeptInv
<1>4. ASSUME proc[q].phase \in {"storing", "truncated"}, ~over
      PROVE  ~proc[q].disturbed /\ cache'[proc[q].dir] = cache[proc[q].dir]
  BY <1>4 DEF over, Concerns, Shaped
<1> QED
  BY <1>2, <1>3, <1>4 DEF Holding

LEMMA WritingHolds ==
    ASSUME KeptInv, Shaped, NEW p \in Process, TruncateCache(p) \/ WriteCache(p)
    PROVE  KeptInv'
<1> DEFINE d == proc[p].dir
<1>1. d \in Dir /\ DOMAIN cache = Dir /\ DOMAIN proc = Process /\ DOMAIN proc[p] = Fields
  BY DEF Shaped, Shape
<1>2. UNCHANGED now
  BY DEF TruncateCache, WriteCache, outside
<1>3. PICK r, content :
        /\ Disturb(p, r, d) /\ cache' = [cache EXCEPT ![d] = File(content)]
        /\ content \in {proc[p].file, Empty}
        /\ \/ r = [proc[p] EXCEPT !.phase = "truncated"] /\ content = Empty
           \/ r = [proc[p] EXCEPT !.phase = "running", !.file = Empty]
  <2>1. CASE TruncateCache(p)
    BY <2>1 DEF TruncateCache
  <2>2. CASE WriteCache(p)
    BY <2>2 DEF WriteCache
  <2> QED
    BY <2>1, <2>2
<1>4. /\ r.file \in {proc[p].file, Empty} /\ r.dir = d
      /\ (r.phase = "truncated" /\ content = Empty) \/ r.phase = "running"
  BY <1>1, <1>3 DEF Fields
<1>5. proc'[p] = r
  BY <1>3 DEF Disturb
<1>6. Past(proc[p].file, now)
  BY DEF KeptInv, Holding
<1>7. ASSUME NEW c \in Dir PROVE Past(cache'[c].content, now)
  <2>1. File(content).content = content
    BY DEF File
  <2>2. Past(content, now)
    BY <1>3, <1>6, EmptyIsPast
  <2> HIDE DEF d
  <2> QED
    BY <1>1, <1>3, <2>1, <2>2 DEF KeptInv
<1>8. Holding(r, cache', now)
  <2>1. cache'[d] = File(content)
    BY <1>1, <1>3
  <2> QED
    BY <1>4, <1>6, <2>1, EmptyIsPast DEF Holding
<1>9. ASSUME NEW q \in Process PROVE Holding(proc'[q], cache', now')
  <2>1. CASE q = p
    BY <1>2, <1>5, <1>8, <2>1
  <2>2. CASE q # p
    BY <1>2, <1>3, <2>2, OthersHold
  <2> QED
    BY <2>1, <2>2
<1> QED
  BY <1>2, <1>7, <1>9 DEF KeptInv

\* What is removed need not be covered, and who has emptied it has no file any more.
LEMMA RemovingHolds ==
    ASSUME KeptInv, Shaped, NEW p \in Process, RemoveCache(p)
    PROVE  KeptInv'
<1> DEFINE d == Path[p][proc[p].place]
           r == [proc[p] EXCEPT !.phase = "cleaning", !.place = 1]
<1>1. /\ cache' = [cache EXCEPT ![d] = Absent(Empty)] /\ Unlink(p, r, d) /\ UNCHANGED now
  BY DEF RemoveCache, outside
<1>2. r.phase = "cleaning" /\ r.file = proc[p].file
  BY DEF Shaped, Shape, Fields
<1> HIDE DEF d, r
<1>3. Absent(Empty).content = Empty
  BY DEF Absent
<1>4. \A c \in Dir : cache'[c] = IF c = d THEN Absent(Empty) ELSE cache[c]
  BY <1>1 DEF Shaped
<1>5. ASSUME NEW c \in Dir PROVE Past(cache'[c].content, now)
  BY <1>3, <1>4, EmptyIsPast DEF KeptInv
<1>6. ASSUME NEW q \in Process, q # p PROVE Holding(proc'[q], cache', now)
  <2>1. Holding(proc[q], cache, now) /\ proc[q].dir \in Dir
    BY DEF KeptInv, Shaped
  <2>2. \A file : Covers(file, Empty)
    BY DEF Covers, Empty
  <2>3. CASE proc'[q] = proc[q] /\ ~(proc[q].phase = "truncated" /\ proc[q].dir = d)
    BY <1>3, <1>4, <2>1, <2>2, <2>3 DEF Holding
  <2>4. CASE proc'[q] = [proc[q] EXCEPT !["phase"] = "unlinked"]
    <3>1. proc'[q].phase = "unlinked" /\ proc'[q].file = proc[q].file
      BY <2>4 DEF Shaped, Shape, Fields
    <3> QED
      BY <2>1, <3>1 DEF Holding
  <2>5. proc'[q] = IF proc[q].phase = "truncated" /\ proc[q].dir = d
                   THEN [proc[q] EXCEPT !["phase"] = "unlinked"] ELSE proc[q]
    BY <1>1, <1>6 DEF Unlink
  <2> QED
    BY <2>3, <2>4, <2>5
<1>7. Holding(proc'[p], cache', now)
  <2>1. proc'[p] = r /\ Past(proc[p].file, now)
    BY <1>1, Unlinked DEF Shaped, KeptInv, Holding
  <2> QED
    BY <1>2, <2>1 DEF Holding
<1>8. ASSUME NEW q \in Process PROVE Holding(proc'[q], cache', now')
  BY <1>1, <1>6, <1>7
<1> QED
  BY <1>1, <1>5, <1>8 DEF KeptInv

LEMMA KeptInit == Init => KeptInv
<1>1. \A d \in Dir : Past(Absent(Empty).content, 0)
  BY EmptyIsPast DEF Absent
<1>2. \A files : Holding(NewProcess, files, 0)
  BY EmptyIsPast DEF Holding, NewProcess
<1> QED
  BY <1>1, <1>2 DEF Init, KeptInv

LEMMA KeptNext == KeptInv /\ IInv /\ [Next]_vars => KeptInv'
<1> SUFFICES ASSUME KeptInv, IInv, [Next]_vars PROVE KeptInv'
  OBVIOUS
<1> Shaped
  BY DEF IInv
<1>1. ASSUME NEW p \in Process, Begin(p) PROVE KeptInv'
  BY <1>1, CallStoresNothing, NothingHolds DEF Begin
<1>2. ASSUME NEW p \in Process, Information(p) PROVE KeptInv'
  <2>1. CASE \/ GetApps(p) \/ WriteUnlinked(p) \/ \E a \in AppName : LookUp(p, a)
    BY <2>1, ProcessStoresNothing, NothingHolds
  <2>2. CASE TruncateCache(p) \/ WriteCache(p)
    BY <2>2, WritingHolds
  <2>3. CASE \E a \in AppName : GetRawAppInfo(p, a)
    BY <2>3, CollectedHolds
  <2> QED
    BY <1>2, <2>1, <2>2, <2>3 DEF Information
<1>3. ASSUME NEW p \in Process, Setup(p) PROVE KeptInv'
  <2>1. CASE RemoveCache(p)
    BY <2>1, RemovingHolds
  <2>2. CASE ~RemoveCache(p)
    BY <1>3, <2>2, ProcessStoresNothing, NothingHolds DEF Setup
  <2> QED
    BY <2>1, <2>2
<1>4. ASSUME NEW p \in Process, Consent(p) \/ End(p) PROVE KeptInv'
  BY <1>4, ProcessStoresNothing, NothingHolds
<1>5. ASSUME UNCHANGED <<cache, now, proc>> PROVE KeptInv'
  BY <1>5 DEF KeptInv, Holding, Past, Covers
<1>6. CASE UNCHANGED vars \/ \E old, new \in App : Deploy(old, new)
  BY <1>5, <1>6 DEF vars, Deploy
<1>7. CASE Tick
  <2>1. now \in Nat /\ now' = now + 1 /\ UNCHANGED <<cache, proc>>
    BY <1>7 DEF Tick, Shaped
  <2>2. ASSUME NEW content, Past(content, now) PROVE Past(content, now')
    BY <2>1, <2>2 DEF Past
  <2>3. ASSUME NEW q, Holding(q, cache, now) PROVE Holding(q, cache, now')
    BY <2>2, <2>3 DEF Holding
  <2>4. /\ \A d \in Dir : Past(cache'[d].content, now')
        /\ \A p \in Process : Holding(proc'[p], cache', now')
    BY <2>1, <2>2, <2>3 DEF KeptInv
  <2> QED
    BY <2>4 DEF KeptInv
<1> QED
  BY <1>1, <1>2, <1>3, <1>4, <1>6, <1>7 DEF Next

\* Only the second step of a write ends it.
LEMMA OnlyWrites ==
    ASSUME Shaped, [Next]_vars, NEW p \in Process, proc[p].phase = "truncated",
           proc'[p].phase = "running"
    PROVE  WriteCache(p)
<1>1. ASSUME NEW q \in Process, NEW r, StoresNothing(q, r) PROVE FALSE
  <2>1. proc'[p] = IF p = q THEN r ELSE proc[p]
    BY <1>1 DEF StoresNothing, Shaped
  <2> QED
    BY <1>1, <2>1 DEF StoresNothing
<1>2. ASSUME NEW q \in Process, NEW a \in AppName, GetRawAppInfo(q, a) PROVE FALSE
  <2>1. PICK x, y, z : proc' = [proc EXCEPT ![q] = [proc[q] EXCEPT !.phase = "storing",
                                          !.fetching = x, !.info = y,
                                          !.file = z, !.disturbed = FALSE]]
    BY <1>2, Collected
  <2>2. proc[q].phase = "running"
    BY <1>2 DEF GetRawAppInfo
  <2>3. proc'[p] = proc[p]
    BY <2>1, <2>2 DEF Shaped
  <2> QED
    BY <2>3
<1>3. ASSUME NEW q \in Process, TruncateCache(q) \/ WriteCache(q), ~WriteCache(p) PROVE FALSE
  <2>1. PICK r, d : Disturb(q, r, d)
    BY <1>3 DEF TruncateCache, WriteCache
  <2>2. q # p
    BY <1>3 DEF TruncateCache
  <2> DEFINE over == proc[p].disturbed \/ Concerns(p, d)
  <2>3. proc'[p] = [proc[p] EXCEPT !.disturbed = over]
    BY <2>1, <2>2 DEF Disturb
  <2> HIDE DEF over
  <2>4. proc'[p].phase = proc[p].phase
    BY <2>3 DEF Shaped, Shape, Fields
  <2> QED
    BY <2>4
<1>4. ASSUME NEW q \in Process, RemoveCache(q) PROVE FALSE
  <2> DEFINE r == [proc[q] EXCEPT !.phase = "cleaning", !.place = 1]
             d == Path[q][proc[q].place]
  <2>1. Unlink(q, r, d) /\ proc[q].phase = "found"
    BY <1>4 DEF RemoveCache
  <2> HIDE DEF r, d
  <2>2. proc'[p] = proc[p] \/ proc'[p] = [proc[p] EXCEPT !["phase"] = "unlinked"]
    BY <2>1, Unlinked DEF Shaped
  <2>3. proc'[p].phase \in {"truncated", "unlinked"}
    BY <2>2 DEF Shaped, Shape, Fields
  <2> QED
    BY <2>3
<1>5. ASSUME NEW q \in Process, Begin(q) PROVE FALSE
  BY <1>1, <1>5, CallStoresNothing DEF Begin
<1>6. ASSUME NEW q \in Process, Information(q), ~WriteCache(p) PROVE FALSE
  <2>1. CASE \/ GetApps(q) \/ WriteUnlinked(q) \/ \E a \in AppName : LookUp(q, a)
    BY <1>1, <2>1, ProcessStoresNothing
  <2> QED
    BY <1>2, <1>3, <1>6, <2>1 DEF Information
<1>7. ASSUME NEW q \in Process, Setup(q) PROVE FALSE
  <2>1. CASE ~RemoveCache(q)
    BY <1>1, <1>7, <2>1, ProcessStoresNothing DEF Setup
  <2> QED
    BY <1>4, <2>1
<1>8. ASSUME NEW q \in Process, Consent(q) \/ End(q) PROVE FALSE
  BY <1>1, <1>8, ProcessStoresNothing
<1>9. ~(Tick \/ UNCHANGED vars \/ \E old, new \in App : Deploy(old, new))
  BY DEF Tick, vars, Deploy
<1> QED
  BY <1>5, <1>6, <1>7, <1>8, <1>9 DEF Next

\* Entries of other names, and of other commands, are only lost where another process
\* writes to the file between reading it and writing it.
THEOREM NothingElseLoses == Spec => EntriesKept
<1>1. ASSUME KeptInv, IInv, [Next]_vars
      PROVE  [\A p \in Process :
                LET q == proc[p]
                    d == q.dir
                IN ~q.disturbed =>
                     /\ q.phase = "storing" /\ proc'[p].phase = "truncated" =>
                           \A a \in AppName : \A e \in cache[d].content[a] :
                              \E f \in q.file[a] : f.stamp >= e.stamp
                     /\ q.phase = "truncated" /\ proc'[p].phase = "running" =>
                           cache'[d] = File(q.file)]_vars
  <2> SUFFICES ASSUME NEW p \in Process, ~proc[p].disturbed
               PROVE  /\ proc[p].phase = "storing" /\ proc'[p].phase = "truncated" =>
                            Covers(proc[p].file, cache[proc[p].dir].content)
                      /\ proc[p].phase = "truncated" /\ proc'[p].phase = "running" =>
                            cache'[proc[p].dir] = File(proc[p].file)
    BY Zenon DEF Covers
  <2>1. Holding(proc[p], cache, now) /\ Shaped
    BY <1>1 DEF KeptInv, IInv
  <2>2. ASSUME proc[p].phase = "truncated", proc'[p].phase = "running"
        PROVE  cache'[proc[p].dir] = File(proc[p].file)
    <3>1. WriteCache(p)
      BY <1>1, <2>1, <2>2, OnlyWrites
    <3>2. cache[proc[p].dir].content = Empty
      BY <2>1, <2>2 DEF Holding, File
    <3>3. cache' = [cache EXCEPT ![proc[p].dir] = File(proc[p].file)]
      BY <3>1, <3>2 DEF WriteCache
    <3> QED
      BY <2>1, <3>3 DEF Shaped
  <2> QED
    BY <2>1, <2>2 DEF Holding
<1>2. Spec => []KeptInv
  BY KeptInit, KeptNext, Invariant, PTL DEF Spec
<1> QED
  BY <1>1, <1>2, Invariant, PTL DEF Spec, EntriesKept
=============================================================================
