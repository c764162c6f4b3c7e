------------------------------- MODULE Configs -------------------------------
(* The config API (api/config, web/config.go, cmd/config.go and the config   *)
(* hooks of experiments): requests and commands that create, update, rename  *)
(* and delete configs, each in several accesses of the store, and the        *)
(* defaults a new store is given. Nothing but the store's own lock is held   *)
(* from one access to the next. A config is told by its birth, which a       *)
(* rename keeps; of its spec only what the hooks look at is kept.            *)
EXTENDS Naturals, FiniteSets, Sequences

CONSTANTS ConfigRequests,   \* the requests and commands under way
          ExpConfigs,       \* the names of experiments
          OtherConfigs,     \* the names of other configs, such as topologies
          DefaultConfigs,   \* the ones of them a new store is given
          Bridges,          \* the bridges an experiment can ask for
          Births,           \* a bound on the configs created
          ConfigWork,       \* a bound on requests and changes of running state
          Crashes           \* a bound on the processes that are killed

Configs == ExpConfigs \cup OtherConfigs
ASSUME ConfigsAssumption ==
    /\ DefaultConfigs \subseteq OtherConfigs /\ DefaultConfigs # {}
    /\ ExpConfigs \cap OtherConfigs = {}
    /\ IsFiniteSet(Configs) /\ "builder" \notin Configs
    /\ "phenix" \in Bridges

VARIABLES stored, births, dead, creq, configsReady, excused, work2

configVars == <<stored, births, dead, creq, configsReady, excused, work2>>

NoConf == [born |-> 0]
DefaultBridge == "phenix"
Exists(k) == stored[k] # NoConf
AtRest == [at |-> "rest", key |-> "none", to |-> "none", rec |-> NoConf, born |-> 0,
           todo |-> <<>>, op |-> "none"]

Orders(S) == {s \in [1..Cardinality(S) -> S] : \A i, j \in DOMAIN s : i # j => s[i] # s[j]}

-----------------------------------------------------------------------------
(* The store and the hooks.                                                 *)

Enter(r, q) == creq' = [creq EXCEPT ![r] = q]
Finish2(r) == Enter(r, IF creq[r].todo = <<>> THEN AtRest
                       ELSE [AtRest EXCEPT !.at = "next", !.op = creq[r].op, !.todo = creq[r].todo])
Fail(r) == Enter(r, AtRest)
Step(r, at) == Enter(r, [creq[r] EXCEPT !.at = at])

\* A config comes to be under a name that an update under way started from or
\* leads to.
Tangles(k, r) ==
    \E x \in ConfigRequests \ {r} :
        creq[x].at \in {"put", "make", "drop", "undo"} /\ k \in {creq[x].key, creq[x].to}

\* An update starts from a name that another one has made and may take back.
TakesMade(k) ==
    \E x \in ConfigRequests : creq[x].at \in {"drop", "undo"} /\ creq[x].to = k

\* The copy that an update made of a config that is gone, and takes back.
TakenBack(k) ==
    \E x \in ConfigRequests :
        creq[x].at \in {"drop", "undo"} /\ creq[x].to = k /\ (creq[x].key = k \/ ~Exists(creq[x].key))

\* A rename made this name while another update of the same config goes on
\* under the old name.
MadeBeside(k) ==
    \E x, y \in ConfigRequests :
        /\ x # y /\ creq[x].at = "drop" /\ creq[x].to = k
        /\ creq[y].at \in {"put", "make", "drop", "undo"} /\ creq[y].key = creq[x].key

\* The new name of a rename was deleted again and the old one is still there.
MadeAndGone(k) ==
    \E x \in ConfigRequests : creq[x].at = "drop" /\ creq[x].key = k /\ ~Exists(creq[x].to)

\* hookCreate and hookUpdate: another experiment has the bridge.
BridgeTaken(k, bridge) ==
    /\ bridge # DefaultBridge
    /\ \E o \in ExpConfigs \ {k} : Exists(o) /\ stored[o].bridge = bridge

\* hookCreate names the experiment after its config.
HookCreate(k, rec) ==
    IF k \in ExpConfigs THEN [rec EXCEPT !.named = k, !.dir = k] ELSE rec

\* hookUpdate: the name of the experiment follows that of the config, and the
\* base directory that of the experiment.
HookUpdate(k, rec) ==
    IF k \in ExpConfigs /\ rec.named # k
    THEN [rec EXCEPT !.named = k, !.dir = IF rec.dir = rec.named THEN k ELSE @] ELSE rec

-----------------------------------------------------------------------------
(* Creating.                                                                *)

Enough == work2 < ConfigWork /\ work2' = work2 + 1

\* POST /configs, and config create with the files it names or finds. A file
\* of the Builder is skipped in a directory and refused when it is named.
CreateConfig(r, files) ==
    /\ creq[r].at = "rest" /\ Enough
    /\ Enter(r, [AtRest EXCEPT !.at = "next", !.op = "create", !.todo = files])
    /\ UNCHANGED <<stored, births, dead, configsReady, excused>>

SkipBuilderFile(r) ==
    /\ creq[r].at = "next" /\ creq[r].op = "create" /\ Head(creq[r].todo) = "builder"
    /\ \/ Enter(r, IF Len(creq[r].todo) = 1 THEN AtRest
                   ELSE [creq[r] EXCEPT !.todo = Tail(@)])
       \/ Fail(r)
    /\ UNCHANGED <<stored, births, dead, configsReady, excused, work2>>

\* The create hook of an experiment, then store.Create.
CreateHooked(r, bridge) ==
    LET k == Head(creq[r].todo)
    IN  /\ creq[r].at = "next" /\ creq[r].op = "create" /\ k # "builder"
        /\ IF k \in ExpConfigs /\ BridgeTaken(k, bridge) THEN Fail(r)
           ELSE Enter(r, [creq[r] EXCEPT !.at = "create", !.key = k, !.todo = Tail(@),
                    !.rec = HookCreate(k, [born |-> 0, named |-> "none", dir |-> "none",
                                           bridge |-> bridge, running |-> FALSE])])
        /\ UNCHANGED <<stored, births, dead, configsReady, excused, work2>>

StoreCreate(r) ==
    LET k == creq[r].key
    IN  /\ creq[r].at = "create" /\ births < Births
        /\ \/ /\ Exists(k) /\ Fail(r)
              /\ UNCHANGED <<stored, births, excused>>
           \/ /\ ~Exists(k) /\ Finish2(r)
              /\ births' = births + 1
              /\ stored' = [stored EXCEPT ![k] = [creq[r].rec EXCEPT !.born = births + 1]]
              /\ excused' = (excused \/ Tangles(k, r))
        /\ UNCHANGED <<dead, configsReady, work2>>

\* experiment.Create: the topology it names has to be there.
TopologyRead(r) ==
    /\ creq[r].at = "topology"
    /\ IF \E t \in OtherConfigs : Exists(t) THEN Step(r, "next") ELSE Fail(r)
    /\ UNCHANGED <<stored, births, dead, configsReady, excused, work2>>

\* POST /experiments.
CreateExperiment(r, k) ==
    /\ creq[r].at = "rest" /\ Enough
    /\ Enter(r, [AtRest EXCEPT !.at = "topology", !.op = "create", !.todo = <<k>>])
    /\ UNCHANGED <<stored, births, dead, configsReady, excused>>

\* experiment create with the file of its topology.
ExperimentCreateCmd(r, t, k) ==
    /\ creq[r].at = "rest" /\ Enough
    /\ Enter(r, [AtRest EXCEPT !.at = "next", !.op = "create", !.todo = <<t, k>>])
    /\ UNCHANGED <<stored, births, dead, configsReady, excused>>

-----------------------------------------------------------------------------
(* Updating and renaming.                                                   *)

\* The client, or the editor of config edit, reads the config it will send
\* back under the same or another name.
GetConfig(r, k, to) ==
    /\ creq[r].at = "rest" /\ Exists(k) /\ Enough
    /\ (k \in ExpConfigs) = (to \in ExpConfigs)
    /\ Enter(r, [AtRest EXCEPT !.at = "edit", !.op = "update", !.key = k, !.to = to,
                               !.rec = stored[k]])
    /\ UNCHANGED <<stored, births, dead, configsReady, excused>>

\* config edit opens the config of an experiment only when it is not running,
\* unless it is forced to.
Edit(r, k, to, force) ==
    (k \in ExpConfigs /\ stored[k].running => force) /\ GetConfig(r, k, to)

\* PUT /configs and config edit: config.Update up to its hooks. The status the
\* hook looks at is the one in the body.
UpdateConfig(r) ==
    LET q   == creq[r]
        rec == IF q.key \in ExpConfigs THEN [q.rec EXCEPT !.named = q.key] ELSE q.rec
    IN  /\ q.at = "edit"
        /\ IF ~Exists(q.key) \/ (q.key \in ExpConfigs /\
                (q.rec.running \/ BridgeTaken(q.to, q.rec.bridge)))
           THEN Fail(r)
           ELSE Enter(r, [q EXCEPT !.at = "put", !.born = stored[q.key].born,
                                   !.rec = HookUpdate(q.to, rec)])
        /\ excused' = (excused \/ TakesMade(q.key) \/ MadeAndGone(q.key))
        /\ UNCHANGED <<stored, births, dead, configsReady, work2>>

\* An experiment that was updated is configured again.
ThenReconfigure(r) ==
    IF creq[r].to \in ExpConfigs /\ creq[r].op = "update" THEN Step(r, "again") ELSE Finish2(r)

StoreUpdate(r) ==
    LET q == creq[r]
    IN  /\ q.at = "put"
        /\ \/ /\ Exists(q.to) /\ ThenReconfigure(r)
              /\ stored' = [stored EXCEPT ![q.to] = [q.rec EXCEPT !.born = stored[q.to].born]]
           \/ ~Exists(q.to) /\ Step(r, "make") /\ UNCHANGED stored
        /\ UNCHANGED <<births, dead, configsReady, excused, work2>>

\* The name changed: the config is created under the new one...
RenameCreates(r) ==
    LET q == creq[r]
    IN  /\ q.at = "make"
        /\ \/ Exists(q.to) /\ Fail(r) /\ UNCHANGED <<stored, excused>>
           \/ /\ ~Exists(q.to) /\ Step(r, "drop")
              /\ stored' = [stored EXCEPT ![q.to] = [q.rec EXCEPT !.born = q.born]]
              /\ excused' = (excused \/ Tangles(q.to, r))
        /\ UNCHANGED <<births, dead, configsReady, work2>>

\* Fault: an old name that is gone already counts as deleted.
DropsQuietly(r) ==
    LET q == creq[r]
    IN  /\ q.at = "drop"
        /\ stored' = [stored EXCEPT ![q.key] = NoConf]
        /\ ThenReconfigure(r)
        /\ UNCHANGED <<births, dead, configsReady, excused, work2>>

\* ... and deleted under the old one.
RenameDeletes(r) ==
    LET q == creq[r]
    IN  /\ q.at = "drop"
        /\ \/ /\ Exists(q.key) /\ ThenReconfigure(r)
              /\ stored' = [stored EXCEPT ![q.key] = NoConf]
           \/ ~Exists(q.key) /\ Step(r, "undo") /\ UNCHANGED stored
        /\ UNCHANGED <<births, dead, configsReady, excused, work2>>

\* "don't offer a path to creation via updates"
RenameUndone(r) ==
    /\ creq[r].at = "undo"
    /\ stored' = [stored EXCEPT ![creq[r].to] = NoConf]
    /\ Fail(r)
    /\ UNCHANGED <<births, dead, configsReady, excused, work2>>

\* experiment.Reconfigure reads the config and updates it under its name.
ReconfigureGets(r) ==
    LET q == creq[r]
    IN  /\ q.at = "again"
        /\ IF ~Exists(q.to) \/ stored[q.to].running THEN Fail(r)
           ELSE Enter(r, [q EXCEPT !.op = "reconfigure", !.at = "edit", !.key = q.to,
                                   !.rec = stored[q.to]])
        /\ UNCHANGED <<stored, births, dead, configsReady, excused, work2>>

-----------------------------------------------------------------------------
(* Deleting.                                                                *)

\* DELETE /configs, config delete, and config delete all with what it lists.
DeleteConfig(r, ks) ==
    /\ creq[r].at = "rest" /\ Enough
    /\ Enter(r, [AtRest EXCEPT !.at = "next", !.op = "delete", !.todo = ks])
    /\ UNCHANGED <<stored, births, dead, configsReady, excused>>

\* experiment delete of one or all experiments that were not running.
ExperimentDeleteCmd(r, ks) ==
    (\A i \in DOMAIN ks : ~stored[ks[i]].running) /\ DeleteConfig(r, ks)

DeleteGets(r) ==
    LET k == Head(creq[r].todo)
    IN  /\ creq[r].at = "next" /\ creq[r].op = "delete"
        /\ IF Exists(k) THEN Enter(r, [creq[r] EXCEPT !.at = "delete", !.key = k, !.todo = Tail(@)])
           ELSE Fail(r)
        /\ UNCHANGED <<stored, births, dead, configsReady, excused, work2>>

StoreDelete(r) ==
    LET k == creq[r].key
    IN  /\ creq[r].at = "delete"
        /\ \/ /\ Exists(k) /\ Finish2(r)
              /\ dead' = IF TakenBack(k) THEN dead ELSE dead \cup {stored[k].born}
              /\ stored' = [stored EXCEPT ![k] = NoConf]
              /\ excused' = (excused \/ MadeBeside(k))
           \/ ~Exists(k) /\ Fail(r) /\ UNCHANGED <<stored, dead, excused>>
        /\ UNCHANGED <<births, configsReady, work2>>

-----------------------------------------------------------------------------
(* The defaults of a new store. Every command runs this before its own work *)
(* until one has marked the store.                                          *)

InitConfigs(r, order) ==
    /\ creq[r].at = "rest" /\ ~configsReady /\ Enough
    /\ Enter(r, [AtRest EXCEPT !.at = "next", !.op = "init", !.todo = order])
    /\ UNCHANGED <<stored, births, dead, configsReady, excused>>

WalkDefaults(r) ==
    LET k == Head(creq[r].todo)
    IN  /\ creq[r].at = "next" /\ creq[r].op = "init"
        /\ IF Exists(k)
           THEN Enter(r, [creq[r] EXCEPT !.todo = Tail(@),
                                         !.at = IF Len(creq[r].todo) = 1 THEN "ready" ELSE @])
           ELSE Enter(r, [creq[r] EXCEPT !.at = "default"])
        /\ UNCHANGED <<stored, births, dead, configsReady, excused, work2>>

CreateDefault(r) ==
    LET k == Head(creq[r].todo)
    IN  /\ creq[r].at = "default" /\ births < Births
        /\ \/ Exists(k) /\ Fail(r) /\ UNCHANGED <<stored, births, excused>>
           \/ /\ ~Exists(k)
              /\ births' = births + 1
              /\ stored' = [stored EXCEPT ![k] = [born |-> births + 1, named |-> "none", dir |-> "none",
                                                  bridge |-> DefaultBridge, running |-> FALSE]]
              /\ excused' = (excused \/ Tangles(k, r))
              /\ Enter(r, [creq[r] EXCEPT !.todo = Tail(@),
                               !.at = IF Len(creq[r].todo) = 1 THEN "ready" ELSE "next"])
        /\ UNCHANGED <<dead, configsReady, work2>>

\* The startup hooks are given every config as it was listed, and it is
\* stored again after them.
StartupLists(r) ==
    /\ creq[r].at = "ready"
    /\ \E o \in Orders({k \in Configs : Exists(k)}) :
         Enter(r, [creq[r] EXCEPT !.at = "hooks",
                      !.todo = [i \in DOMAIN o |-> [key |-> o[i], rec |-> stored[o[i]]]]])
    /\ UNCHANGED <<stored, births, dead, configsReady, excused, work2>>

StartupHook(r) ==
    LET c == Head(creq[r].todo)
    IN  /\ creq[r].at = "hooks" /\ creq[r].todo # <<>>
        /\ \/ /\ Exists(c.key)
              /\ stored' = [stored EXCEPT ![c.key] = [c.rec EXCEPT !.born = stored[c.key].born]]
              /\ Enter(r, [creq[r] EXCEPT !.todo = Tail(@)])
           \/ ~Exists(c.key) /\ Fail(r) /\ UNCHANGED stored
        /\ UNCHANGED <<births, dead, configsReady, excused, work2>>

InitializeComponent(r) ==
    /\ creq[r].at = "hooks" /\ creq[r].todo = <<>>
    /\ configsReady' = TRUE
    /\ Fail(r)
    /\ UNCHANGED <<stored, births, dead, excused, work2>>

-----------------------------------------------------------------------------
\* A start or a stop changes the status in the store (module Lifecycle).
Runs(k) ==
    /\ Exists(k) /\ Enough
    /\ stored' = [stored EXCEPT ![k].running = ~@]
    /\ UNCHANGED <<births, dead, creq, configsReady, excused>>

\* A process is killed. A rename it was in the middle of leaves both names.
Crash(r) ==
    /\ work2 < ConfigWork /\ creq[r].at # "rest" /\ Crashes > 0
    /\ work2' = work2 + 1
    /\ excused' = (excused \/ creq[r].at \in {"drop", "undo"})
    /\ Fail(r)
    /\ UNCHANGED <<stored, births, dead, configsReady>>

ConfigsInit ==
    /\ stored = [k \in Configs |-> NoConf]
    /\ births = 0 /\ dead = {}
    /\ creq = [r \in ConfigRequests |-> AtRest]
    /\ configsReady = FALSE /\ excused = FALSE /\ work2 = 0

ConfigCommand(r) ==
    \/ \E k \in Configs : CreateConfig(r, <<k>>) \/ CreateConfig(r, <<"builder", k>>)
    \/ \E k \in ExpConfigs : CreateExperiment(r, k)
    \/ \E t \in OtherConfigs, k \in ExpConfigs : ExperimentCreateCmd(r, t, k)
    \/ \E k, to \in Configs : Exists(k) /\ (GetConfig(r, k, to) \/ \E f \in BOOLEAN : Edit(r, k, to, f))
    \/ \E k \in Configs : DeleteConfig(r, <<k>>)
    \/ \E ks \in Orders({k \in Configs : Exists(k)}) : ks # <<>> /\ DeleteConfig(r, ks)
    \/ \E ks \in Orders({k \in ExpConfigs : Exists(k)}) : ks # <<>> /\ ExperimentDeleteCmd(r, ks)
    \/ \E o \in Orders(DefaultConfigs) : InitConfigs(r, o)

ConfigStep(r) ==
    \/ TopologyRead(r) \/ SkipBuilderFile(r) \/ (\E b \in Bridges : CreateHooked(r, b)) \/ StoreCreate(r)
    \/ UpdateConfig(r) \/ StoreUpdate(r) \/ RenameCreates(r) \/ RenameDeletes(r)
    \/ RenameUndone(r) \/ ReconfigureGets(r)
    \/ DeleteGets(r) \/ StoreDelete(r)
    \/ WalkDefaults(r) \/ CreateDefault(r)
    \/ StartupLists(r) \/ StartupHook(r) \/ InitializeComponent(r)
    \/ Crash(r)

ConfigsNext ==
    \/ \E r \in ConfigRequests : ConfigCommand(r) \/ ConfigStep(r)
    \/ \E k \in ExpConfigs : Runs(k)

ConfigsSpec == ConfigsInit /\ [][ConfigsNext]_configVars

-----------------------------------------------------------------------------
ConfigsTypeOK ==
    /\ \A k \in Configs : stored[k].born \in 0..births
    /\ births \in 0..Births /\ dead \subseteq 1..births
    /\ configsReady \in BOOLEAN /\ excused \in BOOLEAN

\* A config that was created and not deleted is in the store under exactly one
\* name, and one that was deleted is under none, whatever updates, renames and
\* deletes of it cross (config.Update, config.Delete; Init stores no default
\* over a config that is there). Only a rename that is under way has two names.
\* Left out are the crash in the middle of a rename, a name that is taken again
\* while an update that started from it or leads to it is under way, an update
\* of a name that a rename under way may take back, and two updates of one
\* config when the new name of the first is deleted before its old one is.
OneConfigPerCreate ==
    ~excused => \A b \in 1..births :
        LET places == {k \in Configs : stored[k].born = b}
        IN  \/ \E r \in ConfigRequests : creq[r].at \in {"drop", "undo"} /\ creq[r].born = b
            \/ IF b \in dead THEN places = {} ELSE Cardinality(places) = 1

\* The name in an experiment's spec and its base directory are those of its
\* config, through renames, edits of a copy under another name and
\* configuring again (hookCreate, hookUpdate, UpdateConfig's reset).
NamesAgree ==
    \A k \in ExpConfigs : Exists(k) => stored[k].named = k /\ stored[k].dir = k

\* Both, of the store after any crossing of requests.
ConfigsConsistent == OneConfigPerCreate /\ NamesAgree
=============================================================================
