------------------------------- MODULE Registry -------------------------------
(***************************************************************************)
(* The registry of configuration groups (db/instance.go) and the loading   *)
(* of the configuration file into it (db/config_file.go).                  *)
(*                                                                         *)
(* Goroutines call Instance, SetConfig, RemoveConfig, LoadConfig and       *)
(* SetDefaultGroup at any time.  groupMu is held over each lookup or       *)
(* change of the maps, and by Instance from its second lookup until the    *)
(* instance is published, pings included.  The default group, configLoaded *)
(* and the test and the write LoadConfig makes on the maps are outside it. *)
(* A step of a goroutine ends where another one can come in between.       *)
(*                                                                         *)
(* The file is the same whenever it is read.  A registration is a number,  *)
(* new for every SetConfig; an instance is an index into dbs.              *)
(***************************************************************************)
EXTENDS Integers, Sequences

CONSTANTS
    Procs,             \* the goroutines
    Free,              \* who holds a lock that nobody holds
    Groups,            \* the names of groups
    DefaultGroupName,  \* the group that is the default at first
    FileGroups,        \* the groups of the file, in order; empty: no file
    FileDefault,       \* gooq.defaultGroup, or DefaultGroupName without one
    FileLogger,        \* the file has a logger node with settings
    Calls,             \* the functions goroutines call
    Names,             \* the names they pass; NoName stands for none
    NoName,
    Faults,            \* what can fail: "file", "link", "open", "logger", "close"
    MaxCalls           \* bound: calls made in all

ASSUME RegistryAssumption ==
    /\ Free \notin Procs
    /\ DefaultGroupName \in Groups /\ FileDefault \in Groups
    /\ FileGroups \in Seq(Groups)
    /\ \A i, j \in DOMAIN FileGroups : FileGroups[i] = FileGroups[j] => i = j
    /\ FileLogger \in BOOLEAN
    /\ NoName \notin Groups /\ Names \subseteq Groups \cup {NoName}
    /\ MaxCalls \in Nat

VARIABLES
    defaultGroup, groupConfigs, groupInstances, groupLoggerConfigs,
    loggerSQLFormat,  \* the format is the file's
    configLoaded,
    groupMu,          \* the goroutine that holds the lock, or Free
    dbs,              \* every instance opened so far
    pc, call,         \* per goroutine: its next step, its call's locals
    answer,           \* per goroutine: what its last Instance call returned
    registered,       \* history: registrations made so far
    removed,          \* history: groups RemoveConfig has removed
    made              \* history: calls made so far

maps  == <<groupConfigs, groupInstances, groupLoggerConfigs>>
atoms == <<defaultGroup, loggerSQLFormat, configLoaded>>
procs == <<pc, call, answer>>
hist  == <<registered, removed, made>>
vars  == <<maps, atoms, groupMu, dbs, procs, hist>>

None == 0

DB     == [group : Groups, config : Nat, logger : BOOLEAN, format : BOOLEAN, open : BOOLEAN]
Steps  == {"idle", "look", "once", "loaded", "open", "publish", "read", "contains",
           "relog", "apply", "store", "remove", "close", "logger"}
Locals == [op : {"none", "Instance", "SetConfig", "RemoveConfig", "LoadConfig"},
           asked : Groups \cup {NoName}, group : Groups, k : Nat, db : Nat]
Answer == [kind : {"none", "db", "empty", "err"}, asked : Groups \cup {NoName}, db : Nat]
NoCall == [op |-> "none", asked |-> NoName, group |-> DefaultGroupName, k |-> 1, db |-> None]

Init ==
    /\ defaultGroup = DefaultGroupName
    /\ groupConfigs = [g \in Groups |-> None]
    /\ groupInstances = [g \in Groups |-> None]
    /\ groupLoggerConfigs = [g \in Groups |-> FALSE]
    /\ loggerSQLFormat = FALSE /\ configLoaded = FALSE
    /\ groupMu = Free /\ dbs = <<>>
    /\ pc = [p \in Procs |-> "idle"] /\ call = [p \in Procs |-> NoCall]
    /\ answer = [p \in Procs |-> [kind |-> "none", asked |-> NoName, db |-> None]]
    /\ registered = 0 /\ removed = {} /\ made = 0
-----------------------------------------------------------------------------
Goto(p, step) == pc' = [pc EXCEPT ![p] = step] /\ UNCHANGED answer

(* The call returns; Instance with an instance, no configuration or an error. *)
Return(p, kind, db) ==
    /\ pc' = [pc EXCEPT ![p] = "idle"]
    /\ answer' = IF call[p].op = "Instance"
                 THEN [answer EXCEPT ![p] = [kind |-> kind, asked |-> call[p].asked, db |-> db]]
                 ELSE answer

Begin(p, op, asked, step) ==
    /\ pc[p] = "idle" /\ op \in Calls /\ made < MaxCalls
    /\ made' = made + 1
    /\ call' = [call EXCEPT ![p] =
                   [op |-> op, asked |-> asked,
                    group |-> IF asked = NoName THEN defaultGroup ELSE asked,
                    k |-> 1, db |-> None]]
    /\ Goto(p, step)
    /\ UNCHANGED <<maps, atoms, groupMu, dbs, registered, removed>>

(* The calls: a name that is not given is the default group at that moment, *)
(* before the file has been read.                                           *)
Instance(p, name)     == Begin(p, "Instance", name, "look")
SetConfig(p, name)    == Begin(p, "SetConfig", name, "store")
RemoveConfig(p, name) == Begin(p, "RemoveConfig", name, "remove")
LoadConfig(p)         == Begin(p, "LoadConfig", NoName, "read")

(* Mutant: an empty name is taken as it is. *)
SetDefaultGroupAny(p, name) ==
    /\ pc[p] = "idle" /\ "SetDefaultGroup" \in Calls /\ made < MaxCalls
    /\ made' = made + 1
    /\ defaultGroup' = name
    /\ UNCHANGED <<maps, loggerSQLFormat, configLoaded, groupMu, dbs, procs, registered, removed>>

SetDefaultGroup(p, name) ==
    /\ pc[p] = "idle" /\ "SetDefaultGroup" \in Calls /\ made < MaxCalls
    /\ made' = made + 1
    /\ defaultGroup' = IF name = NoName THEN DefaultGroupName ELSE name
    /\ UNCHANGED <<maps, loggerSQLFormat, configLoaded, groupMu, dbs, procs, registered, removed>>
-----------------------------------------------------------------------------
(* Instance, first lookup (103-113). *)
Look(p) ==
    LET g == call[p].group IN
    /\ pc[p] = "look" /\ groupMu = Free
    /\ IF groupInstances[g] # None THEN Return(p, "db", groupInstances[g])
       ELSE Goto(p, IF groupConfigs[g] # None THEN "open" ELSE "once")
    /\ UNCHANGED <<maps, atoms, groupMu, dbs, call, hist>>

(* Mutant: configLoaded is set before the file is read. *)
LoadOnceEarly(p) ==
    /\ pc[p] = "once"
    /\ configLoaded' = TRUE
    /\ Goto(p, IF configLoaded THEN "open" ELSE IF FileGroups = <<>> THEN "loaded" ELSE "read")
    /\ UNCHANGED <<maps, defaultGroup, loggerSQLFormat, groupMu, dbs, call, hist>>

(* loadConfigOnce (296-311): the file is read unless that has been done. *)
LoadOnce(p) ==
    /\ pc[p] = "once"
    /\ Goto(p, IF configLoaded THEN "open" ELSE IF FileGroups = <<>> THEN "loaded" ELSE "read")
    /\ UNCHANGED <<maps, atoms, groupMu, dbs, call, hist>>

Loaded(p) ==
    /\ pc[p] = "loaded"
    /\ configLoaded' = TRUE
    /\ Goto(p, "open")
    /\ UNCHANGED <<maps, defaultGroup, loggerSQLFormat, groupMu, dbs, call, hist>>

(* Mutant: the registry is not looked up again under the lock. *)
OpenAgain(p) ==
    LET g == call[p].group IN
    /\ pc[p] = "open" /\ groupMu = Free /\ groupConfigs[g] # None
    /\ groupMu' = p
    /\ dbs' = Append(dbs, [group |-> g, config |-> groupConfigs[g],
                           logger |-> FALSE, format |-> FALSE, open |-> TRUE])
    /\ call' = [call EXCEPT ![p].db = Len(dbs) + 1]
    /\ Goto(p, "publish")
    /\ UNCHANGED <<maps, atoms, hist>>

(* Instance, second lookup; it opens the group with the lock held. *)
Open(p) ==
    LET g == call[p].group IN
    /\ pc[p] = "open" /\ groupMu = Free
    /\ \/ /\ groupInstances[g] # None
          /\ Return(p, "db", groupInstances[g])
          /\ UNCHANGED <<groupMu, dbs, call>>
       \/ /\ groupInstances[g] = None /\ groupConfigs[g] = None
          /\ Return(p, "empty", None)
          /\ UNCHANGED <<groupMu, dbs, call>>
       \/ /\ groupInstances[g] = None /\ groupConfigs[g] # None
          /\ groupMu' = p
          /\ dbs' = Append(dbs, [group |-> g, config |-> groupConfigs[g],
                                 logger |-> FALSE, format |-> FALSE, open |-> TRUE])
          /\ call' = [call EXCEPT ![p].db = Len(dbs) + 1]
          /\ Goto(p, "publish")
       \/ /\ groupInstances[g] = None /\ groupConfigs[g] # None /\ "open" \in Faults
          /\ Return(p, "err", None)
          /\ UNCHANGED <<groupMu, dbs, call>>
    /\ UNCHANGED <<maps, atoms, hist>>

(* applyGroupLogger and SetSQLFormat on an instance. *)
Logging(db) ==
    [group |-> db.group, config |-> db.config, open |-> db.open,
     logger |-> db.logger \/ groupLoggerConfigs[db.group], format |-> loggerSQLFormat]

(* Mutant: the error return forgets the lock. *)
PublishKeepsLock(p) ==
    LET g == call[p].group
        i == call[p].db IN
    /\ pc[p] = "publish" /\ groupMu = p
    /\ \/ /\ groupMu' = Free
          /\ dbs' = [dbs EXCEPT ![i] = Logging(@)]
          /\ groupInstances' = [groupInstances EXCEPT ![g] = i]
          /\ Return(p, "db", i)
       \/ /\ "logger" \in Faults /\ groupLoggerConfigs[g]
          /\ dbs' = [dbs EXCEPT ![i].open = FALSE]
          /\ Return(p, "err", None)
          /\ UNCHANGED <<groupMu, groupInstances>>
    /\ UNCHANGED <<groupConfigs, groupLoggerConfigs, atoms, call, hist>>

(* The rest of Instance: the logger, the format, the map, unlock. *)
Publish(p) ==
    LET g == call[p].group
        i == call[p].db IN
    /\ pc[p] = "publish" /\ groupMu = p
    /\ groupMu' = Free
    /\ \/ /\ dbs' = [dbs EXCEPT ![i] = Logging(@)]
          /\ groupInstances' = [groupInstances EXCEPT ![g] = i]
          /\ Return(p, "db", i)
       \/ /\ "logger" \in Faults /\ groupLoggerConfigs[g]
          /\ dbs' = [dbs EXCEPT ![i].open = FALSE]
          /\ Return(p, "err", None)
          /\ UNCHANGED groupInstances
    /\ UNCHANGED <<groupConfigs, groupLoggerConfigs, atoms, call, hist>>
-----------------------------------------------------------------------------
(* LoadConfig, one group of the file after the other. *)

Target(p) == IF call[p].op = "SetConfig" THEN call[p].group ELSE FileGroups[call[p].k]

NextGroup(p) == call' = [call EXCEPT ![p].k = @ + 1] /\ Goto(p, "contains")

(* The file is read and checked (109-164); the format is set before the     *)
(* last checks, so a file that is refused may leave it behind (146).        *)
Read(p) ==
    /\ pc[p] = "read"
    /\ loggerSQLFormat' \in {loggerSQLFormat, loggerSQLFormat \/ FileLogger}
    /\ \/ /\ FileGroups # <<>>
          /\ FileLogger => loggerSQLFormat'
          /\ Goto(p, "contains")
       \/ /\ FileGroups = <<>> \/ "file" \in Faults
          /\ Return(p, "err", None)
    /\ UNCHANGED <<maps, defaultGroup, configLoaded, groupMu, dbs, call, hist>>

(* groupConfigs.Contains (170), without the lock. *)
Contains(p) ==
    /\ pc[p] = "contains" /\ call[p].k <= Len(FileGroups)
    /\ IF groupConfigs[Target(p)] = None THEN Goto(p, "store") /\ UNCHANGED call
       ELSE IF FileLogger THEN Goto(p, "relog") /\ UNCHANGED call
       ELSE NextGroup(p)
    /\ UNCHANGED <<maps, atoms, groupMu, dbs, hist>>

(* A group that is registered gets the logger only (174-189). *)
Relog(p) ==
    LET g == Target(p) IN
    /\ pc[p] = "relog" /\ groupMu = Free
    /\ groupLoggerConfigs' = [groupLoggerConfigs EXCEPT ![g] = TRUE]
    /\ IF groupInstances[g] = None THEN NextGroup(p)
       ELSE /\ call' = [call EXCEPT ![p].db = groupInstances[g]]
            /\ Goto(p, "apply")
    /\ UNCHANGED <<groupConfigs, groupInstances, atoms, groupMu, dbs, hist>>

Apply(p) ==
    LET i == call[p].db IN
    /\ pc[p] = "apply"
    /\ \/ /\ dbs' = [dbs EXCEPT ![i] = Logging(@)]
          /\ NextGroup(p)
       \/ /\ "logger" \in Faults /\ groupLoggerConfigs[dbs[i].group]
          /\ Return(p, "err", None)
          /\ UNCHANGED <<dbs, call>>
    /\ UNCHANGED <<maps, atoms, groupMu, hist>>

(* Mutant: the instance taken out of the map is not closed. *)
StoreForgets(p) ==
    LET g == Target(p) IN
    /\ pc[p] = "store" /\ groupMu = Free
    /\ registered' = registered + 1
    /\ groupLoggerConfigs' = [groupLoggerConfigs EXCEPT ![g] = FALSE]
    /\ groupConfigs' = [groupConfigs EXCEPT ![g] = registered + 1]
    /\ groupInstances' = [groupInstances EXCEPT ![g] = None]
    /\ call' = [call EXCEPT ![p].db = None]
    /\ Goto(p, "close")
    /\ UNCHANGED <<atoms, groupMu, dbs, removed, made>>

(* SetConfig with the lock held (56-60), for its caller or for the file. *)
Store(p) ==
    LET g == Target(p) IN
    /\ pc[p] = "store" /\ groupMu = Free
    /\ registered' = registered + 1
    /\ groupLoggerConfigs' = [groupLoggerConfigs EXCEPT ![g] = FALSE]
    /\ groupConfigs' = [groupConfigs EXCEPT ![g] = registered + 1]
    /\ groupInstances' = [groupInstances EXCEPT ![g] = None]
    /\ call' = [call EXCEPT ![p].db = groupInstances[g]]
    /\ Goto(p, "close")
    /\ UNCHANGED <<atoms, groupMu, dbs, removed, made>>

(* SetConfig refuses the nodes before it takes the lock (48-55). *)
Refuse(p) ==
    /\ pc[p] = "store" /\ "link" \in Faults
    /\ Return(p, "err", None)
    /\ UNCHANGED <<maps, atoms, groupMu, dbs, call, hist>>

(* Mutant: the configuration goes and the instance stays registered. *)
RemoveKeepsInstance(p) ==
    LET g == call[p].group IN
    /\ pc[p] = "remove" /\ groupMu = Free
    /\ removed' = removed \cup {g}
    /\ groupLoggerConfigs' = [groupLoggerConfigs EXCEPT ![g] = FALSE]
    /\ groupConfigs' = [groupConfigs EXCEPT ![g] = None]
    /\ Goto(p, "close")
    /\ UNCHANGED <<groupInstances, atoms, groupMu, dbs, call, registered, made>>

Remove(p) ==
    LET g == call[p].group IN
    /\ pc[p] = "remove" /\ groupMu = Free
    /\ removed' = removed \cup {g}
    /\ groupLoggerConfigs' = [groupLoggerConfigs EXCEPT ![g] = FALSE]
    /\ groupConfigs' = [groupConfigs EXCEPT ![g] = None]
    /\ groupInstances' = [groupInstances EXCEPT ![g] = None]
    /\ call' = [call EXCEPT ![p].db = groupInstances[g]]
    /\ Goto(p, "close")
    /\ UNCHANGED <<atoms, groupMu, dbs, registered, made>>

(* The instance taken out of the map is closed without the lock. *)
Close(p) ==
    LET i == call[p].db IN
    /\ pc[p] = "close"
    /\ dbs' = IF i = None THEN dbs ELSE [dbs EXCEPT ![i].open = FALSE]
    /\ \/ IF call[p].op \in {"SetConfig", "RemoveConfig"} THEN Return(p, "nil", None)
                                                        ELSE Goto(p, "logger")
       \/ i # None /\ "close" \in Faults /\ Return(p, "err", None)
    /\ call' = [call EXCEPT ![p].db = None]
    /\ UNCHANGED <<maps, atoms, groupMu, hist>>

(* The logger of a group just registered (194-196), without the lock. *)
Logger(p) ==
    /\ pc[p] = "logger"
    /\ groupLoggerConfigs' = [groupLoggerConfigs EXCEPT ![Target(p)] = @ \/ FileLogger]
    /\ NextGroup(p)
    /\ UNCHANGED <<groupConfigs, groupInstances, atoms, groupMu, dbs, hist>>

(* SetDefaultGroup(chosen) after the last group (198-202). *)
ChooseDefault(p) ==
    /\ pc[p] = "contains" /\ call[p].k > Len(FileGroups)
    /\ defaultGroup' = FileDefault
    /\ IF call[p].op = "Instance" THEN Goto(p, "loaded") ELSE Return(p, "nil", None)
    /\ UNCHANGED <<maps, loggerSQLFormat, configLoaded, groupMu, dbs, call, hist>>
-----------------------------------------------------------------------------
Step(p) ==
    \/ Look(p) \/ LoadOnce(p) \/ Loaded(p) \/ Open(p) \/ Publish(p)
    \/ Read(p) \/ Contains(p) \/ Relog(p) \/ Apply(p) \/ Logger(p) \/ ChooseDefault(p)
    \/ Store(p) \/ Refuse(p) \/ Remove(p) \/ Close(p)

Call(p) ==
    \/ LoadConfig(p)
    \/ \E name \in Names :
          Instance(p, name) \/ SetConfig(p, name) \/ RemoveConfig(p, name) \/ SetDefaultGroup(p, name)

Terminated == made = MaxCalls /\ (\A p \in Procs : pc[p] = "idle") /\ UNCHANGED vars

Next == (\E p \in Procs : Step(p) \/ Call(p)) \/ Terminated

Spec == Init /\ [][Next]_vars

(* A goroutine inside a call is scheduled again and again, and nobody keeps *)
(* the lock but to open a group.                                            *)
FairSpec == Spec /\ \A p \in Procs : WF_vars(Step(p))
-----------------------------------------------------------------------------
(* Properties.                                                              *)

(* The variables have their types. *)
TypeOK ==
    /\ defaultGroup \in Groups
    /\ groupConfigs \in [Groups -> Nat]
    /\ groupInstances \in [Groups -> Nat]
    /\ groupLoggerConfigs \in [Groups -> BOOLEAN]
    /\ loggerSQLFormat \in BOOLEAN /\ configLoaded \in BOOLEAN
    /\ groupMu \in Procs \cup {Free}
    /\ dbs \in Seq(DB)
    /\ pc \in [Procs -> Steps]
    /\ call \in [Procs -> Locals] /\ answer \in [Procs -> Answer]
    /\ registered \in Nat /\ removed \subseteq Groups /\ made \in Nat

(* An instance in the registry is open and was opened from the group's      *)
(* present configuration: no goroutine can look up a closed pool, or one    *)
(* whose configuration SetConfig or RemoveConfig has replaced               *)
(* (db/instance.go:56-60, 114-135).                                         *)
RegisteredIsCurrent ==
    \A g \in Groups :
        groupInstances[g] # None =>
            LET db == dbs[groupInstances[g]] IN
            db.open /\ db.group = g /\ db.config = groupConfigs[g]

(* Of one registration there is never more than one open instance,          *)
(* whichever goroutines ask for it first (db/instance.go:96, 114-118).      *)
OpenedOnce ==
    \A i, j \in DOMAIN dbs :
        dbs[i].open /\ dbs[j].open /\ dbs[i].config = dbs[j].config => i = j

(* An open instance is in the registry or in the hands of one goroutine     *)
(* that is about to publish or to close it: no pool is lost open            *)
(* (db/instance.go:59-63, 128-135).                                         *)
NoPoolLost ==
    \A i \in DOMAIN dbs :
        dbs[i].open =>
            \/ groupInstances[dbs[i].group] = i
            \/ \E p \in Procs : pc[p] \in {"publish", "close"} /\ call[p].db = i

(* Instance reports a missing configuration for a group of the file only    *)
(* when RemoveConfig has been called for it: configLoaded tells of a        *)
(* finished load, and who finds it false loads the file himself             *)
(* (db/instance.go:109-122, db/config_file.go:296-310).                     *)
FileIsLoadedFirst ==
    \A p \in Procs :
        answer[p].kind = "empty" /\ answer[p].asked \in Groups =>
            \/ answer[p].asked \in removed
            \/ \A k \in DOMAIN FileGroups : FileGroups[k] # answer[p].asked

(* Every call returns: the lock is not held for good. *)
CallsReturn == \A p \in Procs : pc[p] # "idle" ~> pc[p] = "idle"

(* Inductive: what makes RegisteredIsCurrent, OpenedOnce and NoPoolLost     *)
(* hold.  Who publishes has the lock and the only open instance of a        *)
(* current registration; who closes has an instance of one that is over.    *)
LockHolder == \A p \in Procs : pc[p] = "publish" <=> groupMu = p

Publishing ==
    \A p \in Procs : pc[p] = "publish" =>
        LET g == call[p].group
            i == call[p].db IN
        /\ i \in DOMAIN dbs /\ groupInstances[g] = None
        /\ dbs[i].open /\ dbs[i].group = g /\ dbs[i].config = groupConfigs[g]

Closing ==
    \A p \in Procs : pc[p] = "close" /\ call[p].db # None =>
        /\ call[p].db \in DOMAIN dbs
        /\ \A g \in Groups : dbs[call[p].db].config # groupConfigs[g]

Registrations ==
    /\ \A g \in Groups : groupConfigs[g] <= registered
    /\ \A g, h \in Groups : groupConfigs[g] = groupConfigs[h] => g = h \/ groupConfigs[g] = None
    /\ \A i \in DOMAIN dbs : dbs[i].config \in 1 .. registered
    /\ \A g \in Groups : groupInstances[g] # None => groupInstances[g] \in DOMAIN dbs

Loading(p) ==
    /\ call[p].k \in 1 .. Len(FileGroups) + 1
    /\ pc[p] \in {"read", "contains", "relog", "apply", "logger"} =>
          call[p].op \in {"Instance", "LoadConfig"}
    /\ pc[p] \in {"look", "once", "loaded", "open", "publish"} => call[p].op = "Instance"
    /\ pc[p] = "store" => call[p].op # "RemoveConfig"
    /\ pc[p] = "remove" => call[p].op = "RemoveConfig"
    /\ pc[p] # "idle" => call[p].op # "none"
    /\ \/ pc[p] \in {"relog", "apply", "logger"}
       \/ pc[p] \in {"store", "close"} /\ call[p].op \notin {"SetConfig", "RemoveConfig"}
       => call[p].k <= Len(FileGroups)
    /\ pc[p] = "apply" => call[p].db \in DOMAIN dbs

RegistryInv ==
    /\ TypeOK /\ RegisteredIsCurrent /\ OpenedOnce /\ NoPoolLost
    /\ LockHolder /\ Publishing /\ Closing /\ Registrations
    /\ \A p \in Procs : Loading(p)

(* What the documentation says and the code does not do.                    *)

(* db/instance.go:96: a group is created once, and SetConfig and            *)
(* RemoveConfig are what clears it.  When neither is called, an instance    *)
(* handed out stays open.                                                   *)
HandedOutStaysOpen == \A p \in Procs : answer[p].kind = "db" => dbs[answer[p].db].open
=============================================================================
