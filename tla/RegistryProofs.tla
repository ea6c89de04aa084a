---------------------------- MODULE RegistryProofs ----------------------------
(***************************************************************************)
(* Proofs about the registry for any number of goroutines, groups and      *)
(* calls, whatever fails.                                                  *)
(***************************************************************************)
EXTENDS Registry, SequenceTheorems, TLAPS

(* The program counter after a step inside a call. *)
LEMMA GotoFacts ==
    ASSUME TypeOK, NEW p \in Procs, NEW step \in Steps, Goto(p, step)
    PROVE  /\ pc' \in [Procs -> Steps] /\ pc'[p] = step /\ answer' = answer
           /\ \A q \in Procs \ {p} : pc'[q] = pc[q]
BY DEF TypeOK, Goto

(* The program counter and the answer after a return. *)
LEMMA ReturnFacts ==
    ASSUME TypeOK, NEW p \in Procs, NEW kind \in {"db", "empty", "err", "nil"}, NEW db \in Nat,
           Return(p, kind, db), kind = "nil" => call[p].op # "Instance"
    PROVE  /\ pc' \in [Procs -> Steps] /\ pc'[p] = "idle"
           /\ answer' \in [Procs -> Answer]
           /\ \A q \in Procs \ {p} : pc'[q] = pc[q]
<1>1. /\ pc \in [Procs -> Steps] /\ call \in [Procs -> Locals] /\ answer \in [Procs -> Answer]
  BY DEF TypeOK
<1>2. pc' = [pc EXCEPT ![p] = "idle"]
  BY DEF Return
<1>3. CASE call[p].op # "Instance"
  BY <1>1, <1>2, <1>3 DEF Return, Steps
<1>4. CASE call[p].op = "Instance"
  <2>1. call[p].asked \in Groups \cup {NoName}
    BY <1>1 DEF Locals
  <2>2. [kind |-> kind, asked |-> call[p].asked, db |-> db] \in Answer
    BY <1>4, <2>1 DEF Answer
  <2>3. answer' = [answer EXCEPT ![p] = [kind |-> kind, asked |-> call[p].asked, db |-> db]]
    BY <1>4 DEF Return
  <2>. QED
    BY <1>1, <1>2, <2>2, <2>3 DEF Steps
<1>. QED
  BY <1>3, <1>4

(* The instances after a step that changes loggers and formats only. *)
SameInstances ==
    /\ DOMAIN dbs' = DOMAIN dbs
    /\ \A i \in DOMAIN dbs :
          dbs'[i].group = dbs[i].group /\ dbs'[i].config = dbs[i].config /\ dbs'[i].open = dbs[i].open

(* A step that neither takes nor gives back an instance, and leaves the     *)
(* maps, the lock and what is open alone.                                   *)
LEMMA QuietStep ==
    ASSUME RegistryInv, NEW p \in Procs,
           pc[p] \notin {"publish", "close"}, pc'[p] \notin {"publish", "close"},
           \A q \in Procs \ {p} : pc'[q] = pc[q] /\ call'[q] = call[q],
           dbs' = dbs \/ SameInstances,
           UNCHANGED <<groupConfigs, groupInstances, groupMu, registered>>
    PROVE  /\ RegisteredIsCurrent' /\ OpenedOnce' /\ NoPoolLost'
           /\ LockHolder' /\ Publishing' /\ Closing' /\ Registrations'
<1>0. SameInstances
  BY DEF SameInstances
<1>1. /\ RegisteredIsCurrent /\ OpenedOnce /\ NoPoolLost
      /\ LockHolder /\ Publishing /\ Closing /\ Registrations
  BY DEF RegistryInv
<1>2. RegisteredIsCurrent' /\ OpenedOnce' /\ Registrations'
  <2>1. \A g \in Groups : groupInstances[g] # None => groupInstances[g] \in DOMAIN dbs
    BY <1>1 DEF Registrations
  <2>2. RegisteredIsCurrent'
    BY <1>0, <1>1, <2>1 DEF RegisteredIsCurrent, SameInstances
  <2>3. OpenedOnce'
    BY <1>0, <1>1 DEF OpenedOnce, SameInstances
  <2>4. Registrations'
    BY <1>0, <1>1 DEF Registrations, SameInstances
  <2>. QED
    BY <2>2, <2>3, <2>4
<1>3. \A q \in Procs :
         /\ pc'[q] \in {"publish", "close"} <=> pc[q] \in {"publish", "close"}
         /\ pc[q] \in {"publish", "close"} => pc'[q] = pc[q] /\ call'[q] = call[q]
  OBVIOUS
<1>4. NoPoolLost'
  BY <1>0, <1>1, <1>3 DEF NoPoolLost, SameInstances
<1>5. LockHolder'
  BY <1>1, <1>3 DEF LockHolder
<1>6. Publishing' /\ Closing'
  BY <1>0, <1>1, <1>3 DEF Publishing, Closing, SameInstances
<1>. QED
  BY <1>2, <1>4, <1>5, <1>6

(* The locals of the goroutines that do not step stay in order. *)
LEMMA LoadingStep ==
    ASSUME RegistryInv, NEW p \in Procs,
           \A q \in Procs \ {p} : pc'[q] = pc[q] /\ call'[q] = call[q],
           DOMAIN dbs \subseteq DOMAIN dbs', Loading(p)'
    PROVE  \A q \in Procs : Loading(q)'
<1>1. ASSUME NEW q \in Procs \ {p}
      PROVE  Loading(q)'
  BY DEF RegistryInv, Loading
<1>. QED
  BY <1>1
-----------------------------------------------------------------------------
(* The calls begin. *)
LEMMA CallStep ==
    ASSUME RegistryInv, NEW p \in Procs, Call(p)
    PROVE  RegistryInv'
<1>0. TypeOK /\ Loading(p)
  BY DEF RegistryInv
<1>1. ASSUME NEW op \in {"Instance", "SetConfig", "RemoveConfig", "LoadConfig"},
             NEW asked \in Groups \cup {NoName},
             NEW step \in {"look", "store", "remove", "read"},
             step = "read" => op = "LoadConfig", step = "store" => op = "SetConfig",
             step = "look" => op = "Instance", step = "remove" => op = "RemoveConfig",
             Begin(p, op, asked, step)
      PROVE  RegistryInv'
  <2>. DEFINE local == [op |-> op, asked |-> asked,
                        group |-> IF asked = NoName THEN defaultGroup ELSE asked,
                        k |-> 1, db |-> None]
  <2>1. /\ pc[p] = "idle" /\ call' = [call EXCEPT ![p] = local] /\ made' = made + 1
        /\ Goto(p, step) /\ step \in Steps
        /\ UNCHANGED <<maps, atoms, groupMu, dbs, registered, removed>>
    BY <1>1 DEF Begin, Steps
  <2>2. local \in Locals
    BY <1>0 DEF Locals, TypeOK, None
  <2>3. /\ pc' \in [Procs -> Steps] /\ pc'[p] = step /\ answer' = answer
        /\ \A q \in Procs \ {p} : pc'[q] = pc[q]
    BY <1>0, <2>1, GotoFacts
  <2>4. call \in [Procs -> Locals]
    BY <1>0 DEF TypeOK
  <2>5. /\ call' \in [Procs -> Locals] /\ call'[p] = local
        /\ \A q \in Procs \ {p} : call'[q] = call[q]
    <3>. HIDE DEF local
    <3>. QED
      BY <2>1, <2>2, <2>4
  <2>6. TypeOK'
    BY <1>0, <2>1, <2>3, <2>5 DEF TypeOK, maps, atoms
  <2>7. Len(FileGroups) \in Nat
    BY RegistryAssumption
  <2>8. Loading(p)'
    BY <1>1, <2>1, <2>3, <2>5, <2>7 DEF Loading
  <2>9. \A q \in Procs : Loading(q)'
    BY <2>1, <2>3, <2>5, <2>8, LoadingStep
  <2>10. /\ RegisteredIsCurrent' /\ OpenedOnce' /\ NoPoolLost'
         /\ LockHolder' /\ Publishing' /\ Closing' /\ Registrations'
    BY <2>1, <2>3, <2>5, QuietStep DEF maps
  <2>. QED
    BY <2>6, <2>9, <2>10 DEF RegistryInv
<1>2. ASSUME NEW name \in Names, SetDefaultGroup(p, name)
      PROVE  RegistryInv'
  <2>1. /\ UNCHANGED <<maps, loggerSQLFormat, configLoaded, groupMu, dbs, procs, registered, removed>>
        /\ made' = made + 1 /\ defaultGroup' \in Groups /\ pc[p] = "idle"
    BY <1>2, RegistryAssumption DEF SetDefaultGroup
  <2>2. TypeOK'
    BY <1>0, <2>1 DEF TypeOK, maps, procs
  <2>3. \A q \in Procs : Loading(q)'
    BY <2>1 DEF procs, RegistryInv, Loading
  <2>4. /\ RegisteredIsCurrent' /\ OpenedOnce' /\ NoPoolLost'
        /\ LockHolder' /\ Publishing' /\ Closing' /\ Registrations'
    BY <2>1, QuietStep DEF maps, procs
  <2>. QED
    BY <2>2, <2>3, <2>4 DEF RegistryInv
<1>3. Names \subseteq Groups \cup {NoName}
  BY RegistryAssumption
<1>. QED
  BY <1>1, <1>2, <1>3 DEF Call, LoadConfig, Instance, SetConfig, RemoveConfig

(* Where the group of a goroutine comes from. *)
LEMMA TargetType ==
    ASSUME RegistryInv, NEW p \in Procs,
           \/ pc[p] \in {"relog", "apply", "logger", "store"}
           \/ pc[p] = "contains" /\ call[p].k <= Len(FileGroups)
    PROVE  Target(p) \in Groups
<1>1. Loading(p) /\ call[p] \in Locals
  BY DEF RegistryInv, TypeOK
<1>2. call[p].group \in Groups /\ call[p].k \in Nat
  BY <1>1 DEF Locals
<1>3. CASE pc[p] = "store" /\ call[p].op = "SetConfig"
  BY <1>2, <1>3 DEF Target
<1>4. CASE ~(pc[p] = "store" /\ call[p].op = "SetConfig")
  <2>1. call[p].op # "SetConfig"
    BY <1>1, <1>4 DEF Loading
  <2>2. call[p].k \in 1 .. Len(FileGroups)
    <3>1. call[p].k <= Len(FileGroups)
      <4>1. CASE pc[p] = "store"
        BY <1>1, <1>4, <4>1 DEF Loading
      <4>2. CASE pc[p] \in {"relog", "apply", "logger"}
        BY <1>1, <4>2 DEF Loading
      <4>3. CASE pc[p] = "contains" /\ call[p].k <= Len(FileGroups)
        BY <4>3
      <4>. QED
        BY <4>1, <4>2, <4>3
    <3>. QED
      BY <1>1, <1>2, <3>1 DEF Loading
  <2>3. FileGroups[call[p].k] \in Groups
    BY <2>2, RegistryAssumption, ElementOfSeq
  <2>. QED
    BY <2>1, <2>3 DEF Target
<1>. QED
  BY <1>3, <1>4

(* Going on to the next group of the file. *)
LEMMA NextGroupFacts ==
    ASSUME RegistryInv, NEW p \in Procs, NextGroup(p),
           call[p].k <= Len(FileGroups), call[p].op \in {"Instance", "LoadConfig"},
           DOMAIN dbs \subseteq DOMAIN dbs'
    PROVE  /\ pc' \in [Procs -> Steps] /\ pc'[p] = "contains" /\ answer' = answer
           /\ call' \in [Procs -> Locals]
           /\ \A q \in Procs \ {p} : pc'[q] = pc[q] /\ call'[q] = call[q]
           /\ \A q \in Procs : Loading(q)'
<1>1. TypeOK /\ Loading(p) /\ call \in [Procs -> Locals] /\ call[p] \in Locals
  BY DEF RegistryInv, TypeOK
<1>. DEFINE local == [call[p] EXCEPT !.k = call[p].k + 1]
<1>2. call' = [call EXCEPT ![p] = local] /\ Goto(p, "contains") /\ "contains" \in Steps
  BY <1>1 DEF NextGroup, Steps
<1>3. /\ local \in Locals /\ local.k = call[p].k + 1 /\ local.op = call[p].op
  <2>1. call[p].k + 1 \in Nat
    BY <1>1 DEF Locals
  <2>. QED
    BY <1>1, <2>1 DEF Locals
<1>4. /\ pc' \in [Procs -> Steps] /\ pc'[p] = "contains" /\ answer' = answer
      /\ \A q \in Procs \ {p} : pc'[q] = pc[q]
  BY <1>1, <1>2, GotoFacts
<1>5. /\ call' \in [Procs -> Locals] /\ call'[p] = local
      /\ \A q \in Procs \ {p} : call'[q] = call[q]
  <2>. HIDE DEF local
  <2>. QED
    BY <1>1, <1>2, <1>3
<1>6. Len(FileGroups) \in Nat
  BY RegistryAssumption
<1>7. Loading(p)'
  <2>. HIDE DEF local
  <2>1. local.k \in 1 .. Len(FileGroups) + 1
    BY <1>1, <1>3, <1>6 DEF Loading
  <2>. QED
    BY <1>3, <1>4, <1>5, <2>1 DEF Loading
<1>. QED
  BY <1>4, <1>5, <1>7, LoadingStep

(* The steps that look at the registry and the file, and the writes that    *)
(* concern neither instances nor configurations.                            *)
LEMMA LookSteps ==
    ASSUME RegistryInv, NEW p \in Procs,
           Look(p) \/ LoadOnce(p) \/ Loaded(p) \/ Read(p) \/ ChooseDefault(p)
    PROVE  RegistryInv'
<1>1. TypeOK /\ Loading(p) /\ call' = call /\ dbs' = dbs /\ groupMu' = groupMu
      /\ UNCHANGED <<groupConfigs, groupInstances, groupLoggerConfigs, registered, removed, made>>
  BY DEF RegistryInv, Look, LoadOnce, Loaded, Read, ChooseDefault, maps, hist
<1>2. /\ defaultGroup' \in Groups /\ loggerSQLFormat' \in BOOLEAN /\ configLoaded' \in BOOLEAN
  BY <1>1, RegistryAssumption DEF TypeOK, Look, LoadOnce, Loaded, Read, ChooseDefault, atoms
<1>3. /\ pc[p] \notin {"publish", "close"}
      /\ \/ \E step \in {"open", "once", "loaded", "read", "contains"} :
               /\ Goto(p, step)
               /\ step \in {"read", "contains"} => call[p].op \in {"Instance", "LoadConfig"}
               /\ step \in {"open", "once", "loaded"} => call[p].op = "Instance"
         \/ \E kind \in {"db", "err", "nil"}, db \in Nat :
               Return(p, kind, db) /\ (kind = "nil" => call[p].op # "Instance")
  <2>1. CASE Look(p)
    <3>1. groupInstances[call[p].group] \in Nat
      BY <1>1 DEF TypeOK, Locals
    <3>. QED
      BY <1>1, <2>1, <3>1 DEF Look, Loading
  <2>2. CASE LoadOnce(p)
    BY <1>1, <2>2 DEF LoadOnce, Loading
  <2>3. CASE Loaded(p)
    BY <1>1, <2>3 DEF Loaded, Loading
  <2>4. CASE Read(p)
    BY <1>1, <2>4 DEF Read, Loading, None
  <2>5. CASE ChooseDefault(p)
    BY <1>1, <2>5 DEF ChooseDefault, Loading, None
  <2>. QED
    BY <2>1, <2>2, <2>3, <2>4, <2>5
<1>4. /\ pc' \in [Procs -> Steps] /\ answer' \in [Procs -> Answer]
      /\ pc'[p] \in {"idle", "open", "once", "loaded", "read", "contains"}
      /\ pc'[p] \in {"read", "contains"} => call[p].op \in {"Instance", "LoadConfig"}
      /\ pc'[p] \in {"open", "once", "loaded"} => call[p].op = "Instance"
      /\ \A q \in Procs \ {p} : pc'[q] = pc[q]
  <2>1. \A step \in {"open", "once", "loaded", "read", "contains"} : step \in Steps
    BY DEF Steps
  <2>2. answer \in [Procs -> Answer]
    BY <1>1 DEF TypeOK
  <2>. QED
    BY <1>1, <1>3, <2>1, <2>2, GotoFacts, ReturnFacts
<1>5. TypeOK'
  BY <1>1, <1>2, <1>4 DEF TypeOK
<1>6. Loading(p)'
  BY <1>1, <1>4 DEF Loading
<1>7. \A q \in Procs : Loading(q)'
  BY <1>1, <1>4, <1>6, LoadingStep
<1>8. /\ RegisteredIsCurrent' /\ OpenedOnce' /\ NoPoolLost'
      /\ LockHolder' /\ Publishing' /\ Closing' /\ Registrations'
  BY <1>1, <1>3, <1>4, QuietStep
<1>. QED
  BY <1>5, <1>7, <1>8 DEF RegistryInv

(* The steps on a group of the file that is registered, and the test that   *)
(* tells whether it is.                                                     *)
LEMMA FileSteps ==
    ASSUME RegistryInv, NEW p \in Procs, Contains(p) \/ Relog(p) \/ Logger(p)
    PROVE  RegistryInv'
<1>1. /\ TypeOK /\ Loading(p) /\ pc[p] \in {"contains", "relog", "logger"}
      /\ call[p].op \in {"Instance", "LoadConfig"} /\ call[p].k <= Len(FileGroups)
      /\ UNCHANGED <<groupConfigs, groupInstances, atoms, groupMu, dbs, hist>>
  BY DEF RegistryInv, Contains, Relog, Logger, maps, Loading
<1>2. Target(p) \in Groups /\ call \in [Procs -> Locals] /\ call[p] \in Locals
  BY <1>1, TargetType DEF TypeOK
<1>3. groupLoggerConfigs' \in [Groups -> BOOLEAN]
  BY <1>1, <1>2, RegistryAssumption DEF TypeOK, Contains, Relog, Logger, maps
<1>4. \/ NextGroup(p)
      \/ Goto(p, "store") /\ call' = call
      \/ Goto(p, "relog") /\ call' = call
      \/ /\ call' = [call EXCEPT ![p].db = groupInstances[Target(p)]] /\ Goto(p, "apply")
         /\ groupInstances[Target(p)] # None
  BY DEF Contains, Relog, Logger
<1>5. /\ pc' \in [Procs -> Steps] /\ pc'[p] \in {"contains", "store", "relog", "apply"}
      /\ answer' = answer /\ call' \in [Procs -> Locals]
      /\ \A q \in Procs \ {p} : pc'[q] = pc[q] /\ call'[q] = call[q]
      /\ \A q \in Procs : Loading(q)'
  <2>1. CASE NextGroup(p)
    <3>1. DOMAIN dbs \subseteq DOMAIN dbs'
      BY <1>1
    <3>. QED
      BY <1>1, <2>1, <3>1, NextGroupFacts
  <2>2. CASE (Goto(p, "store") \/ Goto(p, "relog")) /\ call' = call
    <3>1. /\ pc' \in [Procs -> Steps] /\ pc'[p] \in {"store", "relog"} /\ answer' = answer
          /\ \A q \in Procs \ {p} : pc'[q] = pc[q]
      BY <1>1, <2>2, GotoFacts DEF Steps
    <3>2. Loading(p)'
      BY <1>1, <2>2, <3>1 DEF Loading
    <3>. QED
      BY <1>1, <1>2, <2>2, <3>1, <3>2, LoadingStep
  <2>3. CASE /\ call' = [call EXCEPT ![p].db = groupInstances[Target(p)]]
             /\ Goto(p, "apply") /\ groupInstances[Target(p)] # None
    <3>1. /\ pc' \in [Procs -> Steps] /\ pc'[p] = "apply" /\ answer' = answer
          /\ \A q \in Procs \ {p} : pc'[q] = pc[q]
      BY <1>1, <2>3, GotoFacts DEF Steps
    <3>2. groupInstances[Target(p)] \in Nat /\ groupInstances[Target(p)] \in DOMAIN dbs
      BY <1>1, <1>2, <2>3 DEF RegistryInv, Registrations, TypeOK
    <3>3. PICK i \in Nat : i = groupInstances[Target(p)]
      BY <3>2
    <3>4. /\ call' \in [Procs -> Locals] /\ call'[p].db = i
          /\ call'[p].k = call[p].k /\ call'[p].op = call[p].op
          /\ \A q \in Procs \ {p} : call'[q] = call[q]
      BY <1>2, <2>3, <3>3 DEF Locals
    <3>5. Loading(p)'
      BY <1>1, <3>1, <3>2, <3>3, <3>4 DEF Loading
    <3>. QED
      BY <1>1, <3>1, <3>4, <3>5, LoadingStep
  <2>. QED
    BY <1>4, <2>1, <2>2, <2>3
<1>6. TypeOK'
  BY <1>1, <1>3, <1>5 DEF TypeOK, atoms, hist
<1>7. /\ RegisteredIsCurrent' /\ OpenedOnce' /\ NoPoolLost'
      /\ LockHolder' /\ Publishing' /\ Closing' /\ Registrations'
  BY <1>1, <1>5, QuietStep DEF hist
<1>. QED
  BY <1>5, <1>6, <1>7 DEF RegistryInv

(* An instance that gets the logger of its group. *)
LEMMA LoggingFacts ==
    ASSUME TypeOK, NEW i \in DOMAIN dbs, dbs' = [dbs EXCEPT ![i] = Logging(@)]
    PROVE  dbs' \in Seq(DB) /\ SameInstances
<1>1. dbs \in Seq(DB) /\ i \in 1 .. Len(dbs) /\ dbs[i] \in DB
  BY ElementOfSeq DEF TypeOK
<1>2. PICK new : new = Logging(dbs[i])
  OBVIOUS
<1>3. /\ new \in DB /\ new.group = dbs[i].group
      /\ new.config = dbs[i].config /\ new.open = dbs[i].open
  <2>1. dbs[i].group \in Groups /\ dbs[i].logger \in BOOLEAN
    BY <1>1 DEF DB
  <2>2. PICK logger \in BOOLEAN : logger = (dbs[i].logger \/ groupLoggerConfigs[dbs[i].group])
    OBVIOUS
  <2>3. new = [group |-> dbs[i].group, config |-> dbs[i].config, open |-> dbs[i].open,
               logger |-> logger, format |-> loggerSQLFormat]
    BY <1>2, <2>2 DEF Logging
  <2>4. loggerSQLFormat \in BOOLEAN
    BY DEF TypeOK
  <2>. QED
    BY <1>1, <2>3, <2>4 DEF DB
<1>4. dbs' = [dbs EXCEPT ![i] = new]
  BY <1>2
<1>5. dbs' \in Seq(DB) /\ Len(dbs') = Len(dbs)
  BY <1>1, <1>3, <1>4, ExceptSeq
<1>6. \A j \in DOMAIN dbs : dbs'[j] = IF j = i THEN new ELSE dbs[j]
  BY <1>1, <1>3, <1>4, ExceptSeq
<1>7. DOMAIN dbs' = DOMAIN dbs
  BY <1>1, <1>5
<1>. QED
  BY <1>3, <1>5, <1>6, <1>7 DEF SameInstances

(* A registered instance that is given the logger of the file. *)
LEMMA ApplyStep ==
    ASSUME RegistryInv, NEW p \in Procs, Apply(p)
    PROVE  RegistryInv'
<1>1. /\ TypeOK /\ Loading(p) /\ pc[p] = "apply" /\ call[p].db \in DOMAIN dbs
      /\ call[p].op \in {"Instance", "LoadConfig"} /\ call[p].k <= Len(FileGroups)
      /\ UNCHANGED <<maps, atoms, groupMu, hist>>
  BY DEF RegistryInv, Apply, Loading
<1>2. PICK i \in DOMAIN dbs : i = call[p].db
  BY <1>1
<1>3. CASE dbs' = [dbs EXCEPT ![i] = Logging(@)] /\ NextGroup(p)
  <2>1. dbs' \in Seq(DB) /\ SameInstances
    BY <1>1, <1>3, LoggingFacts
  <2>2. /\ pc' \in [Procs -> Steps] /\ pc'[p] = "contains" /\ answer' = answer
        /\ call' \in [Procs -> Locals]
        /\ \A q \in Procs \ {p} : pc'[q] = pc[q] /\ call'[q] = call[q]
        /\ \A q \in Procs : Loading(q)'
    BY <1>1, <1>3, <2>1, NextGroupFacts DEF SameInstances
  <2>3. TypeOK'
    BY <1>1, <2>1, <2>2 DEF TypeOK, maps, atoms, hist
  <2>4. /\ RegisteredIsCurrent' /\ OpenedOnce' /\ NoPoolLost'
        /\ LockHolder' /\ Publishing' /\ Closing' /\ Registrations'
    BY <1>1, <2>1, <2>2, QuietStep DEF maps, hist
  <2>. QED
    BY <2>2, <2>3, <2>4 DEF RegistryInv
<1>4. CASE Return(p, "err", None) /\ UNCHANGED <<dbs, call>>
  <2>1. /\ pc' \in [Procs -> Steps] /\ pc'[p] = "idle" /\ answer' \in [Procs -> Answer]
        /\ \A q \in Procs \ {p} : pc'[q] = pc[q]
    BY <1>1, <1>4, ReturnFacts DEF None
  <2>2. TypeOK'
    BY <1>1, <1>4, <2>1 DEF TypeOK, maps, atoms, hist
  <2>3. Loading(p)'
    BY <1>1, <1>4, <2>1 DEF Loading
  <2>4. \A q \in Procs : Loading(q)'
    BY <1>4, <2>1, <2>3, LoadingStep
  <2>5. /\ RegisteredIsCurrent' /\ OpenedOnce' /\ NoPoolLost'
        /\ LockHolder' /\ Publishing' /\ Closing' /\ Registrations'
    BY <1>1, <1>4, <2>1, QuietStep DEF maps, hist
  <2>. QED
    BY <2>2, <2>4, <2>5 DEF RegistryInv
<1>. QED
  BY <1>2, <1>3, <1>4 DEF Apply

(* A call that returns without having touched an instance. *)
LEMMA ReturnStep ==
    ASSUME RegistryInv, NEW p \in Procs, pc[p] \notin {"publish", "close"},
           NEW kind \in {"db", "empty", "err"}, NEW db \in Nat, Return(p, kind, db),
           UNCHANGED <<maps, atoms, groupMu, dbs, call, hist>>
    PROVE  RegistryInv'
<1>1. TypeOK /\ Loading(p)
  BY DEF RegistryInv
<1>2. /\ pc' \in [Procs -> Steps] /\ pc'[p] = "idle" /\ answer' \in [Procs -> Answer]
      /\ \A q \in Procs \ {p} : pc'[q] = pc[q]
  BY <1>1, ReturnFacts
<1>3. TypeOK'
  BY <1>1, <1>2 DEF TypeOK, maps, atoms, hist
<1>4. Loading(p)'
  BY <1>1, <1>2 DEF Loading
<1>5. \A q \in Procs : Loading(q)'
  BY <1>2, <1>4, LoadingStep
<1>6. /\ RegisteredIsCurrent' /\ OpenedOnce' /\ NoPoolLost'
      /\ LockHolder' /\ Publishing' /\ Closing' /\ Registrations'
  BY <1>2, QuietStep DEF maps, hist
<1>. QED
  BY <1>3, <1>5, <1>6 DEF RegistryInv

(* A group is opened: no open instance of its registration exists, since    *)
(* one would be registered, about to be published or about to be closed.    *)
LEMMA OpenStep ==
    ASSUME RegistryInv, NEW p \in Procs, Open(p)
    PROVE  RegistryInv'
<1>1. /\ TypeOK /\ Loading(p) /\ pc[p] = "open" /\ groupMu = Free
      /\ UNCHANGED <<maps, atoms, hist>>
      /\ RegisteredIsCurrent /\ OpenedOnce /\ NoPoolLost
      /\ LockHolder /\ Publishing /\ Closing /\ Registrations
  BY DEF RegistryInv, Open
<1>2. PICK g \in Groups : g = call[p].group
  BY <1>1 DEF TypeOK, Locals
<1>3. CASE /\ \E kind \in {"db", "empty", "err"}, db \in Nat : Return(p, kind, db)
           /\ UNCHANGED <<groupMu, dbs, call>>
  BY <1>1, <1>3, ReturnStep
<1>4. CASE /\ groupInstances[g] = None /\ groupConfigs[g] # None /\ groupMu' = p
           /\ dbs' = Append(dbs, [group |-> g, config |-> groupConfigs[g],
                                  logger |-> FALSE, format |-> FALSE, open |-> TRUE])
           /\ call' = [call EXCEPT ![p].db = Len(dbs) + 1]
           /\ Goto(p, "publish")
  <2>1. /\ pc' \in [Procs -> Steps] /\ pc'[p] = "publish" /\ answer' = answer
        /\ \A q \in Procs \ {p} : pc'[q] = pc[q]
    BY <1>1, <1>4, GotoFacts DEF Steps
  <2>2. PICK n \in Nat : n = Len(dbs) + 1
    BY <1>1 DEF TypeOK
  <2>3. PICK new \in DB : /\ dbs' = Append(dbs, new) /\ new.group = g
                          /\ new.config = groupConfigs[g] /\ new.open
    <3>1. groupConfigs[g] \in Nat
      BY <1>1 DEF TypeOK
    <3>2. [group |-> g, config |-> groupConfigs[g],
           logger |-> FALSE, format |-> FALSE, open |-> TRUE] \in DB
      BY <3>1 DEF DB
    <3>. QED
      BY <1>4, <3>2
  <2>4. /\ dbs' \in Seq(DB) /\ DOMAIN dbs = 1 .. n - 1 /\ DOMAIN dbs' = 1 .. n
        /\ dbs'[n] = new /\ \A i \in 1 .. n - 1 : dbs'[i] = dbs[i]
    <3>1. dbs \in Seq(DB) /\ DOMAIN dbs = 1 .. Len(dbs) /\ Len(dbs) \in Nat
      BY <1>1 DEF TypeOK
    <3>2. /\ Append(dbs, new) \in Seq(DB) /\ Len(Append(dbs, new)) = Len(dbs) + 1
          /\ \A i \in 1 .. Len(dbs) : Append(dbs, new)[i] = dbs[i]
          /\ Append(dbs, new)[Len(dbs) + 1] = new
      BY <3>1, AppendProperties
    <3>. QED
      BY <2>2, <2>3, <3>1, <3>2
  <2>5. /\ call' \in [Procs -> Locals] /\ call'[p].db = n /\ call'[p].k = call[p].k
        /\ call'[p].op = call[p].op /\ call'[p].group = g
        /\ \A q \in Procs \ {p} : call'[q] = call[q]
    BY <1>1, <1>2, <1>4, <2>2 DEF TypeOK, Locals
  <2>6. TypeOK'
    BY <1>1, <1>4, <2>1, <2>4, <2>5 DEF TypeOK, maps, atoms, hist
  <2>7. Loading(p)'
    BY <1>1, <2>1, <2>5 DEF Loading
  <2>8. \A q \in Procs : Loading(q)'
    BY <2>1, <2>4, <2>5, <2>7, LoadingStep
  <2>9. /\ \A h \in Groups : groupInstances[h] # None => groupInstances[h] \in 1 .. n - 1
        /\ \A q \in Procs : pc[q] # "publish"
        /\ UNCHANGED <<groupConfigs, groupInstances, registered>>
    BY <1>1, <2>4, RegistryAssumption DEF Registrations, LockHolder, maps, hist
  <2>10. RegisteredIsCurrent'
    BY <1>1, <2>4, <2>9 DEF RegisteredIsCurrent
  <2>11. ASSUME NEW i \in 1 .. n - 1, dbs[i].open
         PROVE  dbs[i].config # groupConfigs[g]
    <3>1. CASE groupInstances[dbs[i].group] = i
      <4>1. dbs[i].group \in Groups
        <5>1. dbs \in Seq(DB) /\ i \in 1 .. Len(dbs)
          BY <1>1, <2>4 DEF TypeOK
        <5>2. dbs[i] \in DB
          BY <5>1, ElementOfSeq
        <5>. QED
          BY <5>2 DEF DB
      <4>2. i # None
        BY <2>2 DEF None
      <4>3. dbs[i].config = groupConfigs[dbs[i].group]
        BY <1>1, <3>1, <4>1, <4>2 DEF RegisteredIsCurrent
      <4>4. dbs[i].group # g
        BY <1>4, <3>1, <4>2
      <4>. QED
        BY <1>1, <1>4, <4>1, <4>3, <4>4 DEF Registrations
    <3>2. ASSUME NEW q \in Procs, pc[q] = "close", call[q].db = i
          PROVE  dbs[i].config # groupConfigs[g]
      BY <1>1, <2>2, <3>2 DEF Closing, None
    <3>. QED
      BY <1>1, <2>4, <2>9, <2>11, <3>1, <3>2 DEF NoPoolLost
  <2>12. OpenedOnce'
    BY <1>1, <2>3, <2>4, <2>11 DEF OpenedOnce
  <2>13. NoPoolLost'
    <3>1. ASSUME NEW i \in 1 .. n - 1, dbs[i].open
          PROVE  \/ groupInstances[dbs[i].group] = i
                 \/ \E q \in Procs \ {p} : pc[q] \in {"publish", "close"} /\ call[q].db = i
      BY <1>1, <2>4, <3>1 DEF NoPoolLost
    <3>. QED
      BY <2>1, <2>2, <2>4, <2>5, <2>9, <3>1 DEF NoPoolLost
  <2>14. LockHolder'
    BY <1>4, <2>1, <2>9 DEF LockHolder
  <2>15. Publishing'
    BY <1>4, <2>1, <2>2, <2>3, <2>4, <2>5, <2>9 DEF Publishing
  <2>16. Closing'
    BY <1>1, <2>1, <2>4, <2>5, <2>9 DEF Closing
  <2>17. Registrations'
    <3>1. groupConfigs[g] \in 1 .. registered
      BY <1>1, <1>4 DEF Registrations, TypeOK, None
    <3>. QED
      BY <1>1, <2>3, <2>4, <2>9, <3>1 DEF Registrations
  <2>. QED
    BY <2>6, <2>8, <2>10, <2>12, <2>13, <2>14, <2>15, <2>16, <2>17 DEF RegistryInv
<1>5. groupInstances[g] \in Nat
  BY <1>1 DEF TypeOK
<1>. QED
  BY <1>2, <1>3, <1>4, <1>5 DEF Open, None

(* The instances after one of them has been closed. *)
ClosedOne(i) ==
    /\ DOMAIN dbs' = DOMAIN dbs /\ ~dbs'[i].open
    /\ \A j \in DOMAIN dbs : /\ dbs'[j].group = dbs[j].group /\ dbs'[j].config = dbs[j].config
                             /\ j # i => dbs'[j].open = dbs[j].open

(* Closing one instance. *)
LEMMA ClosedFacts ==
    ASSUME TypeOK, NEW i \in DOMAIN dbs, dbs' = [dbs EXCEPT ![i].open = FALSE]
    PROVE  dbs' \in Seq(DB) /\ ClosedOne(i)
<1>1. dbs \in Seq(DB) /\ i \in 1 .. Len(dbs) /\ dbs[i] \in DB
  BY ElementOfSeq DEF TypeOK
<1>2. PICK new : new = [dbs[i] EXCEPT !.open = FALSE]
  OBVIOUS
<1>3. /\ new \in DB /\ new.group = dbs[i].group
      /\ new.config = dbs[i].config /\ ~new.open
  BY <1>1, <1>2 DEF DB
<1>4. dbs' = [dbs EXCEPT ![i] = new]
  BY <1>2
<1>5. dbs' \in Seq(DB) /\ Len(dbs') = Len(dbs)
  <2>1. [dbs EXCEPT ![i] = new] \in Seq(DB) /\ Len([dbs EXCEPT ![i] = new]) = Len(dbs)
    BY <1>1, <1>3, ExceptSeq
  <2>. QED
    BY <1>4, <2>1
<1>6. \A j \in DOMAIN dbs : dbs'[j] = IF j = i THEN new ELSE dbs[j]
  BY <1>1, <1>3, <1>4, ExceptSeq
<1>7. DOMAIN dbs' = DOMAIN dbs
  BY <1>1, <1>5
<1>. QED
  BY <1>3, <1>5, <1>6, <1>7 DEF ClosedOne

(* Closing an instance that is not registered. *)
LEMMA CloseKeeps ==
    ASSUME RegistryInv, NEW i \in DOMAIN dbs, ClosedOne(i),
           \A g \in Groups : groupInstances[g] # i,
           UNCHANGED <<groupConfigs, groupInstances, registered>>
    PROVE  RegisteredIsCurrent' /\ OpenedOnce' /\ Registrations'
<1>1. RegisteredIsCurrent /\ OpenedOnce /\ Registrations
  BY DEF RegistryInv
<1>2. \A g \in Groups : groupInstances[g] # None => groupInstances[g] \in DOMAIN dbs
  BY <1>1 DEF Registrations
<1>3. RegisteredIsCurrent'
  BY <1>1, <1>2 DEF RegisteredIsCurrent, ClosedOne
<1>4. OpenedOnce'
  BY <1>1 DEF OpenedOnce, ClosedOne
<1>5. Registrations'
  BY <1>1 DEF Registrations, ClosedOne
<1>. QED
  BY <1>3, <1>4, <1>5

(* Instance gives back the lock: its instance is registered, or closed      *)
(* because the logger was refused.                                          *)
LEMMA PublishStep ==
    ASSUME RegistryInv, NEW p \in Procs, Publish(p)
    PROVE  RegistryInv'
<1>1. /\ TypeOK /\ Loading(p) /\ pc[p] = "publish" /\ groupMu = p /\ groupMu' = Free
      /\ UNCHANGED <<groupConfigs, groupLoggerConfigs, atoms, call, hist>>
      /\ RegisteredIsCurrent /\ OpenedOnce /\ NoPoolLost
      /\ LockHolder /\ Publishing /\ Closing /\ Registrations
  BY DEF RegistryInv, Publish
<1>2. PICK g \in Groups, i \in DOMAIN dbs :
         /\ g = call[p].group /\ i = call[p].db /\ groupInstances[g] = None
         /\ dbs[i].open /\ dbs[i].group = g /\ dbs[i].config = groupConfigs[g]
  BY <1>1 DEF Publishing, TypeOK, Locals
<1>3. dbs \in Seq(DB) /\ DOMAIN dbs = 1 .. Len(dbs) /\ Len(dbs) \in Nat /\ i \in Nat /\ i # None
  BY <1>1, <1>2 DEF TypeOK, None
<1>4. \A q \in Procs : pc[q] = "publish" => q = p
  BY <1>1 DEF LockHolder
<1>5. ASSUME NEW kind \in {"db", "err"}, NEW db \in Nat, Return(p, kind, db)
      PROVE  /\ pc' \in [Procs -> Steps] /\ pc'[p] = "idle" /\ answer' \in [Procs -> Answer]
             /\ \A q \in Procs \ {p} : pc'[q] = pc[q]
  BY <1>1, <1>5, ReturnFacts
<1>6. ASSUME DOMAIN dbs' = DOMAIN dbs, pc'[p] = "idle", \A q \in Procs \ {p} : pc'[q] = pc[q]
      PROVE  (\A q \in Procs : Loading(q)') /\ LockHolder' /\ Publishing'
  <2>1. Loading(p)'
    BY <1>1, <1>6 DEF Loading
  <2>2. \A q \in Procs : Loading(q)'
    BY <1>1, <1>6, <2>1, LoadingStep
  <2>3. \A q \in Procs : pc'[q] # "publish"
    BY <1>4, <1>6
  <2>4. LockHolder'
    BY <1>1, <2>3, RegistryAssumption DEF LockHolder
  <2>. QED
    BY <2>2, <2>3, <2>4 DEF Publishing
<1>7. CASE /\ dbs' = [dbs EXCEPT ![i] = Logging(@)]
           /\ groupInstances' = [groupInstances EXCEPT ![g] = i]
           /\ Return(p, "db", i)
  <2>1. dbs' \in Seq(DB) /\ SameInstances
    BY <1>1, <1>7, LoggingFacts
  <2>2. /\ pc' \in [Procs -> Steps] /\ pc'[p] = "idle" /\ answer' \in [Procs -> Answer]
        /\ \A q \in Procs \ {p} : pc'[q] = pc[q]
    BY <1>3, <1>5, <1>7
  <2>3. /\ groupInstances' \in [Groups -> Nat] /\ groupInstances'[g] = i
        /\ \A h \in Groups \ {g} : groupInstances'[h] = groupInstances[h]
    BY <1>1, <1>3, <1>7 DEF TypeOK
  <2>4. TypeOK'
    BY <1>1, <2>1, <2>2, <2>3, RegistryAssumption DEF TypeOK, atoms, hist
  <2>5. /\ DOMAIN dbs' = DOMAIN dbs
        /\ \A j \in DOMAIN dbs : /\ dbs'[j].group = dbs[j].group
                                 /\ dbs'[j].config = dbs[j].config /\ dbs'[j].open = dbs[j].open
    BY <2>1 DEF SameInstances
  <2>6. \A h \in Groups : groupInstances[h] # None => groupInstances[h] \in DOMAIN dbs
    BY <1>1 DEF Registrations
  <2>7. RegisteredIsCurrent'
    BY <1>1, <1>2, <2>3, <2>5, <2>6 DEF RegisteredIsCurrent
  <2>8. OpenedOnce'
    BY <1>1, <2>5 DEF OpenedOnce
  <2>9. NoPoolLost'
    <3>1. ASSUME NEW j \in DOMAIN dbs, dbs[j].open
          PROVE  \/ groupInstances'[dbs[j].group] = j
                 \/ \E q \in Procs \ {p} : pc[q] \in {"publish", "close"} /\ call[q].db = j
      <4>1. CASE j = i
        BY <1>2, <2>3, <4>1
      <4>2. CASE j # i
        <5>1. \/ groupInstances[dbs[j].group] = j
              \/ \E q \in Procs \ {p} : pc[q] \in {"publish", "close"} /\ call[q].db = j
          BY <1>1, <1>2, <3>1, <4>2 DEF NoPoolLost
        <5>2. dbs[j] \in DB /\ j # None
          BY <1>3, ElementOfSeq DEF None
        <5>3. dbs[j].group \in Groups
          BY <5>2 DEF DB
        <5>. QED
          BY <1>2, <2>3, <5>1, <5>2, <5>3
      <4>. QED
        BY <4>1, <4>2
    <3>. QED
      BY <1>1, <2>2, <2>5, <3>1 DEF NoPoolLost
  <2>10. Closing'
    BY <1>1, <2>2, <2>5 DEF Closing
  <2>11. Registrations'
    BY <1>1, <2>3, <2>5, <2>6 DEF Registrations, hist
  <2>. QED
    BY <1>6, <2>2, <2>4, <2>5, <2>7, <2>8, <2>9, <2>10, <2>11 DEF RegistryInv
<1>8. CASE /\ dbs' = [dbs EXCEPT ![i].open = FALSE]
           /\ Return(p, "err", None)
           /\ UNCHANGED groupInstances
  <2>1. /\ pc' \in [Procs -> Steps] /\ pc'[p] = "idle" /\ answer' \in [Procs -> Answer]
        /\ \A q \in Procs \ {p} : pc'[q] = pc[q]
    BY <1>5, <1>8 DEF None
  <2>2. dbs' \in Seq(DB) /\ ClosedOne(i)
    BY <1>1, <1>8, ClosedFacts
  <2>3. TypeOK'
    BY <1>1, <1>8, <2>1, <2>2, RegistryAssumption DEF TypeOK, atoms, hist
  <2>4. \A h \in Groups : groupInstances[h] # i
    BY <1>1, <1>2, <1>3 DEF RegisteredIsCurrent
  <2>5. RegisteredIsCurrent' /\ OpenedOnce' /\ Registrations'
    BY <1>1, <1>8, <2>2, <2>4, CloseKeeps DEF hist
  <2>6. NoPoolLost'
    <3>1. ASSUME NEW j \in DOMAIN dbs, dbs[j].open, j # i
          PROVE  \/ groupInstances[dbs[j].group] = j
                 \/ \E q \in Procs \ {p} : pc[q] \in {"publish", "close"} /\ call[q].db = j
      BY <1>1, <1>2, <3>1 DEF NoPoolLost
    <3>. QED
      BY <1>1, <1>8, <2>1, <2>2, <3>1 DEF NoPoolLost, ClosedOne
  <2>7. Closing'
    BY <1>1, <1>8, <2>1, <2>2 DEF Closing, ClosedOne
  <2>. QED
    BY <1>6, <2>1, <2>2, <2>3, <2>5, <2>6, <2>7 DEF RegistryInv, ClosedOne
<1>. QED
  BY <1>2, <1>7, <1>8 DEF Publish
-----------------------------------------------------------------------------

(* SetConfig and RemoveConfig take the instance of a group out of the map;  *)
(* its registration is over.                                                *)
LEMMA TakenOut ==
    ASSUME RegistryInv, NEW p \in Procs, pc[p] \in {"store", "remove"}, groupMu = Free,
           NEW g \in Groups, NEW c \in Nat, c \in {None, registered + 1},
           groupConfigs' = [groupConfigs EXCEPT ![g] = c],
           groupInstances' = [groupInstances EXCEPT ![g] = None],
           groupLoggerConfigs' = [groupLoggerConfigs EXCEPT ![g] = FALSE],
           call' = [call EXCEPT ![p].db = groupInstances[g]],
           Goto(p, "close"), registered' \in Nat, registered' >= registered, c <= registered',
           removed' \subseteq Groups, UNCHANGED <<atoms, groupMu, dbs, made>>
    PROVE  RegistryInv'
<1>1. /\ TypeOK /\ Loading(p) /\ registered \in Nat
      /\ RegisteredIsCurrent /\ OpenedOnce /\ NoPoolLost
      /\ LockHolder /\ Publishing /\ Closing /\ Registrations
  BY DEF RegistryInv, TypeOK
<1>2. /\ pc' \in [Procs -> Steps] /\ pc'[p] = "close" /\ answer' = answer
      /\ \A q \in Procs \ {p} : pc'[q] = pc[q]
  BY <1>1, GotoFacts DEF Steps
<1>3. PICK old \in Nat : old = groupInstances[g]
  BY <1>1 DEF TypeOK
<1>4. /\ call' \in [Procs -> Locals] /\ call'[p].db = old
      /\ call'[p].k = call[p].k /\ call'[p].op = call[p].op
      /\ \A q \in Procs \ {p} : call'[q] = call[q]
  BY <1>1, <1>3 DEF TypeOK, Locals
<1>5. /\ groupConfigs' \in [Groups -> Nat] /\ groupConfigs'[g] = c
      /\ \A h \in Groups \ {g} : groupConfigs'[h] = groupConfigs[h]
  BY <1>1 DEF TypeOK
<1>6. /\ groupInstances' \in [Groups -> Nat] /\ groupInstances'[g] = None
      /\ \A h \in Groups \ {g} : groupInstances'[h] = groupInstances[h]
  BY <1>1 DEF TypeOK, None
<1>7. groupLoggerConfigs' \in [Groups -> BOOLEAN]
  BY <1>1 DEF TypeOK
<1>8. TypeOK'
  BY <1>1, <1>2, <1>4, <1>5, <1>6, <1>7 DEF TypeOK, atoms
<1>9. \A q \in Procs : Loading(q)'
  <2>1. Loading(p)'
    BY <1>1, <1>2, <1>4 DEF Loading
  <2>. QED
    BY <1>2, <1>4, <2>1, LoadingStep
<1>10. /\ dbs \in Seq(DB) /\ DOMAIN dbs = 1 .. Len(dbs) /\ Len(dbs) \in Nat
       /\ \A i \in DOMAIN dbs : dbs[i].group \in Groups /\ dbs[i].config \in 1 .. registered
       /\ \A i \in DOMAIN dbs : i # None
  <2>1. dbs \in Seq(DB) /\ DOMAIN dbs = 1 .. Len(dbs) /\ Len(dbs) \in Nat
    BY <1>1 DEF TypeOK
  <2>2. ASSUME NEW i \in DOMAIN dbs
        PROVE  dbs[i].group \in Groups /\ i # None
    <3>1. dbs[i] \in DB
      BY <2>1, ElementOfSeq
    <3>. QED
      BY <2>1, <3>1 DEF DB, None
  <2>. QED
    BY <1>1, <2>1, <2>2 DEF Registrations
<1>11. \A q \in Procs : pc[q] # "publish" /\ pc'[q] # "publish"
  BY <1>1, <1>2, RegistryAssumption DEF LockHolder
<1>12. LockHolder' /\ Publishing'
  BY <1>11, RegistryAssumption DEF LockHolder, Publishing
<1>13. RegisteredIsCurrent'
  BY <1>1, <1>5, <1>6 DEF RegisteredIsCurrent
<1>14. OpenedOnce'
  BY <1>1 DEF OpenedOnce
<1>15. NoPoolLost'
  <2>1. ASSUME NEW i \in DOMAIN dbs, dbs[i].open
        PROVE  \/ groupInstances'[dbs[i].group] = i
               \/ i = old
               \/ \E q \in Procs \ {p} : pc[q] \in {"publish", "close"} /\ call[q].db = i
    BY <1>1, <1>3, <1>6, <1>10, <2>1 DEF NoPoolLost
  <2>. QED
    BY <1>2, <1>4, <2>1 DEF NoPoolLost
<1>16. Closing'
  <2>1. ASSUME old # None
        PROVE  old \in DOMAIN dbs /\ \A h \in Groups : dbs[old].config # groupConfigs'[h]
    <3>1. old \in DOMAIN dbs /\ dbs[old].config = groupConfigs[g]
      BY <1>1, <1>3, <2>1 DEF RegisteredIsCurrent, Registrations
    <3>2. \A h \in Groups \ {g} : groupConfigs[h] # groupConfigs[g]
      BY <1>1, <1>10, <3>1 DEF Registrations, None
    <3>3. dbs[old].config # c
      BY <1>1, <1>10, <3>1 DEF None
    <3>. QED
      BY <1>5, <3>1, <3>2, <3>3
  <2>2. ASSUME NEW q \in Procs \ {p}, pc[q] = "close", call[q].db # None
        PROVE  /\ call[q].db \in DOMAIN dbs
               /\ \A h \in Groups : dbs[call[q].db].config # groupConfigs'[h]
    <3>1. /\ call[q].db \in DOMAIN dbs
          /\ \A h \in Groups : dbs[call[q].db].config # groupConfigs[h]
      BY <1>1, <2>2 DEF Closing
    <3>2. dbs[call[q].db].config # c
      BY <1>1, <1>10, <3>1 DEF None
    <3>. QED
      BY <1>5, <3>1, <3>2
  <2>. QED
    BY <1>2, <1>4, <2>1, <2>2 DEF Closing
<1>17. Registrations'
  <2>1. \A h \in Groups : groupConfigs[h] <= registered /\ groupConfigs[h] \in Nat
    BY <1>1 DEF Registrations, TypeOK
  <2>2. \A h \in Groups : groupConfigs'[h] <= registered'
    BY <1>1, <1>5, <2>1
  <2>3. \A h \in Groups \ {g} : groupConfigs[h] = c => c = None
    BY <1>1, <2>1
  <2>4. \A h, k \in Groups : groupConfigs'[h] = groupConfigs'[k] => h = k \/ groupConfigs'[h] = None
    BY <1>1, <1>5, <2>3 DEF Registrations
  <2>5. \A i \in DOMAIN dbs : dbs[i].config \in 1 .. registered'
    BY <1>1, <1>10
  <2>6. \A h \in Groups : groupInstances'[h] # None => groupInstances'[h] \in DOMAIN dbs
    BY <1>1, <1>6 DEF Registrations
  <2>. QED
    BY <2>2, <2>4, <2>5, <2>6 DEF Registrations
<1>. QED
  BY <1>8, <1>9, <1>12, <1>13, <1>14, <1>15, <1>16, <1>17 DEF RegistryInv

(* A configuration is set, refused or removed. *)
LEMMA ClearSteps ==
    ASSUME RegistryInv, NEW p \in Procs, Store(p) \/ Refuse(p) \/ Remove(p)
    PROVE  RegistryInv'
<1>1. registered \in Nat /\ removed \subseteq Groups /\ call[p] \in Locals
  BY DEF RegistryInv, TypeOK
<1>2. CASE Store(p)
  <2>1. PICK g \in Groups : g = Target(p)
    BY <1>2, TargetType DEF Store
  <2>2. PICK c \in Nat : c = registered + 1
    BY <1>1
  <2>3. /\ registered' = c /\ c <= registered' /\ registered' \in Nat /\ registered' >= registered
        /\ c \in {None, registered + 1} /\ removed' \subseteq Groups
    BY <1>1, <1>2, <2>2 DEF Store
  <2>4. /\ pc[p] \in {"store", "remove"} /\ groupMu = Free
        /\ groupConfigs' = [groupConfigs EXCEPT ![g] = c]
        /\ groupInstances' = [groupInstances EXCEPT ![g] = None]
        /\ groupLoggerConfigs' = [groupLoggerConfigs EXCEPT ![g] = FALSE]
        /\ call' = [call EXCEPT ![p].db = groupInstances[g]]
        /\ Goto(p, "close") /\ UNCHANGED <<atoms, groupMu, dbs, made>>
    BY <1>2, <2>1, <2>2 DEF Store
  <2>. QED
    BY <2>3, <2>4, TakenOut
<1>3. CASE Remove(p)
  <2>1. PICK g \in Groups : g = call[p].group
    BY <1>1 DEF Locals
  <2>2. PICK c \in Nat : c = None
    BY DEF None
  <2>3. /\ c <= registered' /\ registered' \in Nat /\ registered' >= registered
        /\ c \in {None, registered + 1} /\ removed' \subseteq Groups
    BY <1>1, <1>3, <2>1, <2>2 DEF Remove, None
  <2>4. /\ pc[p] \in {"store", "remove"} /\ groupMu = Free
        /\ groupConfigs' = [groupConfigs EXCEPT ![g] = c]
        /\ groupInstances' = [groupInstances EXCEPT ![g] = None]
        /\ groupLoggerConfigs' = [groupLoggerConfigs EXCEPT ![g] = FALSE]
        /\ call' = [call EXCEPT ![p].db = groupInstances[g]]
        /\ Goto(p, "close") /\ UNCHANGED <<atoms, groupMu, dbs, made>>
    BY <1>3, <2>1, <2>2 DEF Remove
  <2>. QED
    BY <2>3, <2>4, TakenOut
<1>4. CASE Refuse(p)
  BY <1>4, ReturnStep DEF Refuse, None
<1>. QED
  BY <1>2, <1>3, <1>4

(* The instance taken out of the map is closed. *)
LEMMA CloseStep ==
    ASSUME RegistryInv, NEW p \in Procs, Close(p)
    PROVE  RegistryInv'
<1>1. /\ TypeOK /\ Loading(p) /\ pc[p] = "close" /\ call[p] \in Locals
      /\ UNCHANGED <<maps, atoms, groupMu, hist>>
      /\ RegisteredIsCurrent /\ OpenedOnce /\ NoPoolLost
      /\ LockHolder /\ Publishing /\ Closing /\ Registrations
  BY DEF RegistryInv, Close, TypeOK
<1>2. PICK i \in Nat : i = call[p].db
  BY <1>1 DEF Locals
<1>3. /\ call' \in [Procs -> Locals] /\ call'[p].k = call[p].k /\ call'[p].op = call[p].op
      /\ call'[p].db = None /\ \A q \in Procs \ {p} : call'[q] = call[q]
  BY <1>1 DEF Close, TypeOK, Locals, None
<1>4. /\ pc' \in [Procs -> Steps] /\ pc'[p] \in {"idle", "logger"} /\ answer' \in [Procs -> Answer]
      /\ \A q \in Procs \ {p} : pc'[q] = pc[q]
      /\ pc'[p] = "logger" => call[p].op \notin {"SetConfig", "RemoveConfig"}
  <2>1. CASE Goto(p, "logger") /\ call[p].op \notin {"SetConfig", "RemoveConfig"}
    <3>1. answer \in [Procs -> Answer]
      BY <1>1 DEF TypeOK
    <3>. QED
      BY <1>1, <2>1, <3>1, GotoFacts DEF Steps
  <2>2. CASE Return(p, "nil", None) /\ call[p].op \in {"SetConfig", "RemoveConfig"}
    BY <1>1, <2>2, ReturnFacts DEF None
  <2>3. CASE Return(p, "err", None)
    BY <1>1, <2>3, ReturnFacts DEF None
  <2>. QED
    BY <2>1, <2>2, <2>3 DEF Close
<1>5. Loading(p)'
  BY <1>1, <1>3, <1>4, RegistryAssumption DEF Loading, Locals, TypeOK
<1>6. CASE i = None
  <2>1. dbs' = dbs
    BY <1>2, <1>6 DEF Close
  <2>2. TypeOK'
    BY <1>1, <1>3, <1>4, <2>1 DEF TypeOK, maps, atoms, hist
  <2>3. \A q \in Procs : Loading(q)'
    BY <1>3, <1>4, <1>5, <2>1, LoadingStep
  <2>4. RegisteredIsCurrent' /\ OpenedOnce' /\ Registrations'
    BY <1>1, <2>1 DEF RegisteredIsCurrent, OpenedOnce, Registrations, maps, hist
  <2>5. NoPoolLost'
    <3>1. \A j \in DOMAIN dbs : j # None
      BY <1>1 DEF TypeOK, None
    <3>2. ASSUME NEW j \in DOMAIN dbs, dbs[j].open
          PROVE  \/ groupInstances[dbs[j].group] = j
                 \/ \E q \in Procs \ {p} : pc[q] \in {"publish", "close"} /\ call[q].db = j
      BY <1>1, <1>2, <1>6, <3>1, <3>2 DEF NoPoolLost
    <3>. QED
      BY <1>1, <1>3, <1>4, <2>1, <3>2 DEF NoPoolLost, maps
  <2>6. LockHolder' /\ Publishing' /\ Closing'
    BY <1>1, <1>3, <1>4, <2>1 DEF LockHolder, Publishing, Closing, maps
  <2>. QED
    BY <2>2, <2>3, <2>4, <2>5, <2>6 DEF RegistryInv
<1>7. CASE i # None
  <2>1. /\ i \in DOMAIN dbs /\ \A g \in Groups : dbs[i].config # groupConfigs[g]
        /\ dbs' = [dbs EXCEPT ![i].open = FALSE]
    BY <1>1, <1>2, <1>7 DEF Close, Closing
  <2>2. dbs' \in Seq(DB) /\ ClosedOne(i)
    BY <1>1, <2>1, ClosedFacts
  <2>3. TypeOK'
    BY <1>1, <1>3, <1>4, <2>2 DEF TypeOK, maps, atoms, hist
  <2>4. \A q \in Procs : Loading(q)'
    BY <1>3, <1>4, <1>5, <2>2, LoadingStep DEF ClosedOne
  <2>5. \A g \in Groups : groupInstances[g] # i
    BY <1>1, <1>7, <2>1 DEF RegisteredIsCurrent
  <2>6. RegisteredIsCurrent' /\ OpenedOnce' /\ Registrations'
    BY <1>1, <2>1, <2>2, <2>5, CloseKeeps DEF maps, hist
  <2>7. NoPoolLost'
    <3>1. ASSUME NEW j \in DOMAIN dbs, dbs[j].open, j # i
          PROVE  \/ groupInstances[dbs[j].group] = j
                 \/ \E q \in Procs \ {p} : pc[q] \in {"publish", "close"} /\ call[q].db = j
      BY <1>1, <1>2, <3>1 DEF NoPoolLost
    <3>. QED
      BY <1>1, <1>3, <1>4, <2>2, <3>1 DEF NoPoolLost, ClosedOne, maps
  <2>8. LockHolder'
    BY <1>1, <1>4 DEF LockHolder
  <2>9. Publishing'
    <3>1. ASSUME NEW q \in Procs, pc[q] = "publish"
          PROVE  call[q].db # i
      BY <1>1, <2>1, <3>1 DEF Publishing, TypeOK, Locals
    <3>. QED
      BY <1>1, <1>3, <1>4, <2>2, <3>1 DEF Publishing, ClosedOne, maps
  <2>10. Closing'
    BY <1>1, <1>3, <1>4, <2>2 DEF Closing, ClosedOne, maps
  <2>. QED
    BY <2>3, <2>4, <2>6, <2>7, <2>8, <2>9, <2>10 DEF RegistryInv
<1>. QED
  BY <1>6, <1>7
-----------------------------------------------------------------------------
(* The registry is empty at first. *)
LEMMA InitInv == Init => RegistryInv
<1>. SUFFICES ASSUME Init
              PROVE  RegistryInv
  OBVIOUS
<1>1. NoCall \in Locals
  BY RegistryAssumption DEF NoCall, Locals, None
<1>2. [kind |-> "none", asked |-> NoName, db |-> None] \in Answer
  BY DEF Answer, None
<1>3. /\ groupLoggerConfigs \in [Groups -> BOOLEAN]
      /\ loggerSQLFormat \in BOOLEAN /\ configLoaded \in BOOLEAN
  BY DEF Init
<1>4. dbs = <<>> /\ dbs \in Seq(DB) /\ DOMAIN dbs = {}
  BY DEF Init
<1>5. TypeOK
  BY <1>1, <1>2, <1>3, <1>4, RegistryAssumption DEF Init, TypeOK, Steps, None
<1>6. RegisteredIsCurrent /\ OpenedOnce /\ NoPoolLost
  BY <1>4 DEF Init, RegisteredIsCurrent, OpenedOnce, NoPoolLost
<1>7. LockHolder /\ Publishing /\ Closing
  BY RegistryAssumption DEF Init, LockHolder, Publishing, Closing
<1>8. Registrations
  BY <1>4 DEF Init, Registrations, None
<1>9. \A p \in Procs : Loading(p)
  <2>1. 1 \in 1 .. Len(FileGroups) + 1
    BY RegistryAssumption
  <2>. QED
    BY <2>1 DEF Init, Loading, NoCall
<1>. QED
  BY <1>5, <1>6, <1>7, <1>8, <1>9 DEF RegistryInv

(* Every step keeps the invariant. *)
LEMMA NextInv == RegistryInv /\ [Next]_vars => RegistryInv'
<1>. SUFFICES ASSUME RegistryInv, [Next]_vars
              PROVE  RegistryInv'
  OBVIOUS
<1>1. CASE UNCHANGED vars
  BY <1>1 DEF vars, maps, atoms, procs, hist, RegistryInv, TypeOK, RegisteredIsCurrent,
              OpenedOnce, NoPoolLost, LockHolder, Publishing, Closing, Registrations, Loading
<1>2. ASSUME NEW p \in Procs, Step(p)
      PROVE  RegistryInv'
  BY <1>2, LookSteps, FileSteps, ApplyStep, OpenStep, PublishStep, ClearSteps, CloseStep DEF Step
<1>3. ASSUME NEW p \in Procs, Call(p)
      PROVE  RegistryInv'
  BY <1>3, CallStep
<1>. QED
  BY <1>1, <1>2, <1>3 DEF Next, Terminated

(* The invariant of the registry. *)
LEMMA Invariant == Spec => []RegistryInv
<1>. QED
  BY InitInv, NextInv, PTL DEF Spec

(* The variables have their types in every state (db/instance.go 17-137,    *)
(* db/config_file.go 105-203).                                              *)
THEOREM TypesHold == Spec => []TypeOK
<1>1. RegistryInv => TypeOK
  BY DEF RegistryInv
<1>. QED
  BY <1>1, Invariant, PTL

(* What the registry holds is open and of the present configuration,        *)
(* however calls interleave and fail (db/instance.go:45-84, 97-137).        *)
THEOREM RegistryIsCurrent == Spec => []RegisteredIsCurrent
<1>1. RegistryInv => RegisteredIsCurrent
  BY DEF RegistryInv
<1>. QED
  BY <1>1, Invariant, PTL

(* A registration never has two open instances (db/instance.go:114-118).    *)
THEOREM OneInstance == Spec => []OpenedOnce
<1>1. RegistryInv => OpenedOnce
  BY DEF RegistryInv
<1>. QED
  BY <1>1, Invariant, PTL

(* No open instance is out of everybody's reach (db/instance.go:59-63,      *)
(* 78-84, 128-135).                                                         *)
THEOREM PoolsAreKept == Spec => []NoPoolLost
<1>1. RegistryInv => NoPoolLost
  BY DEF RegistryInv
<1>. QED
  BY <1>1, Invariant, PTL
-----------------------------------------------------------------------------
(* The file is loaded before a group is found missing.                      *)

(* A group is registered, or has been removed: that stays so. *)
Known(g) == groupConfigs[g] # None \/ g \in removed
InFile(g) == \E k \in DOMAIN FileGroups : FileGroups[k] = g
AllKnown == \A g \in Groups : InFile(g) => Known(g)
ForFile(p) == call[p].op \in {"Instance", "LoadConfig"}

(* What a goroutine has seen to.  A load has seen to the groups before the   *)
(* one it is at, and to that one too once it has been stored.                *)
SeenTo(p) ==
    /\ call[p].op = "Instance" /\ call[p].asked # NoName => call[p].group = call[p].asked
    /\ pc[p] \in {"look", "once", "read"} => call[p].k = 1
    /\ pc[p] = "loaded" => AllKnown
    /\ pc[p] = "open" => (InFile(call[p].group) => Known(call[p].group))
    /\ ForFile(p) /\ pc[p] \in {"contains", "relog", "apply", "store", "close", "logger"} =>
          \A j \in DOMAIN FileGroups : j < call[p].k => Known(FileGroups[j])
    /\ ForFile(p) /\ pc[p] \in {"relog", "apply", "close", "logger"} =>
          Known(FileGroups[call[p].k])

FileInv ==
    /\ configLoaded => AllKnown
    /\ \A p \in Procs : SeenTo(p)
    /\ FileIsLoadedFirst

KnownGrows == removed \subseteq removed' /\ \A g \in Groups : Known(g) => Known(g)'

(* What a step of one goroutine has to show. *)
LEMMA OneStep ==
    ASSUME RegistryInv, FileInv, NEW p \in Procs, KnownGrows,
           \A q \in Procs \ {p} : pc'[q] = pc[q] /\ call'[q] = call[q] /\ answer'[q] = answer[q],
           configLoaded' => configLoaded \/ AllKnown, SeenTo(p)',
           \/ answer'[p] = answer[p]
           \/ answer'[p].kind # "empty"
           \/ answer'[p].asked \in Groups /\ InFile(answer'[p].asked) =>
                 answer'[p].asked \in removed
    PROVE  FileInv'
<1>1. \A k \in DOMAIN FileGroups : FileGroups[k] \in Groups
  BY RegistryAssumption
<1>2. AllKnown => AllKnown'
  BY DEF AllKnown, KnownGrows, InFile
<1>3. ASSUME NEW q \in Procs \ {p} PROVE SeenTo(q)'
  <2>1. SeenTo(q) /\ call[q].group \in Groups /\ Loading(q) /\ call[q].k \in Nat
    BY DEF FileInv, RegistryInv, TypeOK, Locals
  <2>2. ForFile(q)' <=> ForFile(q)
    BY DEF ForFile
  <2>3. \A j \in DOMAIN FileGroups : Known(FileGroups[j]) => Known(FileGroups[j])'
    BY <1>1 DEF KnownGrows
  <2>4. pc[q] = "open" /\ (InFile(call[q].group) => Known(call[q].group)) =>
            (InFile(call'[q].group) => Known(call[q].group)')
    BY <2>1 DEF KnownGrows, InFile
  <2>5. ForFile(q) /\ pc[q] \in {"relog", "apply", "close", "logger"} =>
            call[q].k \in DOMAIN FileGroups
    BY <2>1, RegistryAssumption DEF Loading, ForFile
  <2>6. QED
    BY <1>2, <2>1, <2>2, <2>3, <2>4, <2>5 DEF SeenTo
<1>4. FileIsLoadedFirst'
  <2> SUFFICES ASSUME NEW q \in Procs, answer'[q].kind = "empty", answer'[q].asked \in Groups,
                      InFile(answer'[q].asked)
               PROVE  answer'[q].asked \in removed'
    BY DEF FileIsLoadedFirst, InFile
  <2>1. CASE answer'[q] = answer[q]
    BY <2>1 DEF FileInv, FileIsLoadedFirst, InFile, KnownGrows
  <2>2. CASE answer'[q] # answer[q]
    BY <2>2 DEF KnownGrows
  <2>3. QED
    BY <2>1, <2>2
<1>5. QED
  BY <1>2, <1>3, <1>4 DEF FileInv

(* A goroutine goes on with its call. *)
LEMMA GoingOn ==
    ASSUME RegistryInv, FileInv, NEW p \in Procs, NEW step \in Steps, Goto(p, step), KnownGrows,
           \A q \in Procs \ {p} : call'[q] = call[q], configLoaded' => configLoaded \/ AllKnown,
           pc'[p] = step => SeenTo(p)'
    PROVE  FileInv'
<1>1. TypeOK
  BY DEF RegistryInv
<1>2. pc'[p] = step /\ answer' = answer /\ \A q \in Procs \ {p} : pc'[q] = pc[q]
  BY <1>1, GotoFacts
<1>3. QED
  BY <1>2, OneStep

(* A call returns; it says that there is no configuration only of a group it *)
(* has seen to.                                                              *)
LEMMA Returning ==
    ASSUME RegistryInv, FileInv, NEW p \in Procs, NEW kind, NEW db, Return(p, kind, db),
           KnownGrows, configLoaded' = configLoaded,
           \A q \in Procs \ {p} : call'[q] = call[q],
           call'[p].op = call[p].op, call'[p].asked = call[p].asked,
           call'[p].group = call[p].group,
           kind = "empty" => (InFile(call[p].group) => call[p].group \in removed)
    PROVE  FileInv'
<1>1. /\ pc \in [Procs -> Steps] /\ answer \in [Procs -> Answer] /\ NoName \notin Groups
  BY RegistryAssumption DEF RegistryInv, TypeOK
<1>2. pc'[p] = "idle" /\ \A q \in Procs \ {p} : pc'[q] = pc[q] /\ answer'[q] = answer[q]
  BY <1>1 DEF Return
<1>3. SeenTo(p)
  BY DEF FileInv
<1>4. SeenTo(p)'
  BY <1>2, <1>3 DEF SeenTo
<1>5. CASE call[p].op # "Instance"
  <2>1. answer'[p] = answer[p]
    BY <1>5 DEF Return
  <2>2. QED
    BY <1>2, <1>4, <2>1, OneStep
<1>6. CASE call[p].op = "Instance"
  <2>1. answer'[p].kind = kind /\ answer'[p].asked = call[p].asked
    BY <1>1, <1>6 DEF Return
  <2>2. call[p].asked \in Groups => call[p].group = call[p].asked
    BY <1>1, <1>3, <1>6 DEF SeenTo
  <2>3. \/ answer'[p].kind # "empty"
        \/ answer'[p].asked \in Groups /\ InFile(answer'[p].asked) => answer'[p].asked \in removed
    BY <2>1, <2>2
  <2>4. QED
    BY <1>2, <1>4, <2>3, OneStep
<1>7. QED
  BY <1>5, <1>6

(* What is known does not change with the registrations. *)
LEMMA SameKnown ==
    ASSUME UNCHANGED <<groupConfigs, removed>> PROVE KnownGrows
  BY DEF KnownGrows, Known

(* The calls begin. *)
LEMMA CallsSeen ==
    ASSUME RegistryInv, FileInv, NEW p \in Procs, Call(p) PROVE FileInv'
<1>0. TypeOK /\ SeenTo(p) /\ NoName \notin Groups
  BY RegistryAssumption DEF RegistryInv, FileInv
<1>1. ASSUME NEW op, NEW asked, NEW step \in {"look", "store", "remove", "read"},
             step = "store" => op = "SetConfig", Begin(p, op, asked, step)
      PROVE  FileInv'
  <2> DEFINE local == [op |-> op, asked |-> asked,
                       group |-> IF asked = NoName THEN defaultGroup ELSE asked,
                       k |-> 1, db |-> None]
  <2>1. /\ call' = [call EXCEPT ![p] = local] /\ Goto(p, step) /\ step \in Steps
        /\ UNCHANGED <<maps, atoms, removed>>
    BY <1>1 DEF Begin, Steps
  <2>2. call \in [Procs -> Locals]
    BY <1>0 DEF TypeOK
  <2>3. call'[p] = local /\ \A q \in Procs \ {p} : call'[q] = call[q]
    <3> HIDE DEF local
    <3>1. QED
      BY <2>1, <2>2
  <2>4. call'[p].k = 1 /\ call'[p].op = op /\ call'[p].asked = asked
        /\ (asked # NoName => call'[p].group = asked)
    BY <2>3
  <2>5. pc'[p] = step => SeenTo(p)'
    BY <1>1, <2>4 DEF SeenTo, ForFile
  <2>6. KnownGrows /\ configLoaded' = configLoaded
    BY <2>1, SameKnown DEF maps, atoms
  <2>7. QED
    BY <2>1, <2>3, <2>5, <2>6, GoingOn
<1>2. ASSUME NEW name, SetDefaultGroup(p, name) PROVE FileInv'
  <2>1. pc' = pc /\ call' = call /\ answer' = answer /\ configLoaded' = configLoaded
        /\ UNCHANGED <<groupConfigs, removed>>
    BY <1>2 DEF SetDefaultGroup, procs, maps
  <2>2. SeenTo(p)'
    BY <1>0, <2>1 DEF SeenTo, ForFile, AllKnown, Known
  <2>3. QED
    BY <2>1, <2>2, SameKnown, OneStep
<1>3. QED
  BY <1>1, <1>2 DEF Call, Instance, SetConfig, RemoveConfig, LoadConfig

(* The locals of a call after a change of the instance it holds. *)
LEMMA NewDB ==
    ASSUME TypeOK, NEW p \in Procs, NEW i, call' = [call EXCEPT ![p].db = i]
    PROVE  /\ \A q \in Procs \ {p} : call'[q] = call[q]
           /\ call'[p].op = call[p].op /\ call'[p].asked = call[p].asked
           /\ call'[p].group = call[p].group /\ call'[p].k = call[p].k
<1>1. call \in [Procs -> Locals] /\ call[p] \in Locals
  BY DEF TypeOK
<1>2. PICK local : local = [call[p] EXCEPT !.db = i]
  OBVIOUS
<1>3. /\ local.op = call[p].op /\ local.asked = call[p].asked
      /\ local.group = call[p].group /\ local.k = call[p].k
  BY <1>1, <1>2 DEF Locals
<1>4. call' = [call EXCEPT ![p] = local]
  BY <1>2
<1>5. call'[p] = local /\ \A q \in Procs \ {p} : call'[q] = call[q]
  BY <1>1, <1>4
<1>6. QED
  BY <1>3, <1>5

(* On to the next group of the file, once this one is known. *)
LEMMA NextKnown ==
    ASSUME RegistryInv, FileInv, NEW p \in Procs, NextGroup(p), KnownGrows, ForFile(p),
           pc[p] \in {"contains", "relog", "apply", "logger"}, call[p].k \in DOMAIN FileGroups,
           Known(FileGroups[call[p].k]), configLoaded' = configLoaded
    PROVE  FileInv'
<1>1. call \in [Procs -> Locals] /\ call[p] \in Locals /\ SeenTo(p)
  BY DEF RegistryInv, TypeOK, FileInv
<1>2. PICK local : local = [call[p] EXCEPT !.k = @ + 1]
  OBVIOUS
<1>3. /\ local.op = call[p].op /\ local.asked = call[p].asked
      /\ local.group = call[p].group /\ local.k = call[p].k + 1
  BY <1>1, <1>2 DEF Locals
<1>4. call' = [call EXCEPT ![p] = local] /\ Goto(p, "contains") /\ "contains" \in Steps
  BY <1>2 DEF NextGroup, Steps
<1>5. call'[p] = local /\ \A q \in Procs \ {p} : call'[q] = call[q]
  BY <1>1, <1>4
<1>6. ASSUME NEW j \in DOMAIN FileGroups, j < call[p].k + 1 PROVE Known(FileGroups[j])'
  <2>1. j < call[p].k \/ j = call[p].k
    BY <1>6, RegistryAssumption
  <2>2. Known(FileGroups[j])
    BY <1>1, <2>1 DEF SeenTo
  <2>3. FileGroups[j] \in Groups
    BY RegistryAssumption
  <2>4. QED
    BY <2>2, <2>3 DEF KnownGrows
<1>7. pc'[p] = "contains" => SeenTo(p)'
  BY <1>1, <1>3, <1>5, <1>6 DEF SeenTo
<1>8. QED
  BY <1>4, <1>5, <1>7, GoingOn

(* The lookups and the opening. *)
LEMMA LooksSeen ==
    ASSUME RegistryInv, FileInv, NEW p \in Procs,
           Look(p) \/ LoadOnce(p) \/ Loaded(p) \/ Open(p) \/ Publish(p)
    PROVE  FileInv'
<1>0. /\ TypeOK /\ SeenTo(p) /\ (configLoaded => AllKnown)
      /\ call[p].group \in Groups /\ Loading(p)
  BY DEF RegistryInv, FileInv, TypeOK, Locals
<1>1. UNCHANGED <<groupConfigs, removed>>
  BY DEF Look, LoadOnce, Loaded, Open, Publish, maps, hist
<1>2. KnownGrows
  BY <1>1, SameKnown
<1>3. CASE Look(p)
  <2>1. call' = call /\ configLoaded' = configLoaded
    BY <1>3 DEF Look, atoms
  <2>2. CASE groupInstances[call[p].group] # None
    <3>1. Return(p, "db", groupInstances[call[p].group])
      BY <1>3, <2>2 DEF Look
    <3>2. QED
      BY <1>2, <2>1, <3>1, Returning
  <2>3. CASE groupInstances[call[p].group] = None
    <3>1. PICK step \in {"open", "once"} :
              Goto(p, step) /\ (step = "open" => groupConfigs[call[p].group] # None)
      BY <1>3, <2>3 DEF Look
    <3>2. step \in Steps
      BY DEF Steps
    <3>3. call[p].k = 1
      BY <1>0, <1>3 DEF SeenTo, Look
    <3>4. pc'[p] = step => SeenTo(p)'
      BY <1>0, <1>1, <2>1, <3>1, <3>3 DEF SeenTo, Known, ForFile
    <3>5. QED
      BY <1>2, <2>1, <3>1, <3>2, <3>4, GoingOn
  <2>4. QED
    BY <2>2, <2>3
<1>4. CASE LoadOnce(p)
  <2>1. call' = call /\ configLoaded' = configLoaded /\ call[p].k = 1
    BY <1>0, <1>4 DEF LoadOnce, atoms, SeenTo
  <2>2. PICK step \in {"open", "loaded", "read"} :
            /\ Goto(p, step) /\ (step = "open" => configLoaded)
            /\ step = "loaded" => FileGroups = <<>>
    BY <1>4 DEF LoadOnce
  <2>3. step \in Steps
    BY DEF Steps
  <2>4. step = "loaded" => AllKnown
    BY <2>2 DEF AllKnown, InFile
  <2>5. step = "open" => (InFile(call[p].group) => Known(call[p].group))
    BY <1>0, <2>2 DEF AllKnown
  <2>6. pc'[p] = step => SeenTo(p)'
    BY <1>0, <1>1, <2>1, <2>4, <2>5 DEF SeenTo, ForFile, AllKnown, Known
  <2>7. QED
    BY <1>2, <2>1, <2>2, <2>3, <2>6, GoingOn
<1>5. CASE Loaded(p)
  <2>1. call' = call /\ Goto(p, "open") /\ AllKnown /\ "open" \in Steps
    BY <1>0, <1>5 DEF Loaded, SeenTo, Steps
  <2>2. InFile(call[p].group) => Known(call[p].group)
    BY <1>0, <2>1 DEF AllKnown
  <2>3. pc'[p] = "open" => SeenTo(p)'
    BY <1>0, <1>1, <2>1, <2>2 DEF SeenTo, ForFile, AllKnown, Known
  <2>4. QED
    BY <1>2, <2>1, <2>3, GoingOn
<1>6. CASE Open(p)
  <2>0. configLoaded' = configLoaded /\ (InFile(call[p].group) => Known(call[p].group))
    BY <1>0, <1>6 DEF Open, atoms, SeenTo
  <2>1. CASE call' = call /\ \E kind \in {"db", "err"} : \E db : Return(p, kind, db)
    BY <1>2, <2>0, <2>1, Returning
  <2>2. CASE call' = call /\ groupConfigs[call[p].group] = None /\ Return(p, "empty", None)
    <3>1. InFile(call[p].group) => call[p].group \in removed
      BY <2>0, <2>2 DEF Known
    <3>2. QED
      BY <1>2, <2>0, <2>2, <3>1, Returning
  <2>3. CASE call' = [call EXCEPT ![p].db = Len(dbs) + 1] /\ Goto(p, "publish")
    <3>1. "publish" \in Steps
      BY DEF Steps
    <3>2. pc'[p] = "publish" => SeenTo(p)'
      BY <1>0, <2>3, NewDB DEF SeenTo
    <3>3. QED
      BY <1>0, <1>2, <2>0, <2>3, <3>1, <3>2, NewDB, GoingOn
  <2>4. QED
    BY <1>6, <2>1, <2>2, <2>3 DEF Open
<1>7. CASE Publish(p)
  <2>1. /\ call' = call /\ configLoaded' = configLoaded
        /\ \E kind \in {"db", "err"} : \E db : Return(p, kind, db)
    BY <1>7 DEF Publish, atoms
  <2>2. QED
    BY <1>2, <2>1, Returning
<1>8. QED
  BY <1>3, <1>4, <1>5, <1>6, <1>7

(* The steps through the groups of the file. *)
LEMMA LoadsSeen ==
    ASSUME RegistryInv, FileInv, NEW p \in Procs,
           Read(p) \/ Contains(p) \/ Relog(p) \/ Apply(p) \/ Logger(p) \/ ChooseDefault(p)
    PROVE  FileInv'
<1>0. /\ TypeOK /\ SeenTo(p) /\ Loading(p) /\ ForFile(p)
      /\ call[p].k \in Nat /\ Len(FileGroups) \in Nat
  <2>1. /\ TypeOK /\ SeenTo(p) /\ Loading(p)
        /\ call[p].k \in Nat
    BY DEF RegistryInv, FileInv, TypeOK, Locals
  <2>2. pc[p] \in {"read", "contains", "relog", "apply", "logger"}
    BY DEF Read, Contains, Relog, Apply, Logger, ChooseDefault
  <2>3. Len(FileGroups) \in Nat
    BY RegistryAssumption
  <2>4. QED
    BY <2>1, <2>2, <2>3 DEF Loading, ForFile
<1>1. UNCHANGED <<groupConfigs, removed, configLoaded>>
  BY DEF Read, Contains, Relog, Apply, Logger, ChooseDefault, maps, hist, atoms
<1>2. KnownGrows
  BY <1>1, SameKnown
<1>3. "contains" \in Steps /\ "store" \in Steps /\ "relog" \in Steps /\ "apply" \in Steps
      /\ "loaded" \in Steps
  BY DEF Steps
<1>4. ASSUME call[p].k <= Len(FileGroups)
      PROVE  call[p].k \in DOMAIN FileGroups /\ Target(p) = FileGroups[call[p].k]
  BY <1>0, <1>4, RegistryAssumption DEF Loading, Target, ForFile
<1>5. CASE Read(p)
  <2>1. call' = call /\ (Goto(p, "contains") \/ Return(p, "err", None))
    BY <1>5 DEF Read
  <2>2. call[p].k = 1
    BY <1>0, <1>5 DEF SeenTo, Read
  <2>3. pc'[p] = "contains" => SeenTo(p)'
    BY <1>0, <2>1, <2>2, RegistryAssumption DEF SeenTo
  <2>4. QED
    BY <1>1, <1>2, <1>3, <2>1, <2>3, GoingOn, Returning
<1>6. CASE Contains(p)
  <2>1. pc[p] = "contains" /\ call[p].k <= Len(FileGroups)
    BY <1>6 DEF Contains
  <2>2. CASE groupConfigs[Target(p)] = None
    <3>1. call' = call /\ Goto(p, "store")
      BY <1>6, <2>2 DEF Contains
    <3>2. pc'[p] = "store" => SeenTo(p)'
      BY <1>0, <1>1, <2>1, <3>1 DEF SeenTo, ForFile, Known
    <3>3. QED
      BY <1>1, <1>2, <1>3, <3>1, <3>2, GoingOn
  <2>3. CASE groupConfigs[Target(p)] # None
    <3>1. Known(FileGroups[call[p].k])
      BY <1>4, <2>1, <2>3 DEF Known
    <3>2. CASE NextGroup(p)
      BY <1>0, <1>1, <1>2, <1>4, <2>1, <3>1, <3>2, NextKnown
    <3>3. CASE call' = call /\ Goto(p, "relog")
      <4>1. pc'[p] = "relog" => SeenTo(p)'
        BY <1>0, <1>1, <2>1, <3>1, <3>3 DEF SeenTo, ForFile, Known
      <4>2. QED
        BY <1>1, <1>2, <1>3, <3>3, <4>1, GoingOn
    <3>4. QED
      BY <1>6, <2>3, <3>2, <3>3 DEF Contains
  <2>4. QED
    BY <2>2, <2>3
<1>7. ASSUME pc[p] \in {"relog", "apply", "logger"}
      PROVE  /\ call[p].k \in DOMAIN FileGroups /\ Known(FileGroups[call[p].k])
             /\ (NextGroup(p) => FileInv')
  <2>1. call[p].k <= Len(FileGroups) /\ Known(FileGroups[call[p].k])
    BY <1>0, <1>7 DEF Loading, SeenTo
  <2>2. QED
    BY <1>0, <1>1, <1>2, <1>4, <1>7, <2>1, NextKnown
<1>8. CASE Relog(p)
  <2>1. pc[p] = "relog"
    BY <1>8 DEF Relog
  <2>2. CASE call' = [call EXCEPT ![p].db = groupInstances[Target(p)]] /\ Goto(p, "apply")
    <3>1. pc'[p] = "apply" => SeenTo(p)'
      BY <1>0, <1>1, <2>1, <2>2, NewDB DEF SeenTo, ForFile, Known
    <3>2. QED
      BY <1>0, <1>1, <1>2, <1>3, <2>2, <3>1, NewDB, GoingOn
  <2>3. QED
    BY <1>7, <1>8, <2>1, <2>2 DEF Relog
<1>9. CASE Apply(p)
  <2>1. pc[p] = "apply" /\ (NextGroup(p) \/ (call' = call /\ Return(p, "err", None)))
    BY <1>9 DEF Apply
  <2>2. QED
    BY <1>1, <1>2, <1>7, <2>1, Returning
<1>10. CASE Logger(p)
  BY <1>7, <1>10 DEF Logger
<1>11. CASE ChooseDefault(p)
  <2>1. call' = call /\ pc[p] = "contains" /\ call[p].k > Len(FileGroups)
        /\ (Goto(p, "loaded") \/ Return(p, "nil", None))
    BY <1>11 DEF ChooseDefault
  <2>2. AllKnown
    <3>1. ASSUME NEW j \in DOMAIN FileGroups PROVE Known(FileGroups[j])
      <4>1. j < call[p].k
        BY <1>0, <2>1, RegistryAssumption
      <4>2. QED
        BY <1>0, <2>1, <4>1 DEF SeenTo
    <3>2. QED
      BY <3>1 DEF AllKnown, InFile
  <2>3. pc'[p] = "loaded" => SeenTo(p)'
    BY <1>0, <1>1, <2>1, <2>2 DEF SeenTo, AllKnown, Known
  <2>4. QED
    BY <1>1, <1>2, <1>3, <2>1, <2>3, GoingOn, Returning
<1>12. QED
  BY <1>5, <1>6, <1>8, <1>9, <1>10, <1>11

(* A registration or a removal, and the closing after it. *)
LEMMA StoresSeen ==
    ASSUME RegistryInv, FileInv, NEW p \in Procs,
           Store(p) \/ Refuse(p) \/ Remove(p) \/ Close(p)
    PROVE  FileInv'
<1>0. /\ TypeOK /\ SeenTo(p) /\ Loading(p) /\ call[p].k \in Nat /\ call[p].group \in Groups
      /\ groupConfigs \in [Groups -> Nat] /\ registered \in Nat
  BY DEF RegistryInv, FileInv, TypeOK, Locals
<1>1. "close" \in Steps /\ "logger" \in Steps
  BY DEF Steps
<1>2. CASE Store(p)
  <2>1. /\ groupConfigs' = [groupConfigs EXCEPT ![Target(p)] = registered + 1]
        /\ removed' = removed /\ configLoaded' = configLoaded /\ Goto(p, "close")
        /\ call' = [call EXCEPT ![p].db = groupInstances[Target(p)]] /\ pc[p] = "store"
    BY <1>2 DEF Store, atoms
  <2>2. Target(p) \in Groups
    BY <2>1, TargetType
  <2>3. /\ groupConfigs'[Target(p)] # None
        /\ \A g \in Groups : groupConfigs[g] # None => groupConfigs'[g] # None
    BY <1>0, <2>1, <2>2 DEF None
  <2>4. KnownGrows
    BY <2>1, <2>3 DEF KnownGrows, Known
  <2>5. ForFile(p) => Target(p) = FileGroups[call[p].k]
    BY DEF ForFile, Target
  <2>6. \A j \in DOMAIN FileGroups : FileGroups[j] \in Groups
    BY RegistryAssumption
  <2>7. pc'[p] = "close" => SeenTo(p)'
    BY <1>0, <2>1, <2>3, <2>5, <2>6, NewDB DEF SeenTo, ForFile, Known
  <2>8. QED
    BY <1>0, <1>1, <2>1, <2>4, <2>7, NewDB, GoingOn
<1>3. CASE Refuse(p)
  <2>1. call' = call /\ Return(p, "err", None) /\ UNCHANGED <<groupConfigs, removed, configLoaded>>
    BY <1>3 DEF Refuse, maps, atoms, hist
  <2>2. QED
    BY <2>1, SameKnown, Returning
<1>4. CASE Remove(p)
  <2>1. /\ groupConfigs' = [groupConfigs EXCEPT ![call[p].group] = None]
        /\ removed' = removed \cup {call[p].group} /\ configLoaded' = configLoaded
        /\ Goto(p, "close")
        /\ call' = [call EXCEPT ![p].db = groupInstances[call[p].group]] /\ pc[p] = "remove"
    BY <1>4 DEF Remove, atoms
  <2>2. KnownGrows
    BY <1>0, <2>1 DEF KnownGrows, Known
  <2>3. ~ForFile(p)
    BY <1>0, <2>1 DEF ForFile, Loading
  <2>4. pc'[p] = "close" => SeenTo(p)'
    BY <1>0, <2>1, <2>3, NewDB DEF SeenTo, ForFile
  <2>5. QED
    BY <1>0, <1>1, <2>1, <2>2, <2>4, NewDB, GoingOn
<1>5. CASE Close(p)
  <2>1. /\ UNCHANGED <<groupConfigs, removed, configLoaded>> /\ pc[p] = "close"
        /\ call' = [call EXCEPT ![p].db = None]
        /\ Goto(p, "logger") \/ Return(p, "nil", None) \/ Return(p, "err", None)
    BY <1>5 DEF Close, maps, atoms, hist
  <2>2. pc'[p] = "logger" => SeenTo(p)'
    BY <1>0, <2>1, NewDB DEF SeenTo, ForFile, Known
  <2>3. KnownGrows
    BY <2>1, SameKnown
  <2>4. QED
    BY <1>0, <1>1, <2>1, <2>2, <2>3, NewDB, GoingOn, Returning
<1>6. QED
  BY <1>2, <1>3, <1>4, <1>5

(* A group of the file is reported missing only when it has been removed,   *)
(* however the loads of several goroutines and the other calls interleave   *)
(* (db/instance.go:109-122, db/config_file.go:167-203, 296-310).            *)
THEOREM FileComesFirst == Spec => []FileIsLoadedFirst
<1>1. Init => FileInv
  <2> SUFFICES ASSUME Init PROVE FileInv
    OBVIOUS
  <2>1. /\ ~configLoaded
        /\ \A p \in Procs : /\ pc[p] = "idle" /\ call[p] = NoCall
                            /\ answer[p].kind = "none"
    BY DEF Init
  <2>2. NoCall.op = "none"
    BY DEF NoCall
  <2>3. QED
    BY <2>1, <2>2 DEF FileInv, SeenTo, ForFile, FileIsLoadedFirst
<1>2. RegistryInv /\ FileInv /\ [Next]_vars => FileInv'
  <2> SUFFICES ASSUME RegistryInv, FileInv, [Next]_vars PROVE FileInv'
    OBVIOUS
  <2>1. CASE UNCHANGED vars
    BY <2>1 DEF vars, maps, atoms, procs, hist, FileInv, AllKnown, SeenTo, ForFile, Known,
                FileIsLoadedFirst
  <2>2. ASSUME NEW p \in Procs, Step(p) PROVE FileInv'
    BY <2>2, LooksSeen, LoadsSeen, StoresSeen DEF Step
  <2>3. ASSUME NEW p \in Procs, Call(p) PROVE FileInv'
    BY <2>3, CallsSeen
  <2>4. QED
    BY <2>1, <2>2, <2>3 DEF Next, Terminated
<1>3. FileInv => FileIsLoadedFirst
  BY DEF FileInv
<1>4. QED
  BY <1>1, <1>2, <1>3, Invariant, PTL DEF Spec
=============================================================================
