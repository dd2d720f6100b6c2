------------------------ MODULE ConfigStore_proofs -------------------------
(***************************************************************************)
(* Theorems about the commands that write the configuration, for any       *)
(* number of them at once, of tunnels, of runs and of edits by hand.       *)
(***************************************************************************)
EXTENDS ConfigStore, TLAPS

\* The inductive form of the types: an import knows what it imports.
StoreInv ==
  /\ TypeOK
  /\ \A p \in Processes : proc[p].cmd = "import" => proc[p].tunnel \in Tunnels

-----------------------------------------------------------------------------
(* Commands and what becomes of them.                                      *)

LEMMA FilesAreTyped ==
  /\ NoDoc \in Doc /\ NoFile \in Privileged /\ Idle \in Command
  /\ \A k \in Keys : Cut(k) \in Privileged /\ Holding(k) \in Privileged
<1>1. 0 \in Keys /\ 0 \in 0..MaxEdits
  BY BoundAssumption DEF Keys
<1>2. NoDoc \in Doc
  BY <1>1 DEF NoDoc, Doc
<1>3. NoFile \in Privileged /\ \A k \in Keys : Cut(k) \in Privileged /\ Holding(k) \in Privileged
  BY <1>1 DEF NoFile, Cut, Holding, Privileged, Presence
<1>4. Idle \in Command
  BY <1>1, <1>2, <1>3 DEF Idle, Command, Presence
<1> QED
  BY <1>2, <1>3, <1>4

\* A command that starts is its own, and the others are told they are not alone.
LEMMA StartType ==
  ASSUME StoreInv, NEW p \in Processes, NEW command \in Command,
         command.cmd = "import" => command.tunnel \in Tunnels, Start(p, command)
  PROVE  /\ proc' \in [Processes -> Command] /\ runs' \in 0..MaxRuns
         /\ \A q \in Processes : proc'[q].cmd = "import" => proc'[q].tunnel \in Tunnels
<1>1. ASSUME NEW c \in Command, NEW a \in BOOLEAN
      PROVE  /\ [c EXCEPT !.alone = a] \in Command
             /\ [c EXCEPT !.alone = a].cmd = c.cmd /\ [c EXCEPT !.alone = a].tunnel = c.tunnel
  BY DEF Command
<1> DEFINE alone == \A o \in Processes : proc[o] = Idle
<1>2. alone \in BOOLEAN
  OBVIOUS
<1>3. proc' = [q \in Processes |->
                  IF q = p THEN [command EXCEPT !.alone = alone]
                  ELSE IF proc[q] = Idle THEN Idle ELSE [proc[q] EXCEPT !.alone = FALSE]]
  BY DEF Start
<1> HIDE DEF alone
<1>4. ASSUME NEW q \in Processes
      PROVE  proc'[q] \in Command /\ (proc'[q].cmd = "import" => proc'[q].tunnel \in Tunnels)
  <2>1. CASE q = p
    BY <2>1, <1>1, <1>2, <1>3
  <2>2. CASE q # p /\ proc[q] = Idle
    BY <2>2, <1>3 DEF StoreInv, TypeOK
  <2>3. CASE q # p /\ proc[q] # Idle
    <3>1. proc'[q] = [proc[q] EXCEPT !.alone = FALSE] /\ proc[q] \in Command
      BY <2>3, <1>3 DEF StoreInv, TypeOK
    <3>2. /\ proc'[q] \in Command /\ proc'[q].cmd = proc[q].cmd
          /\ proc'[q].tunnel = proc[q].tunnel
      BY <3>1, <1>1
    <3> QED
      BY <3>2 DEF StoreInv
  <2> QED
    BY <2>1, <2>2, <2>3
<1>5. runs' \in 0..MaxRuns
  BY BoundAssumption DEF Start, StoreInv, TypeOK
<1>6. proc' = [q \in Processes |-> proc'[q]]
  BY <1>3
<1> QED
  BY <1>4, <1>5, <1>6

\* A command goes on: it is at at, and has read what is given here, or has a
\* temporary file that is temp.
Moves(p, at, doc, file, files, temp) ==
  \/ proc' = [proc EXCEPT ![p].at = at]
  \/ proc' = [proc EXCEPT ![p].temp = temp] /\ at = proc[p].at
  \/ proc' = [proc EXCEPT ![p].at = at, ![p].temp = temp]
  \/ proc' = [proc EXCEPT ![p].doc = doc, ![p].at = at]
  \/ proc' = [proc EXCEPT ![p].file = file, ![p].at = at]
  \/ proc' = [proc EXCEPT ![p].files = files, ![p].at = at]
  \/ proc' = [proc EXCEPT ![p].doc = doc, ![p].file = file, ![p].files = files, ![p].at = at]

LEMMA MovesType ==
  ASSUME StoreInv, NEW p \in Processes,
         NEW at \in {"idle", "agreed", "create", "write", "copy", "save", "read", "replace",
                    "gather", "add", "bodies", "done"},
         NEW doc \in Doc, NEW file \in Privileged, NEW files \in [Tunnels -> Presence],
         NEW temp \in Presence, Moves(p, at, doc, file, files, temp)
  PROVE  /\ proc' \in [Processes -> Command]
         /\ \A q \in Processes : proc'[q].cmd = "import" => proc'[q].tunnel \in Tunnels
<1>1. proc[p] \in Command /\ proc \in [Processes -> Command]
  BY DEF StoreInv, TypeOK
<1>2. proc'[p] \in Command /\ proc'[p].cmd = proc[p].cmd /\ proc'[p].tunnel = proc[p].tunnel
  BY <1>1 DEF Moves, Command
<1>3. \A q \in Processes : q # p => proc'[q] = proc[q]
  BY <1>1 DEF Moves
<1>4. proc' = [q \in Processes |-> proc'[q]]
  BY <1>1 DEF Moves
<1> QED
  BY <1>1, <1>2, <1>3, <1>4 DEF StoreInv

\* What it does to the commands.
LEMMA MovesCells ==
  ASSUME StoreInv, NEW p \in Processes, NEW at, NEW doc, NEW file, NEW files, NEW temp,
         Moves(p, at, doc, file, files, temp)
  PROVE  /\ proc'[p].cmd = proc[p].cmd /\ proc'[p].tunnel = proc[p].tunnel
         /\ proc'[p].alone = proc[p].alone /\ proc'[p].at = at
         /\ proc'[p].doc \in {proc[p].doc, doc}
         /\ \A q \in Processes : q # p => proc'[q] = proc[q]
<1>1. proc \in [Processes -> Command] /\ proc[p] \in Command
  BY DEF StoreInv, TypeOK
<1>2. \A q \in Processes : q # p => proc'[q] = proc[q]
  BY <1>1 DEF Moves
<1>3. /\ proc'[p].cmd = proc[p].cmd /\ proc'[p].tunnel = proc[p].tunnel
      /\ proc'[p].alone = proc[p].alone /\ proc'[p].at = at
      /\ proc'[p].doc \in {proc[p].doc, doc}
  BY <1>1 DEF Moves, Command
<1> QED
  BY <1>2, <1>3

\* One that only goes on.
LEMMA GoType ==
  ASSUME StoreInv, NEW p \in Processes,
         NEW at \in {"idle", "agreed", "create", "write", "copy", "save", "read", "replace",
                    "gather", "add", "bodies", "done"},
         Go(p, at)
  PROVE  /\ proc' \in [Processes -> Command]
         /\ \A q \in Processes : proc'[q].cmd = "import" => proc'[q].tunnel \in Tunnels
<1>1. Moves(p, at, config, priv, conf, "absent")
  BY DEF Go, Moves
<1> QED
  BY <1>1, MovesType DEF StoreInv, TypeOK, Presence

\* A backup goes on: what it has read is what it had read, or what there is.
LEMMA BackupMoves ==
  ASSUME StoreInv, NEW p \in Processes, Gather(p) \/ AddConfig(p) \/ AddPriv(p) \/ AddConfs(p)
  PROVE  \E at \in {"copy", "add", "bodies", "done"}, doc \in {proc[p].doc, config},
            file \in Privileged, files \in [Tunnels -> Presence] :
              Moves(p, at, doc, file, files, "absent")
<1>0. proc[p].file \in Privileged /\ priv \in Privileged /\ conf \in [Tunnels -> Presence]
  BY DEF StoreInv, TypeOK, Command
<1>1. CASE Gather(p)
  <2>1. Moves(p, "copy", config, priv, conf, "absent")
    BY <1>1 DEF Gather, Moves
  <2> QED
    BY <2>1, <1>0
<1>2. CASE AddConfig(p)
  <2> DEFINE doc == IF proc[p].doc.is = "absent" THEN proc[p].doc ELSE config
  <2>1. doc \in {proc[p].doc, config}
    OBVIOUS
  <2>2. Moves(p, "add", doc, priv, conf, "absent")
    BY <1>2 DEF AddConfig, Moves
  <2> QED
    BY <2>1, <2>2, <1>0
<1>3. CASE AddPriv(p)
  <2> DEFINE file == IF proc[p].file.is = "absent" THEN proc[p].file ELSE priv
  <2>1. file \in Privileged
    BY <1>0
  <2>2. Moves(p, "bodies", config, file, conf, "absent")
    BY <1>3 DEF AddPriv, Moves
  <2> QED
    BY <2>1, <2>2, <1>0
<1>4. CASE AddConfs(p)
  <2> DEFINE files == [t \in Tunnels |->
                         IF proc[p].files[t] = "absent" THEN "absent" ELSE conf[t]]
  <2>1. files \in [Tunnels -> Presence]
    BY <1>0 DEF Presence
  <2>2. Moves(p, "done", config, priv, files, "absent")
    BY <1>4 DEF AddConfs, Moves
  <2> QED
    BY <2>1, <2>2, <1>0
<1> QED
  BY <1>1, <1>2, <1>3, <1>4

LEMMA InitType == Init => StoreInv
<1> SUFFICES ASSUME Init PROVE StoreInv
  OBVIOUS
<1>1. [NoDoc EXCEPT !.is = "whole"] \in Doc
  BY FilesAreTyped DEF Doc
<1>2. 0 \in Keys /\ 0 \in 0..MaxRuns
  BY BoundAssumption DEF Keys
<1>3. Idle.cmd = "none"
  BY DEF Idle
<1> QED
  BY <1>1, <1>2, <1>3, FilesAreTyped DEF Init, StoreInv, TypeOK, Presence

LEMMA NextType == StoreInv /\ [Next]_vars => StoreInv'
<1> SUFFICES ASSUME StoreInv, [Next]_vars PROVE StoreInv'
  OBVIOUS
<1>k. /\ lastKey \in Keys /\ priv \in Privileged /\ rotated \in Privileged
      /\ inited \in Privileged /\ buried \in BOOLEAN /\ overlapped \in BOOLEAN
      /\ config \in Doc /\ updated \in Doc /\ conf \in [Tunnels -> Presence]
      /\ proc \in [Processes -> Command] /\ runs \in 0..MaxRuns
  BY DEF StoreInv, TypeOK
<1>c. ASSUME NEW p \in Processes
      PROVE  /\ proc[p].doc \in Doc /\ proc[p].file \in Privileged /\ proc[p].key \in Keys
             /\ proc[p].files \in [Tunnels -> Presence]
             /\ proc[p].cmd = "import" /\ proc[p].temp = "whole" => Added(p) \in Doc
             /\ proc[p].temp = "whole" => [proc[p].doc EXCEPT !.is = proc[p].temp] \in Doc
  <2>1. proc[p] \in Command
    BY <1>k
  <2>2. /\ proc[p].doc \in Doc /\ proc[p].file \in Privileged /\ proc[p].key \in Keys
        /\ proc[p].files \in [Tunnels -> Presence]
    BY <2>1 DEF Command
  <2>3. proc[p].cmd = "import" => proc[p].tunnel \in Tunnels
    BY DEF StoreInv
  <2> QED
    BY <2>2, <2>3 DEF Added, Doc
<1>b. ASSUME NEW f \in Privileged, Becomes(f)
      PROVE  priv' \in Privileged /\ lastKey' \in Keys
  BY <1>b, <1>k DEF Becomes, Privileged
<1>a. "absent" \in Presence
  BY DEF Presence
<1>o. ASSUME NEW p \in Processes, Overlaps(p)
      PROVE  overlapped' \in BOOLEAN
  BY <1>o, <1>k DEF Overlaps
<1>n. runs + 1 \in Keys \/ ~(runs < MaxRuns)
  BY <1>k, BoundAssumption DEF Keys
\* A command that goes on, and the files it leaves as they were or well typed.
<1>g. ASSUME NEW p \in Processes,
             proc' \in [Processes -> Command]
             /\ (\A q \in Processes : proc'[q].cmd = "import" => proc'[q].tunnel \in Tunnels),
             conf' \in [Tunnels -> Presence], config' \in Doc, updated' \in Doc,
             priv' \in Privileged, rotated' \in Privileged, inited' \in Privileged,
             runs' \in 0..MaxRuns, lastKey' \in Keys, buried' \in BOOLEAN, overlapped' \in BOOLEAN
      PROVE  StoreInv'
  BY <1>g DEF StoreInv, TypeOK
<1> USE DEF users, keys, history
<1>1. ASSUME NEW p \in Processes, Stop(p) PROVE StoreInv'
  <2>1. /\ proc' \in [Processes -> Command]
        /\ \A q \in Processes : proc'[q].cmd = "import" => proc'[q].tunnel \in Tunnels
    BY <1>1, <1>k, FilesAreTyped DEF Stop, StoreInv, Idle
  <2> QED
    BY <1>1, <2>1, <1>k, <1>g DEF Stop
<1>2. ASSUME NEW p \in Processes, NEW t \in Tunnels, StartImport(p, t) PROVE StoreInv'
  <2> DEFINE command == [Idle EXCEPT !.cmd = "import", !.at = "agreed", !.tunnel = t]
  <2>1. command \in Command /\ command.tunnel = t
    BY FilesAreTyped DEF Command
  <2>2. Start(p, command)
    BY <1>2 DEF StartImport
  <2> HIDE DEF command
  <2> QED
    BY <1>2, <2>1, <2>2, StartType, <1>k, <1>g DEF StartImport
<1>3. ASSUME NEW p \in Processes, CreateConf(p) \/ WriteConf(p) PROVE StoreInv'
  <2>1. conf' \in [Tunnels -> Presence]
    BY <1>3, <1>k DEF CreateConf, WriteConf, Presence
  <2> QED
    BY <1>3, <2>1, GoType, <1>k, <1>g DEF CreateConf, WriteConf
<1>4. ASSUME NEW p \in Processes, CopyConfig(p) \/ ReadConfig(p) PROVE StoreInv'
  <2>1. PICK at \in {"read", "save", "done", "replace"} :
          Moves(p, at, config, priv, conf, "absent")
    BY <1>4 DEF CopyConfig, ReadConfig, Moves
  <2> QED
    BY <1>4, <2>1, MovesType, <1>a, <1>k, <1>g DEF CopyConfig, ReadConfig
<1>5. ASSUME NEW p \in Processes, SaveConfig(p) \/ ReplaceConfig(p) PROVE StoreInv'
  <2>0. PICK at \in {"read", "done"} : Rename(p, at)
    BY <1>5 DEF SaveConfig, ReplaceConfig
  <2>1. /\ proc' \in [Processes -> Command]
        /\ \A q \in Processes : proc'[q].cmd = "import" => proc'[q].tunnel \in Tunnels
    <3>1. Moves(p, at, config, priv, conf, "absent")
      BY <2>0 DEF Rename, Moves
    <3> QED
      BY <3>1, MovesType, <1>a, <1>k
  <2>2. CASE SaveConfig(p)
    <3>1. updated' \in Doc
      BY <2>2, <1>c DEF SaveConfig, Rename
    <3> QED
      BY <2>1, <2>2, <3>1, <1>k, <1>g DEF SaveConfig
  <2>3. CASE ReplaceConfig(p)
    <3>1. config' \in Doc
      BY <2>3, <1>c DEF ReplaceConfig, Rename, At
    <3> QED
      BY <2>1, <2>3, <3>1, <1>k, <1>g DEF ReplaceConfig
  <2> QED
    BY <1>5, <2>2, <2>3
<1>6. ASSUME Edit PROVE StoreInv'
  <2>1. config' \in Doc
    BY <1>6, <1>k, BoundAssumption DEF Edit, Doc
  <2>2. ASSUME NEW q \in Processes
        PROVE  /\ proc'[q] \in Command /\ proc'[q].cmd = proc[q].cmd
               /\ proc'[q].tunnel = proc[q].tunnel
    <3>1. proc[q] \in Command /\ proc'[q] \in {proc[q], [proc[q] EXCEPT !.alone = FALSE]}
      BY <1>6, <1>k DEF Edit
    <3> QED
      BY <3>1 DEF Command
  <2>3. proc' = [q \in Processes |-> proc'[q]]
    BY <1>6 DEF Edit
  <2>4. /\ proc' \in [Processes -> Command]
        /\ \A q \in Processes : proc'[q].cmd = "import" => proc'[q].tunnel \in Tunnels
    BY <2>2, <2>3 DEF StoreInv
  <2> QED
    BY <1>6, <2>1, <2>4, <1>k DEF Edit, StoreInv, TypeOK
<1>7. ASSUME NEW p \in Processes, StartRotate(p) PROVE StoreInv'
  <2> DEFINE command == [Idle EXCEPT !.cmd = "rotate", !.at = "copy", !.key = runs + 1]
  <2>1. Start(p, command) /\ runs < MaxRuns
    BY <1>7 DEF StartRotate, NewKey, Start
  <2>2. command \in Command /\ command.cmd = "rotate"
    BY <2>1, <1>n, FilesAreTyped DEF Command
  <2> HIDE DEF command
  <2> QED
    BY <1>7, <2>1, <2>2, StartType, <1>o, <1>k, <1>g DEF StartRotate, NewKey
<1>8. ASSUME NEW p \in Processes, CopyPriv(p) PROVE StoreInv'
  <2>1. Moves(p, "save", config, priv, conf, "absent")
    BY <1>8 DEF CopyPriv, Moves
  <2>2. Cut(0) \in Privileged
    BY FilesAreTyped, BoundAssumption DEF Keys
  <2> QED
    BY <1>8, <2>1, <2>2, MovesType, <1>a, <1>k, <1>g DEF CopyPriv
<1>9. ASSUME NEW p \in Processes, SaveCopy(p) \/ ReadPriv(p) PROVE StoreInv'
  BY <1>9, GoType, <1>c, <1>k, <1>g DEF SaveCopy, ReadPriv
<1>10. ASSUME NEW p \in Processes, ReplacePriv(p) PROVE StoreInv'
  <2>1. Becomes([is |-> proc[p].temp, key |-> proc[p].key]) /\ proc[p].temp = "whole"
    BY <1>10 DEF ReplacePriv, Rename
  <2>2. [is |-> proc[p].temp, key |-> proc[p].key] \in Privileged
    BY <2>1, <1>c DEF Privileged, Presence
  <2>3. priv' \in Privileged /\ lastKey' \in Keys
    BY <2>1, <2>2, <1>b
  <2>4. Moves(p, "done", config, priv, conf, "absent")
    BY <1>10 DEF ReplacePriv, Rename, Moves
  <2> QED
    BY <1>10, <2>3, <2>4, MovesType, <1>a, <1>k, <1>g DEF ReplacePriv
<1>11. ASSUME NEW p \in Processes, StartInit(p) PROVE StoreInv'
  <2> DEFINE command == [Idle EXCEPT !.cmd = "init", !.at = "create", !.key = runs + 1]
  <2>1. Start(p, command) /\ runs < MaxRuns
    BY <1>11 DEF StartInit, KeepPrevious, NewKey, Start
  <2>2. command \in Command /\ command.cmd = "init"
    BY <2>1, <1>n, FilesAreTyped DEF Command
  <2> HIDE DEF command
  <2>3. /\ priv' \in Privileged /\ inited' \in Privileged /\ rotated' \in Privileged
        /\ lastKey' \in Keys /\ buried' \in BOOLEAN
    <3>1. CASE priv.is = "absent"
      BY <1>11, <3>1, <1>k DEF StartInit, KeepPrevious, NewKey
    <3>2. CASE priv.is # "absent"
      BY <1>11, <3>2, <1>k, <1>b, FilesAreTyped DEF StartInit, KeepPrevious, NewKey
    <3> QED
      BY <3>1, <3>2
  <2> QED
    BY <1>11, <2>1, <2>2, <2>3, StartType, <1>o, <1>k, <1>g DEF StartInit, KeepPrevious, NewKey
<1>12. ASSUME NEW p \in Processes, CreatePriv(p) PROVE StoreInv'
  <2>1. Cut(proc[p].key) \in Privileged
    BY <1>c, FilesAreTyped
  <2> QED
    BY <1>12, <2>1, <1>b, GoType, <1>c, <1>k, <1>g DEF CreatePriv
<1>13. ASSUME NEW p \in Processes, WritePriv(p) PROVE StoreInv'
  <2>1. Holding(proc[p].key) \in Privileged
    BY <1>c, FilesAreTyped
  <2>2. priv' \in Privileged /\ lastKey' \in Keys /\ inited' \in Privileged
    BY <1>13, <2>1, <1>b, <1>k DEF WritePriv
  <2> QED
    BY <1>13, <2>2, GoType, <1>c, <1>k, <1>g DEF WritePriv
<1>14. ASSUME NEW p \in Processes, StartBackup(p) PROVE StoreInv'
  <2> DEFINE command == [Idle EXCEPT !.cmd = "backup", !.at = "gather"]
  <2>1. Start(p, command)
    BY <1>14 DEF StartBackup
  <2>2. command \in Command /\ command.cmd = "backup"
    BY FilesAreTyped DEF Command
  <2> HIDE DEF command
  <2> QED
    BY <1>14, <2>1, <2>2, StartType, <1>k, <1>g DEF StartBackup
<1>15. ASSUME NEW p \in Processes, CreateTemp(p) \/ FillTemp(p) PROVE StoreInv'
  <2>1. PICK temp \in Presence : Moves(p, proc[p].at, config, priv, conf, temp)
    BY <1>15 DEF CreateTemp, FillTemp, Presence, Moves
  <2>0. proc[p].at \in {"idle", "agreed", "create", "write", "copy", "save", "read", "replace",
                    "gather", "add", "bodies", "done"}
    BY <1>k DEF Command
  <2>2. /\ proc' \in [Processes -> Command]
        /\ \A q \in Processes : proc'[q].cmd = "import" => proc'[q].tunnel \in Tunnels
    BY <2>0, <2>1, MovesType, <1>k
  <2> QED
    BY <1>15, <2>2, <1>k, <1>g DEF CreateTemp, FillTemp
<1>16. ASSUME NEW p \in Processes, Gather(p) \/ AddConfig(p) \/ AddPriv(p) \/ AddConfs(p)
       PROVE  StoreInv'
  <2>1. PICK at \in {"copy", "add", "bodies", "done"}, doc \in {proc[p].doc, config},
             file \in Privileged, files \in [Tunnels -> Presence] :
                Moves(p, at, doc, file, files, "absent")
    BY <1>16, BackupMoves
  <2>2. /\ proc' \in [Processes -> Command]
        /\ \A q \in Processes : proc'[q].cmd = "import" => proc'[q].tunnel \in Tunnels
    <3>1. doc \in Doc
      BY <2>1, <1>c, <1>k
    <3> QED
      BY <2>1, <3>1, <1>a, MovesType
  <2> QED
    BY <1>16, <2>2, <1>k, <1>g DEF Gather, AddConfig, AddPriv, AddConfs
<1>17. CASE UNCHANGED vars
  BY <1>17, <1>k DEF vars, StoreInv, TypeOK
<1> QED
  BY <1>1, <1>2, <1>3, <1>4, <1>5, <1>6, <1>7, <1>8, <1>9, <1>10, <1>11, <1>12, <1>13,
     <1>14, <1>15, <1>16, <1>17 DEF Next

\* Wherever any number of commands are stopped, the user's configuration and
\* its copy are whole or not there (group.go:148-187, privdrop.go:98-140).
THEOREM StoreTypeCorrect == Spec => []TypeOK
<1>1. Spec => []StoreInv
  BY InitType, NextType, PTL DEF Spec
<1>2. StoreInv => TypeOK
  BY DEF StoreInv
<1> QED
  BY <1>1, <1>2, PTL

-----------------------------------------------------------------------------
(* No name without its file.                                               *)

\* The inductive form of ListedIsWritten: what commands have read names what is
\* written, and an import past its first step has written its own.
Past == {"write", "copy", "save", "read", "replace"}
WrittenInv ==
  /\ \A t \in config.all : conf[t] # "absent"
  /\ \A p \in Processes : \A t \in proc[p].doc.all : conf[t] # "absent"
  /\ \A p \in Processes : proc[p].cmd = "import" /\ proc[p].at \in Past =>
                              conf[proc[p].tunnel] # "absent"

\* A command that starts has read nothing, or a configuration that is there.
LEMMA StartReadsNothing ==
  ASSUME StoreInv, WrittenInv, NEW p \in Processes, NEW command \in Command,
         \A t \in command.doc.all : conf[t] # "absent", ~(command.cmd = "import" /\ command.at \in Past),
         Start(p, command), UNCHANGED <<conf, config>>
  PROVE  WrittenInv'
<1> DEFINE alone == \A o \in Processes : proc[o] = Idle
<1>1. proc' = [q \in Processes |->
                  IF q = p THEN [command EXCEPT !.alone = alone]
                  ELSE IF proc[q] = Idle THEN Idle ELSE [proc[q] EXCEPT !.alone = FALSE]]
  BY DEF Start
<1> HIDE DEF alone
<1>2. ASSUME NEW q \in Processes
      PROVE  /\ \A t \in proc'[q].doc.all : conf[t] # "absent"
             /\ proc'[q].cmd = "import" /\ proc'[q].at \in Past => conf[proc'[q].tunnel] # "absent"
  <2>1. CASE q = p
    <3>1. /\ proc'[q].doc = command.doc /\ proc'[q].cmd = command.cmd
          /\ proc'[q].at = command.at
      BY <2>1, <1>1 DEF Command
    <3> QED
      BY <3>1
  <2>2. CASE q # p
    <3>1. /\ proc'[q].doc = proc[q].doc /\ proc'[q].cmd = proc[q].cmd
          /\ proc'[q].at = proc[q].at /\ proc'[q].tunnel = proc[q].tunnel
      BY <2>2, <1>1 DEF StoreInv, TypeOK, Command
    <3> QED
      BY <3>1 DEF WrittenInv
  <2> QED
    BY <2>1, <2>2
<1> QED
  BY <1>2 DEF WrittenInv

\* A command goes on, with what it had read or what there is now; it is past
\* its first step only if it was, or has written its file.
LEMMA MovesKeepWritten ==
  ASSUME StoreInv, WrittenInv, NEW p \in Processes, NEW at, NEW doc \in {proc[p].doc, config},
         NEW file, NEW files, NEW temp, Moves(p, at, doc, file, files, temp),
         proc[p].cmd = "import" /\ at \in Past =>
            proc[p].at \in Past \/ conf'[proc[p].tunnel] # "absent",
         \A t \in config'.all : conf'[t] # "absent",
         \A t : conf[t] # "absent" => conf'[t] # "absent"
  PROVE  WrittenInv'
<1>1. ASSUME NEW q \in Processes
      PROVE  /\ \A t \in proc'[q].doc.all : conf'[t] # "absent"
             /\ proc'[q].cmd = "import" /\ proc'[q].at \in Past => conf'[proc'[q].tunnel] # "absent"
  <2>1. CASE q = p
    <3>1. /\ proc'[p].doc = proc[p].doc \/ proc'[p].doc = config
          /\ proc'[p].cmd = proc[p].cmd /\ proc'[p].tunnel = proc[p].tunnel
          /\ proc'[p].at = at
      BY MovesCells
    <3> QED
      BY <3>1, <2>1 DEF WrittenInv
  <2>2. CASE q # p
    <3>1. proc'[q] = proc[q]
      BY <2>2, MovesCells
    <3> QED
      BY <3>1 DEF WrittenInv
  <2> QED
    BY <2>1, <2>2
<1> QED
  BY <1>1 DEF WrittenInv

LEMMA NextWritten == StoreInv /\ WrittenInv /\ [Next]_vars => WrittenInv'
<1> SUFFICES ASSUME StoreInv, WrittenInv, [Next]_vars PROVE WrittenInv'
  OBVIOUS
<1>i. ASSUME NEW c \in {"rotate", "init"}, NEW a \in {"copy", "create"}, runs < MaxRuns
      PROVE  LET command == [Idle EXCEPT !.cmd = c, !.at = a, !.key = runs + 1]
             IN  command \in Command /\ command.doc.all = {} /\ command.cmd # "import"
  <2>1. runs + 1 \in Keys
    BY <1>i, BoundAssumption DEF StoreInv, TypeOK, Keys
  <2>2. Idle.doc.all = {}
    BY DEF Idle, NoDoc
  <2> QED
    BY <2>1, <2>2, FilesAreTyped DEF Command
\* A step that leaves the configuration and the .conf files alone.
<1>w. UNCHANGED <<conf, config>> => \A t \in config'.all : conf'[t] # "absent"
  BY DEF WrittenInv
<1> USE DEF users, keys, history
<1>1. ASSUME NEW p \in Processes, Stop(p) PROVE WrittenInv'
  <2>1. Idle.doc.all = {} /\ Idle.cmd = "none"
    BY DEF Idle, NoDoc
  <2> QED
    BY <1>1, <2>1 DEF Stop, WrittenInv, StoreInv, TypeOK
<1>2. ASSUME NEW p \in Processes, NEW t \in Tunnels, StartImport(p, t) PROVE WrittenInv'
  <2> DEFINE command == [Idle EXCEPT !.cmd = "import", !.at = "agreed", !.tunnel = t]
  <2>1. command \in Command /\ command.doc = Idle.doc /\ command.at = "agreed"
    BY FilesAreTyped DEF Command
  <2>2. Idle.doc.all = {} /\ "agreed" \notin Past
    BY DEF Idle, NoDoc, Past
  <2>3. Start(p, command) /\ UNCHANGED <<conf, config>>
    BY <1>2 DEF StartImport
  <2> HIDE DEF command
  <2> QED
    BY <2>1, <2>2, <2>3, StartReadsNothing
<1>3. ASSUME NEW p \in Processes, CreateConf(p) \/ WriteConf(p) PROVE WrittenInv'
  <2>0. proc[p].cmd = "import" /\ proc[p].tunnel \in Tunnels
    BY <1>3 DEF CreateConf, WriteConf, At, StoreInv
  <2>1. PICK is \in {"cut", "whole"} : conf' = [conf EXCEPT ![proc[p].tunnel] = is]
    BY <1>3 DEF CreateConf, WriteConf
  <2>2. conf'[proc[p].tunnel] # "absent" /\ \A t \in Tunnels : conf[t] # "absent" => conf'[t] # "absent"
    BY <2>0, <2>1 DEF StoreInv, TypeOK
  <2>3. \A t : conf[t] # "absent" => conf'[t] # "absent"
    BY <2>0, <2>1 DEF StoreInv, TypeOK
  <2>4. config' = config
    BY <1>3 DEF CreateConf, WriteConf
  <2>5. \E at : Moves(p, at, config, priv, conf, "absent")
    BY <1>3 DEF CreateConf, WriteConf, Go, Moves
  <2> QED
    BY <2>2, <2>3, <2>4, <2>5, MovesKeepWritten DEF WrittenInv
<1>4. ASSUME NEW p \in Processes, CopyConfig(p) \/ ReadConfig(p) PROVE WrittenInv'
  <2>1. \E at : Moves(p, at, config, priv, conf, "absent")
    BY <1>4 DEF CopyConfig, ReadConfig, Moves
  <2>2. proc[p].at \in Past /\ UNCHANGED <<conf, config>>
    BY <1>4 DEF CopyConfig, ReadConfig, At, Past
  <2> QED
    BY <2>1, <2>2, <1>w, MovesKeepWritten
<1>5. ASSUME NEW p \in Processes, SaveConfig(p) PROVE WrittenInv'
  <2>1. proc[p].at \in Past /\ UNCHANGED <<conf, config>>
    BY <1>5 DEF SaveConfig, At, Past
  <2>2. Moves(p, "read", config, priv, conf, "absent")
    BY <1>5 DEF SaveConfig, Rename, Moves
  <2> QED
    BY <2>1, <2>2, <1>w, MovesKeepWritten
<1>6. ASSUME NEW p \in Processes, ReplaceConfig(p) PROVE WrittenInv'
  <2>1. proc[p].at \in Past /\ proc[p].cmd = "import" /\ UNCHANGED conf
    BY <1>6 DEF ReplaceConfig, At, Past
  <2>2. config'.all = proc[p].doc.all \cup {proc[p].tunnel}
    BY <1>6 DEF ReplaceConfig, Added
  <2>3. \A t \in config'.all : conf'[t] # "absent"
    BY <2>1, <2>2 DEF WrittenInv
  <2>4. Moves(p, "done", config, priv, conf, "absent")
    BY <1>6 DEF ReplaceConfig, Rename, Moves
  <2> QED
    BY <2>1, <2>3, <2>4, MovesKeepWritten
<1>7. ASSUME Edit PROVE WrittenInv'
  <2>1. config'.all = config.all /\ conf' = conf
    BY <1>7 DEF Edit, StoreInv, TypeOK, Doc
  <2>2. ASSUME NEW q \in Processes
        PROVE  /\ proc'[q].doc = proc[q].doc /\ proc'[q].cmd = proc[q].cmd
               /\ proc'[q].at = proc[q].at /\ proc'[q].tunnel = proc[q].tunnel
    BY <1>7 DEF Edit, StoreInv, TypeOK, Command
  <2> QED
    BY <2>1, <2>2 DEF WrittenInv
<1>8. ASSUME NEW p \in Processes, StartRotate(p) PROVE WrittenInv'
  <2> DEFINE command == [Idle EXCEPT !.cmd = "rotate", !.at = "copy", !.key = runs + 1]
  <2>1. Start(p, command) /\ runs < MaxRuns /\ UNCHANGED <<conf, config>>
    BY <1>8 DEF StartRotate, NewKey, Start
  <2>2. command \in Command /\ command.doc.all = {} /\ command.cmd # "import"
    BY <1>i, <2>1
  <2> HIDE DEF command
  <2> QED
    BY <2>1, <2>2, StartReadsNothing
<1>9. ASSUME NEW p \in Processes, StartInit(p) PROVE WrittenInv'
  <2> DEFINE command == [Idle EXCEPT !.cmd = "init", !.at = "create", !.key = runs + 1]
  <2>1. Start(p, command) /\ runs < MaxRuns /\ UNCHANGED <<conf, config>>
    BY <1>9 DEF StartInit, KeepPrevious, NewKey, Start
  <2>2. command \in Command /\ command.doc.all = {} /\ command.cmd # "import"
    BY <1>i, <2>1
  <2> HIDE DEF command
  <2> QED
    BY <2>1, <2>2, StartReadsNothing
<1>10. ASSUME NEW p \in Processes, StartBackup(p) PROVE WrittenInv'
  <2> DEFINE command == [Idle EXCEPT !.cmd = "backup", !.at = "gather"]
  <2>1. Start(p, command) /\ UNCHANGED <<conf, config>>
    BY <1>10 DEF StartBackup
  <2>2. command \in Command /\ command.doc = Idle.doc /\ command.cmd # "import"
    BY FilesAreTyped DEF Command
  <2>3. Idle.doc.all = {}
    BY DEF Idle, NoDoc
  <2> HIDE DEF command
  <2> QED
    BY <2>1, <2>2, <2>3, StartReadsNothing
<1>11. ASSUME NEW p \in Processes,
              CopyPriv(p) \/ SaveCopy(p) \/ ReadPriv(p) \/ ReplacePriv(p) \/ CreatePriv(p)
              \/ WritePriv(p)
       PROVE  WrittenInv'
  <2>1. proc[p].cmd # "import" /\ UNCHANGED <<conf, config>>
    BY <1>11 DEF CopyPriv, SaveCopy, ReadPriv, ReplacePriv, CreatePriv, WritePriv, At
  <2>2. \E at : Moves(p, at, config, priv, conf, "absent")
    BY <1>11 DEF CopyPriv, SaveCopy, ReadPriv, ReplacePriv, CreatePriv, WritePriv, Go, Rename, Moves
  <2> QED
    BY <2>1, <2>2, <1>w, MovesKeepWritten
<1>12. ASSUME NEW p \in Processes, Gather(p) \/ AddConfig(p) \/ AddPriv(p) \/ AddConfs(p)
       PROVE  WrittenInv'
  <2>1. proc[p].cmd # "import" /\ UNCHANGED <<conf, config>>
    BY <1>12 DEF Gather, AddConfig, AddPriv, AddConfs, At
  <2>2. \E doc \in {proc[p].doc, config} :
          \E at, file, files : Moves(p, at, doc, file, files, "absent")
    BY <1>12, BackupMoves
  <2> QED
    BY <2>1, <2>2, <1>w, MovesKeepWritten
<1>13. ASSUME NEW p \in Processes, CreateTemp(p) \/ FillTemp(p) PROVE WrittenInv'
  <2>1. /\ \E temp : Moves(p, proc[p].at, config, priv, conf, temp)
        /\ UNCHANGED <<conf, config>>
    BY <1>13 DEF CreateTemp, FillTemp, Moves
  <2> QED
    BY <2>1, <1>w, MovesKeepWritten
<1>14. CASE UNCHANGED vars
  BY <1>14 DEF vars, WrittenInv
<1> QED
  BY <1>1, <1>2, <1>3, <1>4, <1>5, <1>6, <1>7, <1>8, <1>9, <1>10, <1>11, <1>12, <1>13, <1>14 DEF Next

\* However many imports overlap, and wherever they are stopped, the group all
\* names no tunnel without a file (import.go:70-110).
THEOREM ListedAreWritten == Spec => []ListedIsWritten
<1>1. Init => WrittenInv
  <2> SUFFICES ASSUME Init PROVE WrittenInv
    OBVIOUS
  <2>1. config.all = {} /\ Idle.doc.all = {} /\ Idle.cmd = "none"
    BY DEF Init, NoDoc, Idle
  <2> QED
    BY <2>1 DEF Init, WrittenInv
<1>2. WrittenInv => ListedIsWritten
  BY DEF WrittenInv, ListedIsWritten
<1> QED
  BY <1>1, <1>2, InitType, NextType, NextWritten, PTL DEF Spec

-----------------------------------------------------------------------------
(* The key is not lost.                                                    *)

\* The inductive form of KeysAreKept: a whole privileged file holds the last
\* key; unless an unfinished file was buried, that file or the one init moved
\* aside holds it; and while no two commands that replace the key overlap, one
\* alone is at it, and a rotation has copied what it is to replace.
KeyInv ==
  /\ priv.is = "whole" => priv.key = lastKey
  /\ lastKey # 0 /\ buried = FALSE =>
       priv.is = "whole" \/ (inited.is = "whole" /\ inited.key = lastKey)
  /\ overlapped = FALSE =>
       /\ \A p, q \in Processes : ReplacesTheKey(p) /\ ReplacesTheKey(q) => p = q
       /\ \A p \in Processes : proc[p].cmd = "rotate" =>
            /\ proc[p].at = "save" => proc[p].file = priv
            /\ proc[p].at \in {"read", "replace"} => rotated = priv

\* What a command that starts does to what each command is at.
LEMMA StartCells ==
  ASSUME StoreInv, NEW p \in Processes, NEW command \in Command, Start(p, command)
  PROVE  /\ proc'[p].cmd = command.cmd /\ proc'[p].at = command.at
         /\ \A q \in Processes : q # p =>
              /\ proc'[q].cmd = proc[q].cmd /\ proc'[q].at = proc[q].at
              /\ proc'[q].file = proc[q].file
<1> DEFINE alone == \A o \in Processes : proc[o] = Idle
<1>1. proc' = [q \in Processes |->
                  IF q = p THEN [command EXCEPT !.alone = alone]
                  ELSE IF proc[q] = Idle THEN Idle ELSE [proc[q] EXCEPT !.alone = FALSE]]
  BY DEF Start
<1> HIDE DEF alone
<1> QED
  BY <1>1 DEF StoreInv, TypeOK, Command

\* A command that writes aside changes nothing else.
LEMMA TempCells ==
  ASSUME StoreInv, NEW p \in Processes, CreateTemp(p) \/ FillTemp(p)
  PROVE  \A q \in Processes :
           /\ proc'[q].cmd = proc[q].cmd /\ proc'[q].at = proc[q].at
           /\ proc'[q].tunnel = proc[q].tunnel /\ proc'[q].key = proc[q].key
           /\ proc'[q].doc = proc[q].doc /\ proc'[q].file = proc[q].file
           /\ proc'[q].files = proc[q].files /\ proc'[q].alone = proc[q].alone
           /\ q # p => proc'[q] = proc[q]
<1>1. proc \in [Processes -> Command] /\ proc[p] \in Command
  BY DEF StoreInv, TypeOK
<1>2. PICK temp : proc' = [proc EXCEPT ![p].temp = temp]
  BY DEF CreateTemp, FillTemp
<1> QED
  BY <1>1, <1>2 DEF Command

\* A step that leaves the keys and who is at them alone.
LEMMA KeysUntouched ==
  ASSUME KeyInv, UNCHANGED <<priv, rotated, inited, lastKey, buried, overlapped>>,
         \A q \in Processes : \/ proc'[q].cmd \notin {"rotate", "init"}
                              \/ /\ proc'[q].cmd = proc[q].cmd /\ proc'[q].at = proc[q].at
                                 /\ proc'[q].file = proc[q].file
  PROVE  KeyInv'
  BY DEF KeyInv, ReplacesTheKey

LEMMA NextKeys == StoreInv /\ KeyInv /\ [Next]_vars => KeyInv'
<1> SUFFICES ASSUME StoreInv, KeyInv, [Next]_vars PROVE KeyInv'
  OBVIOUS
<1> USE DEF users, keys, history
<1>k. overlapped \in BOOLEAN /\ buried \in BOOLEAN /\ priv \in Privileged
  BY DEF StoreInv, TypeOK
<1>i. ASSUME NEW c \in {"rotate", "init"}, NEW a \in {"copy", "create"}, runs < MaxRuns
      PROVE  LET command == [Idle EXCEPT !.cmd = c, !.at = a, !.key = runs + 1]
             IN  command \in Command /\ command.cmd = c /\ command.at = a
  <2>1. runs + 1 \in Keys
    BY <1>i, BoundAssumption DEF StoreInv, TypeOK, Keys
  <2> QED
    BY <2>1, FilesAreTyped DEF Command
<1>1. ASSUME NEW p \in Processes, Stop(p) PROVE KeyInv'
  <2>1. Idle.cmd = "none"
    BY DEF Idle
  <2>2. \A q \in Processes : proc'[q] = IF q = p THEN Idle ELSE proc[q]
    BY <1>1 DEF Stop, StoreInv, TypeOK
  <2> QED
    BY <1>1, <2>1, <2>2, KeysUntouched DEF Stop
<1>2. ASSUME NEW p \in Processes, NEW t \in Tunnels, StartImport(p, t) PROVE KeyInv'
  <2> DEFINE command == [Idle EXCEPT !.cmd = "import", !.at = "agreed", !.tunnel = t]
  <2>1. command \in Command /\ command.cmd = "import"
    BY FilesAreTyped DEF Command
  <2>2. Start(p, command)
    BY <1>2 DEF StartImport
  <2> HIDE DEF command
  <2> QED
    BY <1>2, <2>1, <2>2, StartCells, KeysUntouched DEF StartImport
<1>3. ASSUME NEW p \in Processes, StartBackup(p) PROVE KeyInv'
  <2> DEFINE command == [Idle EXCEPT !.cmd = "backup", !.at = "gather"]
  <2>1. command \in Command /\ command.cmd = "backup"
    BY FilesAreTyped DEF Command
  <2>2. Start(p, command)
    BY <1>3 DEF StartBackup
  <2> HIDE DEF command
  <2> QED
    BY <1>3, <2>1, <2>2, StartCells, KeysUntouched DEF StartBackup
<1>4. ASSUME NEW p \in Processes,
             CreateConf(p) \/ WriteConf(p) \/ CopyConfig(p) \/ SaveConfig(p) \/ ReadConfig(p)
             \/ ReplaceConfig(p) \/ Gather(p) \/ AddConfig(p) \/ AddPriv(p) \/ AddConfs(p)
      PROVE  KeyInv'
  <2>1. /\ proc[p].cmd \notin {"rotate", "init"}
        /\ UNCHANGED <<priv, rotated, inited, lastKey, buried, overlapped>>
    BY <1>4 DEF CreateConf, WriteConf, CopyConfig, SaveConfig, ReadConfig, ReplaceConfig,
                Gather, AddConfig, AddPriv, AddConfs, At
  <2>2. PICK at, doc, file, files : Moves(p, at, doc, file, files, "absent")
    <3>1. CASE CreateConf(p) \/ WriteConf(p)
      <4>1. \E at : Moves(p, at, config, priv, conf, "absent")
        BY <3>1 DEF CreateConf, WriteConf, Go, Moves
      <4> QED
        BY <4>1
    <3>2. CASE CopyConfig(p) \/ ReadConfig(p)
      <4>1. \E at : Moves(p, at, config, priv, conf, "absent")
        BY <3>2 DEF CopyConfig, ReadConfig, Moves
      <4> QED
        BY <4>1
    <3>3. CASE SaveConfig(p) \/ ReplaceConfig(p)
      <4>1. \E at : Moves(p, at, config, priv, conf, "absent")
        BY <3>3 DEF SaveConfig, ReplaceConfig, Rename, Moves
      <4> QED
        BY <4>1
    <3>4. CASE Gather(p) \/ AddConfig(p) \/ AddPriv(p) \/ AddConfs(p)
      BY <3>4, BackupMoves
    <3> QED
      BY <1>4, <3>1, <3>2, <3>3, <3>4
  <2>3. proc'[p].cmd = proc[p].cmd /\ \A q \in Processes : q # p => proc'[q] = proc[q]
    BY <2>2, MovesCells
  <2> QED
    BY <2>1, <2>3, KeysUntouched
<1>5. ASSUME Edit PROVE KeyInv'
  <2>1. ASSUME NEW q \in Processes
        PROVE  /\ proc'[q].cmd = proc[q].cmd /\ proc'[q].at = proc[q].at
               /\ proc'[q].file = proc[q].file
    BY <1>5 DEF Edit, StoreInv, TypeOK, Command
  <2> QED
    BY <1>5, <2>1, KeysUntouched DEF Edit
<1>6. ASSUME NEW p \in Processes, StartRotate(p) PROVE KeyInv'
  <2> DEFINE command == [Idle EXCEPT !.cmd = "rotate", !.at = "copy", !.key = runs + 1]
  <2>1. Start(p, command) /\ runs < MaxRuns
    BY <1>6 DEF StartRotate, NewKey, Start
  <2>2. command \in Command /\ command.cmd = "rotate" /\ command.at = "copy"
    BY <1>i, <2>1
  <2> HIDE DEF command
  <2>3. /\ proc'[p].cmd = "rotate" /\ proc'[p].at = "copy"
        /\ \A q \in Processes : q # p =>
             /\ proc'[q].cmd = proc[q].cmd /\ proc'[q].at = proc[q].at
             /\ proc'[q].file = proc[q].file
    BY <2>1, <2>2, StartCells
  <2>4. overlapped' = FALSE =>
          overlapped = FALSE /\ \A q \in Processes : q # p => ~ReplacesTheKey(q)
    BY <1>6, <1>k DEF StartRotate, NewKey, Overlaps
  <2>5. UNCHANGED <<priv, rotated, inited, lastKey, buried>>
    BY <1>6 DEF StartRotate, NewKey
  <2> QED
    BY <2>3, <2>4, <2>5 DEF KeyInv, ReplacesTheKey
<1>7. ASSUME NEW p \in Processes, StartInit(p) PROVE KeyInv'
  <2> DEFINE command == [Idle EXCEPT !.cmd = "init", !.at = "create", !.key = runs + 1]
  <2>1. Start(p, command) /\ runs < MaxRuns
    BY <1>7 DEF StartInit, KeepPrevious, NewKey, Start
  <2>2. command \in Command /\ command.cmd = "init" /\ command.at = "create"
    BY <1>i, <2>1
  <2> HIDE DEF command
  <2>3. /\ proc'[p].cmd = "init" /\ proc'[p].at = "create"
        /\ \A q \in Processes : q # p => proc'[q].cmd = proc[q].cmd
    BY <2>1, <2>2, StartCells
  <2>4. overlapped' = FALSE => \A q \in Processes : q # p => ~ReplacesTheKey(q)
    BY <1>7, <1>k DEF StartInit, KeepPrevious, NewKey, Overlaps
  <2>5. overlapped' = FALSE =>
          /\ \A q, r \in Processes : (ReplacesTheKey(q) /\ ReplacesTheKey(r))' => q = r
          /\ \A q \in Processes : proc'[q].cmd # "rotate"
    BY <2>3, <2>4 DEF ReplacesTheKey
  <2>6. CASE priv.is = "absent"
    <3>1. UNCHANGED <<priv, rotated, inited, lastKey, buried>>
      BY <1>7, <2>6 DEF StartInit, KeepPrevious, NewKey
    <3> QED
      BY <3>1, <2>5 DEF KeyInv
  <2>7. CASE priv.is # "absent"
    <3>1. /\ inited' = priv /\ priv' = NoFile /\ lastKey' = lastKey
          /\ buried' = (buried \/ priv.is = "cut")
      BY <1>7, <2>7 DEF StartInit, KeepPrevious, NewKey, Becomes, NoFile
    <3>2. priv'.is = "absent"
      BY <3>1 DEF NoFile
    <3>3. buried' = FALSE => priv.is = "whole"
      BY <3>1, <2>7, <1>k DEF Privileged, Presence
    <3> QED
      BY <3>1, <3>2, <3>3, <2>5 DEF KeyInv
  <2> QED
    BY <2>6, <2>7
\* The steps of a command that is at the key: none other is, or two overlap.
<1>a. ASSUME NEW p \in Processes, ReplacesTheKey(p), overlapped = FALSE
      PROVE  \A q \in Processes : q # p => proc[q].cmd # "rotate"
  BY <1>a DEF KeyInv, ReplacesTheKey
<1>8. ASSUME NEW p \in Processes, CopyPriv(p) \/ SaveCopy(p) \/ ReadPriv(p) PROVE KeyInv'
  <2>1. proc[p].cmd = "rotate" /\ UNCHANGED <<priv, inited, lastKey, buried, overlapped>>
    BY <1>8 DEF CopyPriv, SaveCopy, ReadPriv, At
  <2>2. \E at : Moves(p, at, config, priv, conf, "absent")
    BY <1>8 DEF CopyPriv, SaveCopy, ReadPriv, Go, Moves
  <2>3. proc'[p].cmd = proc[p].cmd /\ \A q \in Processes : q # p => proc'[q] = proc[q]
    BY <2>2, MovesCells
  <2>4. overlapped = FALSE => \A q \in Processes : q # p => proc'[q].cmd # "rotate"
    BY <1>a, <2>1, <2>3 DEF ReplacesTheKey
  <2>5. overlapped = FALSE =>
          \A q, r \in Processes : (ReplacesTheKey(q) /\ ReplacesTheKey(r))' => q = r
    BY <2>1, <2>3 DEF KeyInv, ReplacesTheKey
  <2>6. overlapped = FALSE =>
          /\ proc'[p].at = "save" => proc'[p].file = priv
          /\ proc'[p].at \in {"read", "replace"} => rotated' = priv
    <3>1. CASE CopyPriv(p)
      BY <3>1 DEF CopyPriv, StoreInv, TypeOK, Command
    <3>2. CASE SaveCopy(p)
      BY <3>2 DEF SaveCopy, Go, At, KeyInv, StoreInv, TypeOK, Command
    <3>3. CASE ReadPriv(p)
      BY <3>3 DEF ReadPriv, Go, At, KeyInv, StoreInv, TypeOK, Command
    <3> QED
      BY <1>8, <3>1, <3>2, <3>3
  <2> QED
    BY <2>1, <2>4, <2>5, <2>6 DEF KeyInv
<1>9. ASSUME NEW p \in Processes, ReplacePriv(p) \/ CreatePriv(p) \/ WritePriv(p) PROVE KeyInv'
  <2>1. ReplacesTheKey(p) /\ UNCHANGED <<rotated, buried, overlapped>>
    BY <1>9 DEF ReplacePriv, CreatePriv, WritePriv, At, ReplacesTheKey
  <2>2. \E at \in {"done", "write"} : Moves(p, at, config, priv, conf, "absent")
    BY <1>9 DEF ReplacePriv, CreatePriv, WritePriv, Go, Rename, Moves
  <2>3. /\ proc'[p].cmd = proc[p].cmd /\ proc'[p].at \in {"done", "write"}
        /\ \A q \in Processes : q # p => proc'[q] = proc[q]
    BY <2>2, MovesCells
  <2>4. overlapped = FALSE =>
          /\ \A q, r \in Processes : (ReplacesTheKey(q) /\ ReplacesTheKey(r))' => q = r
          /\ \A q \in Processes : q # p => proc'[q].cmd # "rotate"
    BY <1>a, <2>1, <2>3 DEF KeyInv, ReplacesTheKey
  <2>5. /\ priv'.is = "whole" => priv'.key = lastKey'
        /\ lastKey' # 0 /\ buried = FALSE =>
             priv'.is = "whole" \/ (inited'.is = "whole" /\ inited'.key = lastKey')
    <3>1. CASE ReplacePriv(p)
      BY <3>1 DEF ReplacePriv, Rename, Becomes
    <3>2. CASE CreatePriv(p)
      BY <3>2 DEF CreatePriv, Becomes, Cut, KeyInv
    <3>3. CASE WritePriv(p)
      <4>1. CASE priv = Cut(proc[p].key)
        BY <3>3, <4>1 DEF WritePriv, Becomes, Holding
      <4>2. CASE priv # Cut(proc[p].key)
        BY <3>3, <4>2 DEF WritePriv, KeyInv, Cut
      <4> QED
        BY <4>1, <4>2
    <3> QED
      BY <1>9, <3>1, <3>2, <3>3
  <2> QED
    BY <2>1, <2>3, <2>4, <2>5 DEF KeyInv
<1>10. ASSUME NEW p \in Processes, CreateTemp(p) \/ FillTemp(p) PROVE KeyInv'
  <2>1. UNCHANGED <<priv, rotated, inited, lastKey, buried, overlapped>>
    BY <1>10 DEF CreateTemp, FillTemp
  <2> QED
    BY <1>10, <2>1, TempCells, KeysUntouched
<1>11. CASE UNCHANGED vars
  BY <1>11, KeysUntouched DEF vars
<1> QED
  BY <1>1, <1>2, <1>3, <1>4, <1>5, <1>6, <1>7, <1>8, <1>9, <1>10, <1>11 DEF Next

\* A key that stays the last one is where KeyInv says; one that is replaced is
\* in a copy.
LEMMA KeyStep ==
  ASSUME StoreInv, KeyInv, KeyInv', [Next]_vars
  PROVE  lastKey # 0 /\ ~buried' /\ (lastKey' = lastKey \/ ~overlapped') => lastKey \in Held'
<1> USE DEF users, keys, history
<1>t. buried' \in BOOLEAN /\ overlapped' \in BOOLEAN
  BY NextType DEF StoreInv, TypeOK
<1>0. SUFFICES ASSUME lastKey # 0, buried' = FALSE, lastKey' = lastKey \/ overlapped' = FALSE
               PROVE  lastKey \in Held'
  BY <1>t
<1>h. ASSUME NEW f \in {priv', rotated', inited'}, f.is = "whole", f.key = lastKey
      PROVE  lastKey \in Held'
  BY <1>h DEF Held
<1>1. CASE lastKey' = lastKey
  BY <1>0, <1>1, <1>h DEF KeyInv
<1>2. CASE lastKey' # lastKey
  <2>1. PICK p \in Processes : ReplacePriv(p) \/ WritePriv(p)
    <3>1. \E p \in Processes : ReplacePriv(p) \/ WritePriv(p)
      BY <1>2 DEF Next, vars, Stop, StartImport, CreateConf, WriteConf, CopyConfig, SaveConfig,
         ReadConfig, ReplaceConfig, Edit, StartRotate, CopyPriv, SaveCopy, ReadPriv, StartInit, KeepPrevious,
         CreatePriv, StartBackup, Gather, AddConfig, AddPriv, AddConfs, CreateTemp, FillTemp,
         Becomes, NoFile, Cut
    <3> QED
      BY <3>1
  <2>2. buried = FALSE /\ overlapped = FALSE
    BY <1>0, <1>2, <2>1 DEF ReplacePriv, WritePriv
  <2>3. CASE inited.is = "whole" /\ inited.key = lastKey
    <3>1. inited' = inited
      BY <2>1, <2>3 DEF ReplacePriv, WritePriv, Cut
    <3> QED
      BY <2>3, <3>1, <1>h
  <2>4. CASE priv.is = "whole"
    <3>1. priv.key = lastKey
      BY <2>4 DEF KeyInv
    <3>2. CASE ReplacePriv(p)
      <4>1. rotated' = priv
        BY <3>2, <2>2 DEF ReplacePriv, At, KeyInv
      <4> QED
        BY <4>1, <3>1, <2>4, <1>h
    <3>3. CASE WritePriv(p)
      BY <3>3, <2>4, <1>2 DEF WritePriv, Cut
    <3> QED
      BY <2>1, <3>2, <3>3
  <2> QED
    BY <1>0, <2>2, <2>3, <2>4 DEF KeyInv
<1> QED
  BY <1>1, <1>2

\* Wherever any number of rotations and inits are stopped, and but for the two
\* disasters the property names, the key clients have pinned is held by the
\* privileged file or a copy of it (feedkey.go:60-125, init.go:73-170).
THEOREM PinnedKeysAreKept == Spec => KeysAreKept
<1>1. Init => KeyInv
  <2> SUFFICES ASSUME Init PROVE KeyInv
    OBVIOUS
  <2>1. Idle.cmd = "none" /\ NoFile.is = "absent"
    BY DEF Idle, NoFile
  <2> QED
    BY <2>1 DEF Init, KeyInv, ReplacesTheKey
<1>2. StoreInv /\ KeyInv /\ KeyInv' /\ [Next]_vars =>
        [lastKey # 0 /\ ~buried' /\ (lastKey' = lastKey \/ ~overlapped') => lastKey \in Held']_vars
  BY KeyStep
<1> QED
  BY <1>1, <1>2, InitType, NextType, NextKeys, PTL DEF Spec, KeysAreKept

-----------------------------------------------------------------------------
(* What a command reports.                                                 *)

\* What a command that is alone has seen and done by where it is.
ImportReport(p) ==
  LET c == proc[p]
  IN  /\ c.at = "write" => conf[c.tunnel] = "cut"
      /\ c.at \in {"copy", "save", "read", "replace", "done"} => conf[c.tunnel] = "whole"
      /\ c.at \in {"save", "read", "replace"} => c.doc = config
      /\ c.at \in {"read", "replace", "done"} /\ c.doc.is = "whole" => updated = c.doc
      /\ c.at = "done" =>
           /\ config.is = "whole" /\ config.edit = c.doc.edit
           /\ config.all = c.doc.all \cup {c.tunnel}

RotateReport(p) ==
  LET c == proc[p]
  IN  /\ c.at \in {"save", "read", "replace"} => priv = c.file
      /\ c.at \in {"read", "replace", "done"} => rotated = c.file
      /\ c.at = "done" => priv = Holding(c.key)

InitReport(p) ==
  /\ proc[p].at = "write" => priv = Cut(proc[p].key)
  /\ proc[p].at = "done" => priv = Holding(proc[p].key)

BackupReport(p) ==
  proc[p].at # "gather" =>
    proc[p].doc = config /\ proc[p].file = priv /\ proc[p].files = conf

Report(p) ==
  /\ proc[p].cmd = "import" => ImportReport(p)
  /\ proc[p].cmd = "rotate" => RotateReport(p)
  /\ proc[p].cmd = "init" => InitReport(p)
  /\ proc[p].cmd = "backup" => BackupReport(p)

\* The inductive form of ReportsAreTrue: nobody else is at anything while a
\* command is alone, and it finds what it read or wrote as it left it.
ReportInv ==
  /\ config.is = "absent" => config = NoDoc
  /\ \A p \in Processes : proc[p] # Idle =>
       /\ proc[p].cmd # "none"
       /\ proc[p].alone = TRUE =>
            Report(p) /\ \A q \in Processes : q # p => proc[q] = Idle

Begun == {<<"import", "agreed">>, <<"rotate", "copy">>, <<"init", "create">>, <<"backup", "gather">>}

\* A command that starts reports nothing yet, and leaves nobody else alone.
LEMMA StartReports ==
  ASSUME StoreInv, ReportInv, NEW p \in Processes, NEW command \in Command, Start(p, command),
         <<command.cmd, command.at>> \in Begun,
         UNCHANGED <<conf, config>>
  PROVE  ReportInv'
<1> DEFINE alone == \A o \in Processes : proc[o] = Idle
<1>1. proc' = [q \in Processes |->
                  IF q = p THEN [command EXCEPT !.alone = alone]
                  ELSE IF proc[q] = Idle THEN Idle ELSE [proc[q] EXCEPT !.alone = FALSE]]
  BY DEF Start
<1>2. alone => \A q \in Processes : q # p => proc[q] = Idle
  OBVIOUS
<1> HIDE DEF alone
<1>4. ASSUME NEW q \in Processes, q # p, proc'[q] # Idle
      PROVE  proc'[q].cmd # "none" /\ proc'[q].alone # TRUE
  <2>1. proc[q] # Idle /\ proc'[q] = [proc[q] EXCEPT !.alone = FALSE] /\ proc[q] \in Command
    BY <1>1, <1>4 DEF StoreInv, TypeOK
  <2>2. proc[q].cmd # "none" /\ proc'[q].cmd = proc[q].cmd /\ proc'[q].alone = FALSE
    BY <2>1 DEF ReportInv, Command
  <2> QED
    BY <2>2
<1>5. /\ proc'[p].cmd = command.cmd /\ proc'[p].at = command.at
      /\ proc'[p].alone = alone
  BY <1>1 DEF Command
<1>6. alone => \A q \in Processes : q # p => proc'[q] = Idle
  BY <1>1, <1>2
<1>7. proc'[p].cmd # "none" /\ Report(p)'
  BY <1>5 DEF Report, ImportReport, RotateReport, InitReport, BackupReport, Begun
<1>8. config'.is = "absent" => config' = NoDoc
  BY DEF ReportInv
<1>9. ASSUME NEW q \in Processes, proc'[q] # Idle
      PROVE  /\ proc'[q].cmd # "none"
             /\ proc'[q].alone = TRUE =>
                  Report(q)' /\ \A o \in Processes : o # q => proc'[o] = Idle
  BY <1>4, <1>5, <1>6, <1>7, <1>9
<1> QED
  BY <1>8, <1>9 DEF ReportInv

\* A command that goes on has nobody but itself to answer for.
LEMMA GoReports ==
  ASSUME StoreInv, ReportInv, NEW p \in Processes, proc[p].cmd # "none",
         proc'[p].cmd = proc[p].cmd, proc'[p].alone = proc[p].alone,
         \A q \in Processes : q # p => proc'[q] = proc[q],
         Report(p) => Report(p)', config'.is = "absent" => config' = NoDoc
  PROVE  ReportInv'
<1>1. proc[p] # Idle
  BY DEF Idle
<1>2. ASSUME NEW q \in Processes, proc'[q] # Idle
      PROVE  /\ proc'[q].cmd # "none"
             /\ proc'[q].alone = TRUE =>
                  Report(q)' /\ \A o \in Processes : o # q => proc'[o] = Idle
  <2>1. CASE q = p
    BY <1>1, <2>1 DEF ReportInv
  <2>2. CASE q # p
    BY <1>1, <1>2, <2>2 DEF ReportInv
  <2> QED
    BY <2>1, <2>2
<1> QED
  BY <1>2 DEF ReportInv

LEMMA NextReport == StoreInv /\ ReportInv /\ [Next]_vars => ReportInv'
<1> SUFFICES ASSUME StoreInv, ReportInv, [Next]_vars PROVE ReportInv'
  OBVIOUS
<1> USE DEF users, keys, history
<1>t. /\ proc \in [Processes -> Command] /\ conf \in [Tunnels -> Presence]
      /\ config \in Doc /\ priv \in Privileged
  BY DEF StoreInv, TypeOK
<1>c. UNCHANGED config => (config'.is = "absent" => config' = NoDoc)
  BY DEF ReportInv
<1>i. ASSUME NEW c \in {"rotate", "init"}, NEW a \in {"copy", "create"}, runs < MaxRuns
      PROVE  LET command == [Idle EXCEPT !.cmd = c, !.at = a, !.key = runs + 1]
             IN  command \in Command /\ command.cmd = c /\ command.at = a
  <2>1. runs + 1 \in Keys
    BY <1>i, BoundAssumption DEF StoreInv, TypeOK, Keys
  <2> QED
    BY <2>1, FilesAreTyped DEF Command
<1>1. ASSUME NEW p \in Processes, Stop(p) PROVE ReportInv'
  <2>1. \A q \in Processes : proc'[q] = IF q = p THEN Idle ELSE proc[q]
    BY <1>1, <1>t DEF Stop
  <2>2. UNCHANGED <<conf, config, updated, priv, rotated>>
    BY <1>1 DEF Stop
  <2>3. ASSUME NEW q \in Processes, proc'[q] # Idle
        PROVE  proc'[q] = proc[q] /\ (Report(q) => Report(q)')
    BY <2>1, <2>2, <2>3
       DEF Report, ImportReport, RotateReport, InitReport, BackupReport
  <2>4. config'.is = "absent" => config' = NoDoc
    BY <2>2 DEF ReportInv
  <2>5. ASSUME NEW q \in Processes, proc'[q] # Idle
        PROVE  /\ proc'[q].cmd # "none"
               /\ proc'[q].alone = TRUE =>
                    Report(q)' /\ \A o \in Processes : o # q => proc'[o] = Idle
    BY <2>1, <2>3, <2>5 DEF ReportInv
  <2> QED
    BY <2>4, <2>5 DEF ReportInv
<1>2. ASSUME NEW p \in Processes, NEW t \in Tunnels, StartImport(p, t) PROVE ReportInv'
  <2> DEFINE command == [Idle EXCEPT !.cmd = "import", !.at = "agreed", !.tunnel = t]
  <2>1. command \in Command /\ command.cmd = "import" /\ command.at = "agreed"
    BY FilesAreTyped DEF Command
  <2>2. Start(p, command) /\ UNCHANGED <<conf, config>>
    BY <1>2 DEF StartImport
  <2> HIDE DEF command
  <2> QED
    BY <2>1, <2>2, StartReports DEF Begun
<1>3. ASSUME NEW p \in Processes, StartBackup(p) PROVE ReportInv'
  <2> DEFINE command == [Idle EXCEPT !.cmd = "backup", !.at = "gather"]
  <2>1. command \in Command /\ command.cmd = "backup" /\ command.at = "gather"
    BY FilesAreTyped DEF Command
  <2>2. Start(p, command) /\ UNCHANGED <<conf, config>>
    BY <1>3 DEF StartBackup
  <2> HIDE DEF command
  <2> QED
    BY <2>1, <2>2, StartReports DEF Begun
<1>4. ASSUME NEW p \in Processes, StartRotate(p) PROVE ReportInv'
  <2> DEFINE command == [Idle EXCEPT !.cmd = "rotate", !.at = "copy", !.key = runs + 1]
  <2>1. Start(p, command) /\ runs < MaxRuns /\ UNCHANGED <<conf, config>>
    BY <1>4 DEF StartRotate, NewKey, Start
  <2>2. command \in Command /\ command.cmd = "rotate" /\ command.at = "copy"
    BY <1>i, <2>1
  <2> HIDE DEF command
  <2> QED
    BY <2>1, <2>2, StartReports DEF Begun
<1>5. ASSUME NEW p \in Processes, StartInit(p) PROVE ReportInv'
  <2> DEFINE command == [Idle EXCEPT !.cmd = "init", !.at = "create", !.key = runs + 1]
  <2>1. Start(p, command) /\ runs < MaxRuns /\ UNCHANGED <<conf, config>>
    BY <1>5 DEF StartInit, NewKey, Start
  <2>2. command \in Command /\ command.cmd = "init" /\ command.at = "create"
    BY <1>i, <2>1
  <2> HIDE DEF command
  <2> QED
    BY <2>1, <2>2, StartReports DEF Begun
\* What goes on, one command at a time.
<1>p. \A p \in Processes : proc[p] \in Command
  BY <1>t
\* What goes on, one command at a time.
<1>6. ASSUME NEW p \in Processes, CreateConf(p) \/ WriteConf(p) PROVE ReportInv'
  <2>1. proc[p].cmd = "import" /\ proc[p].tunnel \in Tunnels
    BY <1>6 DEF CreateConf, WriteConf, At, StoreInv
  <2>2. PICK at \in {"write", "copy"} :
          /\ proc' = [proc EXCEPT ![p].at = at] /\ UNCHANGED config
          /\ conf'[proc[p].tunnel] = IF at = "write" THEN "cut" ELSE "whole"
    BY <1>6, <2>1, <1>t DEF CreateConf, WriteConf, Go
  <2>3. /\ proc'[p].cmd = "import" /\ proc'[p].alone = proc[p].alone /\ proc'[p].at = at
        /\ proc'[p].tunnel = proc[p].tunnel /\ \A q \in Processes : q # p => proc'[q] = proc[q]
    BY <2>1, <2>2, <1>t, <1>p DEF Command
  <2>4. Report(p)'
    BY <2>2, <2>3 DEF Report, ImportReport
  <2> QED
    BY <2>1, <2>2, <2>3, <2>4, <1>c, GoReports
<1>7. ASSUME NEW p \in Processes, CopyConfig(p) PROVE ReportInv'
  <2>1. PICK at \in {"read", "save"} :
          /\ proc' = [proc EXCEPT ![p].doc = config, ![p].at = at]
          /\ at = "read" => config.is = "absent"
    BY <1>7 DEF CopyConfig
  <2>2. /\ proc[p].cmd = "import" /\ proc[p].at = "copy"
        /\ UNCHANGED <<conf, config, updated>>
    BY <1>7 DEF CopyConfig, At
  <2>3. /\ proc'[p].cmd = "import" /\ proc'[p].alone = proc[p].alone /\ proc'[p].at = at
        /\ proc'[p].tunnel = proc[p].tunnel /\ proc'[p].doc = config
        /\ \A q \in Processes : q # p => proc'[q] = proc[q]
    BY <2>1, <2>2, <1>t, <1>p DEF Command
  <2>4. Report(p) => Report(p)'
    BY <2>1, <2>2, <2>3 DEF Report, ImportReport
  <2> QED
    BY <2>2, <2>3, <2>4, <1>c, GoReports
<1>8. ASSUME NEW p \in Processes, SaveConfig(p) PROVE ReportInv'
  <2>1. /\ proc[p].cmd = "import" /\ proc[p].at = "save"
        /\ proc' = [proc EXCEPT ![p].at = "read", ![p].temp = "absent"]
        /\ updated' = [proc[p].doc EXCEPT !.is = "whole"] /\ UNCHANGED <<conf, config>>
    BY <1>8 DEF SaveConfig, At, Rename
  <2>2. /\ proc'[p].cmd = "import" /\ proc'[p].alone = proc[p].alone /\ proc'[p].at = "read"
        /\ proc'[p].tunnel = proc[p].tunnel /\ proc'[p].doc = proc[p].doc
        /\ \A q \in Processes : q # p => proc'[q] = proc[q]
    BY <2>1, <1>t, <1>p DEF Command
  <2>3. proc[p].doc.is = "whole" => updated' = proc[p].doc
    BY <2>1, <1>p DEF Command, Doc
  <2>4. Report(p) => Report(p)'
    BY <2>1, <2>2, <2>3 DEF Report, ImportReport
  <2> QED
    BY <2>1, <2>2, <2>4, <1>c, GoReports
<1>9. ASSUME NEW p \in Processes, ReadConfig(p) PROVE ReportInv'
  <2>1. PICK at \in {"done", "replace"} :
          /\ proc' = [proc EXCEPT ![p].doc = config, ![p].at = at]
          /\ at = "done" => proc[p].tunnel \in config.all
    BY <1>9 DEF ReadConfig
  <2>2. /\ proc[p].cmd = "import" /\ proc[p].at = "read"
        /\ UNCHANGED <<conf, config, updated>>
    BY <1>9 DEF ReadConfig, At
  <2>3. /\ proc'[p].cmd = "import" /\ proc'[p].alone = proc[p].alone /\ proc'[p].at = at
        /\ proc'[p].tunnel = proc[p].tunnel /\ proc'[p].doc = config
        /\ \A q \in Processes : q # p => proc'[q] = proc[q]
    BY <2>1, <2>2, <1>t, <1>p DEF Command
  <2>4. at = "done" => config.is = "whole"
    BY <2>1, <1>t DEF ReportInv, NoDoc, Doc
  <2>5. Report(p) => Report(p)'
    BY <2>1, <2>2, <2>3, <2>4 DEF Report, ImportReport
  <2> QED
    BY <2>2, <2>3, <2>5, <1>c, GoReports
<1>10. ASSUME NEW p \in Processes, ReplaceConfig(p) PROVE ReportInv'
  <2>1. /\ proc[p].cmd = "import" /\ proc[p].at = "replace"
        /\ proc' = [proc EXCEPT ![p].at = "done", ![p].temp = "absent"]
        /\ proc[p].temp = "whole" /\ config' = Added(p) /\ UNCHANGED <<conf, updated>>
    BY <1>10 DEF ReplaceConfig, At, Rename
  <2>2. /\ config'.is = "whole" /\ config'.edit = proc[p].doc.edit
        /\ config'.all = proc[p].doc.all \cup {proc[p].tunnel}
    BY <2>1 DEF Added
  <2>3. /\ proc'[p].cmd = "import" /\ proc'[p].alone = proc[p].alone /\ proc'[p].at = "done"
        /\ proc'[p].tunnel = proc[p].tunnel /\ proc'[p].doc = proc[p].doc
        /\ \A q \in Processes : q # p => proc'[q] = proc[q]
    BY <2>1, <1>t, <1>p DEF Command
  <2>4. Report(p) => Report(p)'
    BY <2>1, <2>2, <2>3 DEF Report, ImportReport
  <2> QED
    BY <2>1, <2>2, <2>3, <2>4, GoReports
<1>11. ASSUME Edit PROVE ReportInv'
  <2>1. config'.is = "whole"
    BY <1>11, <1>t DEF Edit, Doc
  <2>2. ASSUME NEW q \in Processes, proc'[q] # Idle
        PROVE  proc'[q].cmd # "none" /\ proc'[q].alone # TRUE
    <3>1. proc[q] # Idle /\ proc'[q] = [proc[q] EXCEPT !.alone = FALSE] /\ proc[q] \in Command
      BY <1>11, <2>2, <1>t DEF Edit
    <3>2. proc[q].cmd # "none" /\ proc'[q].cmd = proc[q].cmd /\ proc'[q].alone = FALSE
      BY <3>1 DEF ReportInv, Command
    <3> QED
      BY <3>2
  <2> QED
    BY <2>1, <2>2 DEF ReportInv
<1>12. ASSUME NEW p \in Processes, CopyPriv(p) PROVE ReportInv'
  <2>1. /\ proc[p].cmd = "rotate" /\ UNCHANGED <<config, priv>>
        /\ proc' = [proc EXCEPT ![p].file = priv, ![p].at = "save"]
    BY <1>12 DEF CopyPriv, At
  <2>2. /\ proc'[p].cmd = "rotate" /\ proc'[p].alone = proc[p].alone /\ proc'[p].at = "save"
        /\ proc'[p].file = priv /\ \A q \in Processes : q # p => proc'[q] = proc[q]
    BY <2>1, <1>t, <1>p DEF Command
  <2>3. Report(p)'
    BY <2>1, <2>2 DEF Report, RotateReport
  <2> QED
    BY <2>1, <2>2, <2>3, <1>c, GoReports
<1>13. ASSUME NEW p \in Processes, SaveCopy(p) \/ ReadPriv(p) \/ ReplacePriv(p) PROVE ReportInv'
  <2>1. PICK at \in {"read", "replace", "done"} :
          /\ \/ proc' = [proc EXCEPT ![p].at = at]
             \/ proc' = [proc EXCEPT ![p].at = at, ![p].temp = "absent"]
          /\ proc[p].cmd = "rotate" /\ UNCHANGED config
          /\ at = "done" => proc[p].at = "replace" /\ priv' = Holding(proc[p].key)
          /\ at # "done" => proc[p].at \in {"save", "read"} /\ priv' = priv
          /\ at = "read" => rotated' = proc[p].file
          /\ at # "read" => proc[p].at \in {"read", "replace"} /\ rotated' = rotated
    <3>1. CASE SaveCopy(p)
      BY <3>1 DEF SaveCopy, At, Go
    <3>2. CASE ReadPriv(p)
      BY <3>2 DEF ReadPriv, At, Go
    <3>3. CASE ReplacePriv(p)
      BY <3>3 DEF ReplacePriv, At, Rename, Becomes, Holding
    <3> QED
      BY <1>13, <3>1, <3>2, <3>3
  <2>2. /\ proc'[p].cmd = "rotate" /\ proc'[p].alone = proc[p].alone /\ proc'[p].at = at
        /\ proc'[p].file = proc[p].file /\ proc'[p].key = proc[p].key
        /\ \A q \in Processes : q # p => proc'[q] = proc[q]
    BY <2>1, <1>t, <1>p DEF Command
  <2>3. RotateReport(p) => RotateReport(p)'
    BY <2>1, <2>2 DEF RotateReport
  <2>4. Report(p) => Report(p)'
    BY <2>1, <2>2, <2>3 DEF Report
  <2> QED
    BY <2>1, <2>2, <2>4, <1>c, GoReports
<1>14. ASSUME NEW p \in Processes, CreatePriv(p) \/ WritePriv(p) PROVE ReportInv'
  <2>1. PICK at \in {"write", "done"} :
          /\ proc' = [proc EXCEPT ![p].at = at] /\ proc[p].cmd = "init" /\ UNCHANGED config
          /\ at = "write" => priv' = Cut(proc[p].key)
          /\ at = "done" => proc[p].at = "write"
                            /\ (priv = Cut(proc[p].key) => priv' = Holding(proc[p].key))
    <3>1. CASE CreatePriv(p)
      BY <3>1 DEF CreatePriv, At, Go, Becomes
    <3>2. CASE WritePriv(p)
      BY <3>2 DEF WritePriv, At, Go, Becomes
    <3> QED
      BY <1>14, <3>1, <3>2
  <2>2. /\ proc'[p].cmd = "init" /\ proc'[p].alone = proc[p].alone /\ proc'[p].at = at
        /\ proc'[p].key = proc[p].key /\ \A q \in Processes : q # p => proc'[q] = proc[q]
    BY <2>1, <1>t, <1>p DEF Command
  <2>3. Report(p) => Report(p)'
    BY <2>1, <2>2 DEF Report, InitReport
  <2> QED
    BY <2>1, <2>2, <2>3, <1>c, GoReports
<1>15. ASSUME NEW p \in Processes, Gather(p) \/ AddConfig(p) \/ AddPriv(p) \/ AddConfs(p)
       PROVE  ReportInv'
  <2>1. proc[p].cmd = "backup" /\ UNCHANGED <<conf, config, priv>>
    BY <1>15 DEF Gather, AddConfig, AddPriv, AddConfs, At
  <2>2. proc[p] \in Command /\ proc[p].files \in [Tunnels -> Presence]
    BY <1>p DEF Command
  <2>3. /\ proc'[p].cmd = proc[p].cmd /\ proc'[p].alone = proc[p].alone
        /\ \A q \in Processes : q # p => proc'[q] = proc[q]
        /\ BackupReport(p) => BackupReport(p)'
    <3>1. CASE Gather(p)
      BY <3>1, <2>1, <2>2, <1>t DEF Gather, BackupReport, Command
    <3>2. CASE AddConfig(p)
      BY <3>2, <2>1, <2>2, <1>t DEF AddConfig, At, BackupReport, Command
    <3>3. CASE AddPriv(p)
      BY <3>3, <2>1, <2>2, <1>t DEF AddPriv, At, BackupReport, Command
    <3>4. CASE AddConfs(p)
      <4> DEFINE files == [t \in Tunnels |->
                             IF proc[p].files[t] = "absent" THEN "absent" ELSE conf[t]]
      <4>1. proc[p].files = conf => files = conf
        BY <1>t
      <4>2. proc' = [proc EXCEPT ![p].files = files, ![p].at = "done"] /\ proc[p].at = "bodies"
        BY <3>4 DEF AddConfs, At
      <4> HIDE DEF files
      <4> QED
        BY <4>1, <4>2, <2>1, <2>2, <1>t DEF BackupReport, Command
    <3> QED
      BY <1>15, <3>1, <3>2, <3>3, <3>4
  <2>4. Report(p) => Report(p)'
    BY <2>1, <2>3 DEF Report
  <2> QED
    BY <2>1, <2>3, <2>4, <1>c, GoReports
<1>16. ASSUME NEW p \in Processes, CreateTemp(p) \/ FillTemp(p) PROVE ReportInv'
  <2>1. proc[p].cmd # "none" /\ UNCHANGED <<conf, config, updated, priv, rotated>>
    <3>1. proc[p] # Idle
      BY <1>16 DEF CreateTemp, WritesThroughTemp, FillTemp, At, Idle
    <3> QED
      BY <1>16, <3>1 DEF CreateTemp, FillTemp, ReportInv
  <2>2. Report(p) => Report(p)'
    BY <1>16, <2>1, TempCells DEF Report, ImportReport, RotateReport, InitReport, BackupReport
  <2> QED
    BY <1>16, <2>1, <2>2, <1>c, TempCells, GoReports
<1>17. CASE UNCHANGED vars
  BY <1>17 DEF vars, ReportInv, Report, ImportReport, RotateReport, InitReport, BackupReport
<1> QED
  BY <1>1, <1>2, <1>3, <1>4, <1>5, <1>6, <1>7, <1>8, <1>9, <1>10, <1>11, <1>12, <1>13,
     <1>14, <1>15, <1>16, <1>17 DEF Next

\* A command that nobody came across and that says it is done has done what it
\* says, whatever was stopped before it (import.go:70-125, feedkey.go:90-125,
\* init.go:90-125, backup.go:45-150).
THEOREM DoneIsDone == Spec => []ReportsAreTrue
<1>1. Init => ReportInv
  BY DEF Init, ReportInv, NoDoc
<1>2. StoreInv /\ ReportInv => ReportsAreTrue
  <2> SUFFICES ASSUME StoreInv, ReportInv, NEW p \in Processes,
                      proc[p].at = "done", proc[p].alone
               PROVE  LET c == proc[p]
                      IN  CASE c.cmd = "import" ->
                                  /\ conf[c.tunnel] = "whole" /\ config.is = "whole"
                                  /\ config.all = c.doc.all \cup {c.tunnel} /\ config.edit = c.doc.edit
                                  /\ c.doc.is = "whole" => updated = c.doc
                            [] c.cmd = "rotate" -> priv = Holding(c.key) /\ rotated = c.file
                            [] c.cmd = "init" -> priv = Holding(c.key)
                            [] c.cmd = "backup" -> c.doc = config /\ c.file = priv /\ c.files = conf
    BY DEF ReportsAreTrue
  <2>1. proc[p] \in Command /\ proc[p] # Idle
    BY DEF StoreInv, TypeOK, Idle
  <2>2. proc[p].alone = TRUE /\ proc[p].cmd \in {"import", "rotate", "init", "backup"}
    BY <2>1 DEF Command, ReportInv
  <2>3. Report(p)
    BY <2>1, <2>2 DEF ReportInv
  <2> QED
    BY <2>2, <2>3 DEF Report, ImportReport, RotateReport, InitReport, BackupReport
<1> QED
  BY <1>1, <1>2, InitType, NextType, NextReport, PTL DEF Spec
=============================================================================
