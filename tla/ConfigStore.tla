---------------------------- MODULE ConfigStore ----------------------------
(***************************************************************************)
(* The commands that write the configuration - import, feed-key --rotate   *)
(* and init-privileged [--force] - and the one that archives it, backup.   *)
(* Each is a process of its own, with no lock between them, on the .conf   *)
(* files, the user's configuration, the privileged one, and the copies     *)
(* kept beside them.                                                       *)
(*                                                                         *)
(* A step is one system call that another command, an editor or a crash    *)
(* may come before or after, except that backup lists the files in one,    *)
(* and reads the .conf files in one.  A command that is refused before it  *)
(* writes anything is no step.                                             *)
(***************************************************************************)
EXTENDS Integers, FiniteSets

CONSTANTS
    Processes,      \* the commands that run at the same time
    Tunnels,        \* the names imported
    MaxRuns,        \* bound: commands started in all
    MaxEdits        \* bound: times somebody edits the configuration by hand

ASSUME BoundAssumption == MaxRuns \in Nat /\ MaxEdits \in Nat

VARIABLES
    conf,           \* <tunnel>.conf
    config,         \* ~/.config/tun-manager/config.yaml
    updated,        \* its copy, config.yaml.before-update
    priv,           \* /private/wireguard/config/tun-manager.yaml
    rotated,        \* its copy, .before-rotate
    inited,         \* its copy, .before-init
    proc,           \* where each command is, and what it has read
    runs,           \* commands started; also the last key drawn
    lastKey,        \* history: the last key the privileged file held
    buried,         \* history: an init moved aside a file another had not finished
    overlapped      \* history: two commands that replace the key ran at once

users == <<conf, config, updated>>
keys == <<priv, rotated, inited>>
history == <<lastKey, buried, overlapped>>
vars == <<users, keys, proc, runs, history>>

Presence == {"absent", "cut", "whole"}
Keys == 0..MaxRuns

\* A configuration: the names in its group all, and what was edited by hand.
\* One that is cut short is none of these: TypeOK says there never is one.
Doc == [is : {"absent", "whole"}, all : SUBSET Tunnels, edit : 0..MaxEdits]
NoDoc == [is |-> "absent", all |-> {}, edit |-> 0]

\* A privileged file: of one cut short, the key is the one it was made for.
Privileged == [is : Presence, key : Keys]
NoFile == [is |-> "absent", key |-> 0]
Cut(k) == [is |-> "cut", key |-> k]
Holding(k) == [is |-> "whole", key |-> k]

Command == [cmd : {"none", "import", "rotate", "init", "backup"},
            at : {"idle", "agreed", "create", "write", "copy", "save", "read", "replace",
                  "gather", "add", "bodies", "done"},
            tunnel : Tunnels \cup {"none"}, key : Keys, temp : Presence,
            files : [Tunnels -> Presence], doc : Doc, file : Privileged, alone : BOOLEAN]
Idle == [cmd |-> "none", at |-> "idle", tunnel |-> "none", key |-> 0, temp |-> "absent",
         files |-> [t \in Tunnels |-> "absent"], doc |-> NoDoc, file |-> NoFile, alone |-> TRUE]

At(p, cmd, at) == proc[p].cmd = cmd /\ proc[p].at = at
Go(p, at) == proc' = [proc EXCEPT ![p].at = at]
ReplacesTheKey(q) == proc[q].cmd \in {"rotate", "init"}

Init ==
    /\ conf = [t \in Tunnels |-> "absent"]
    /\ config \in {NoDoc, [NoDoc EXCEPT !.is = "whole"]} /\ updated = NoDoc
    /\ priv = NoFile /\ rotated = NoFile /\ inited = NoFile
    /\ proc = [p \in Processes |-> Idle] /\ runs = 0
    /\ lastKey = 0 /\ buried = FALSE /\ overlapped = FALSE

-----------------------------------------------------------------------------
\* A command starts; whoever else runs is no longer alone.

Start(p, command) ==
    /\ proc[p] = Idle /\ runs < MaxRuns /\ runs' = runs + 1
    /\ proc' = [q \in Processes |->
          IF q = p THEN [command EXCEPT !.alone = \A o \in Processes : proc[o] = Idle]
          ELSE IF proc[q] = Idle THEN Idle ELSE [proc[q] EXCEPT !.alone = FALSE]]

\* GenerateSeed: a key nobody has.
NewKey == runs + 1

\* LoadPrivileged: a missing file is refused; an empty one leaves the defaults.
Loads == priv.is # "absent"

\* A command is done, or is refused what it asks for, or its disk fails, or it
\* is killed: wherever it was, what it has written stays.  A temporary file may
\* stay too, under a name nobody looks for.
Stop(p) ==
    /\ proc[p] # Idle
    /\ proc' = [proc EXCEPT ![p] = Idle]
    /\ UNCHANGED <<users, keys, runs, history>>

-----------------------------------------------------------------------------
\* writeThroughTemp and User.WriteFile: a file of its own is created, written
\* and closed, and moved over the name.

WritesThroughTemp(p) ==
    At(p, "import", "save") \/ At(p, "import", "replace") \/ At(p, "rotate", "replace")

CreateTemp(p) ==
    /\ WritesThroughTemp(p) /\ proc[p].temp = "absent"
    /\ proc' = [proc EXCEPT ![p].temp = "cut"]
    /\ UNCHANGED <<users, keys, runs, history>>

FillTemp(p) ==
    /\ proc[p].temp = "cut"
    /\ proc' = [proc EXCEPT ![p].temp = "whole"]
    /\ UNCHANGED <<users, keys, runs, history>>

\* The move, by which what the temporary file holds is at the name.
Rename(p, at) ==
    /\ proc[p].temp = "whole"
    /\ proc' = [proc EXCEPT ![p].at = at, ![p].temp = "absent"]

-----------------------------------------------------------------------------
\* import

\* The privileged file is read, the source parsed, the target not there; the
\* question is asked and answered, and nothing of this is looked at again.
StartImport(p, t) ==
    /\ Loads /\ conf[t] = "absent"
    /\ Start(p, [Idle EXCEPT !.cmd = "import", !.at = "agreed", !.tunnel = t])
    /\ UNCHANGED <<users, keys, history>>

\* Mutant: the group is changed first, and the file written last.
CreateConf_Last(p) ==
    /\ At(p, "import", "agreed") /\ Go(p, "copy")
    /\ UNCHANGED <<users, keys, runs, history>>

\* os.WriteFile: created or cut, whoever made it, and then written.
CreateConf(p) ==
    /\ At(p, "import", "agreed") /\ Go(p, "write")
    /\ conf' = [conf EXCEPT ![proc[p].tunnel] = "cut"]
    /\ UNCHANGED <<config, updated, keys, runs, history>>

WriteConf(p) ==
    /\ At(p, "import", "write") /\ Go(p, "copy")
    /\ conf' = [conf EXCEPT ![proc[p].tunnel] = "whole"]
    /\ UNCHANGED <<config, updated, keys, runs, history>>

\* backup: what there is is read, and becomes .before-update.
CopyConfig(p) ==
    /\ At(p, "import", "copy")
    /\ proc' = [proc EXCEPT ![p].doc = config,
                            ![p].at = IF config.is = "absent" THEN "read" ELSE "save"]
    /\ UNCHANGED <<users, keys, runs, history>>

SaveConfig(p) ==
    /\ At(p, "import", "save") /\ Rename(p, "read")
    /\ updated' = [proc[p].doc EXCEPT !.is = proc[p].temp]
    /\ UNCHANGED <<conf, config, keys, runs, history>>

\* AddToGroup: the file is read again; a name that is in it stays as it is.
ReadConfig(p) ==
    /\ At(p, "import", "read")
    /\ proc' = [proc EXCEPT ![p].doc = config,
                            ![p].at = IF proc[p].tunnel \in config.all THEN "done" ELSE "replace"]
    /\ UNCHANGED <<users, keys, runs, history>>

\* The configuration that was read, with the new name: as much of it as the
\* temporary file holds.
Added(p) ==
    [is |-> proc[p].temp, all |-> proc[p].doc.all \cup {proc[p].tunnel}, edit |-> proc[p].doc.edit]

\* Mutant: moved over it once created, and written there.
ReplaceConfig_Unwritten(p) ==
    /\ At(p, "import", "replace") /\ proc[p].temp = "cut"
    /\ proc' = [proc EXCEPT ![p].at = "done", ![p].temp = "absent"]
    /\ config' = Added(p)
    /\ UNCHANGED <<conf, updated, keys, runs, history>>

\* Mutant: the new name alone, without those that were there.
ReplaceConfig_Alone(p) ==
    /\ At(p, "import", "replace") /\ Rename(p, "done")
    /\ config' = [Added(p) EXCEPT !.all = {proc[p].tunnel}]
    /\ UNCHANGED <<conf, updated, keys, runs, history>>

\* replace: the temporary file is moved over what is there by now.
ReplaceConfig(p) ==
    /\ At(p, "import", "replace") /\ Rename(p, "done")
    /\ config' = Added(p)
    /\ UNCHANGED <<conf, updated, keys, runs, history>>

\* Somebody saves the configuration in an editor.
Edit ==
    /\ config.is = "whole" /\ config.edit < MaxEdits
    /\ config' = [config EXCEPT !.edit = @ + 1]
    /\ proc' = [q \in Processes |-> IF proc[q] = Idle THEN Idle ELSE [proc[q] EXCEPT !.alone = FALSE]]
    /\ UNCHANGED <<conf, updated, keys, runs, history>>

-----------------------------------------------------------------------------
\* The privileged file.

Overlaps(p) == overlapped' = (overlapped \/ \E q \in Processes \ {p} : ReplacesTheKey(q))

\* The privileged file becomes f; the key it holds is the last one.
Becomes(f) ==
    /\ priv' = f
    /\ lastKey' = IF f.is = "whole" THEN f.key ELSE lastKey

\* feed-key --rotate: the file is loaded - an empty one is as good - the
\* question answered and a key drawn.
StartRotate(p) ==
    /\ Loads
    /\ Start(p, [Idle EXCEPT !.cmd = "rotate", !.at = "copy", !.key = NewKey])
    /\ Overlaps(p)
    /\ UNCHANGED <<users, keys, lastKey, buried>>

\* keepCopy: the file is read, and .before-rotate cut to be written.
CopyPriv(p) ==
    /\ At(p, "rotate", "copy") /\ priv.is # "absent"
    /\ proc' = [proc EXCEPT ![p].file = priv, ![p].at = "save"]
    /\ rotated' = Cut(0)
    /\ UNCHANGED <<users, priv, inited, runs, history>>

\* Mutant: the copy is of the new key.
SaveCopy_OfTheNew(p) ==
    /\ At(p, "rotate", "save") /\ Go(p, "read")
    /\ rotated' = Holding(proc[p].key)
    /\ UNCHANGED <<users, priv, inited, runs, history>>

SaveCopy(p) ==
    /\ At(p, "rotate", "save") /\ Go(p, "read")
    /\ rotated' = proc[p].file
    /\ UNCHANGED <<users, priv, inited, runs, history>>

\* SetFeedKey: the file is read again and edited - an empty one is started
\* afresh - and a temporary one moved over it.
ReadPriv(p) ==
    /\ At(p, "rotate", "read") /\ priv.is # "absent" /\ Go(p, "replace")
    /\ UNCHANGED <<users, keys, runs, history>>

ReplacePriv(p) ==
    /\ At(p, "rotate", "replace") /\ Rename(p, "done")
    /\ Becomes([is |-> proc[p].temp, key |-> proc[p].key])
    /\ UNCHANGED <<users, rotated, inited, runs, buried, overlapped>>

\* keepPrevious, with --force: what is there is moved aside.
KeepPrevious ==
    IF priv.is = "absent" THEN UNCHANGED <<keys, lastKey, buried>>
    ELSE /\ inited' = priv /\ Becomes(NoFile) /\ UNCHANGED rotated
         /\ buried' = (buried \/ priv.is = "cut")

\* init-privileged: a key is drawn, and room made for the file that holds it.
StartInit(p) ==
    /\ Start(p, [Idle EXCEPT !.cmd = "init", !.at = "create", !.key = NewKey])
    /\ Overlaps(p) /\ KeepPrevious
    /\ UNCHANGED users

\* The new file is created, which fails when there is one, and then written.
CreatePriv(p) ==
    /\ At(p, "init", "create") /\ priv.is = "absent" /\ Go(p, "write")
    /\ Becomes(Cut(proc[p].key))
    /\ UNCHANGED <<users, rotated, inited, runs, buried, overlapped>>

\* What is written is the file that was created, wherever it is by now: at its
\* name, moved aside by another init, or replaced by a rotation.
WritePriv(p) ==
    /\ At(p, "init", "write") /\ Go(p, "done")
    /\ LET mine == Cut(proc[p].key)
       IN  /\ IF priv = mine THEN Becomes(Holding(proc[p].key)) ELSE UNCHANGED <<priv, lastKey>>
           /\ inited' = IF inited = mine THEN Holding(proc[p].key) ELSE inited
    /\ UNCHANGED <<users, rotated, runs, buried, overlapped>>

-----------------------------------------------------------------------------
\* backup: what there is is listed, and put in the archive one file after the
\* other, as it is by then: one that has gone since fails it, and an archive that
\* fails is removed.  doc, file and files are what is listed, then what it holds.

StartBackup(p) ==
    /\ Loads
    /\ Start(p, [Idle EXCEPT !.cmd = "backup", !.at = "gather"])
    /\ UNCHANGED <<users, keys, history>>

\* gather: what is not there, the privileged file too, is left out; with nothing
\* to list there is no archive.
Gather(p) ==
    /\ At(p, "backup", "gather")
    /\ config.is # "absent" \/ priv.is # "absent" \/ \E t \in Tunnels : conf[t] # "absent"
    /\ proc' = [proc EXCEPT ![p].doc = config, ![p].file = priv, ![p].files = conf, ![p].at = "copy"]
    /\ UNCHANGED <<users, keys, runs, history>>

AddConfig(p) ==
    /\ At(p, "backup", "copy")
    /\ proc[p].doc.is # "absent" => config.is # "absent"
    /\ proc' = [proc EXCEPT ![p].doc = IF @.is = "absent" THEN @ ELSE config, ![p].at = "add"]
    /\ UNCHANGED <<users, keys, runs, history>>

\* Mutant: the privileged file is left out.
AddPriv_Never(p) ==
    /\ At(p, "backup", "add")
    /\ proc' = [proc EXCEPT ![p].file = NoFile, ![p].at = "bodies"]
    /\ UNCHANGED <<users, keys, runs, history>>

AddPriv(p) ==
    /\ At(p, "backup", "add")
    /\ proc[p].file.is # "absent" => priv.is # "absent"
    /\ proc' = [proc EXCEPT ![p].file = IF @.is = "absent" THEN @ ELSE priv, ![p].at = "bodies"]
    /\ UNCHANGED <<users, keys, runs, history>>

\* Nothing removes a .conf file; one that is being imported is archived cut.
AddConfs(p) ==
    /\ At(p, "backup", "bodies")
    /\ proc' = [proc EXCEPT
          ![p].files = [t \in Tunnels |-> IF @[t] = "absent" THEN "absent" ELSE conf[t]], ![p].at = "done"]
    /\ UNCHANGED <<users, keys, runs, history>>

Next ==
    \/ \E p \in Processes : Stop(p)
    \/ \E p \in Processes : CreateTemp(p) \/ FillTemp(p)
    \/ \E p \in Processes, t \in Tunnels : StartImport(p, t)
    \/ \E p \in Processes : CreateConf(p) \/ WriteConf(p)
    \/ \E p \in Processes : CopyConfig(p) \/ SaveConfig(p) \/ ReadConfig(p) \/ ReplaceConfig(p)
    \/ Edit
    \/ \E p \in Processes : StartRotate(p) \/ CopyPriv(p) \/ SaveCopy(p) \/ ReadPriv(p) \/ ReplacePriv(p)
    \/ \E p \in Processes : StartInit(p) \/ CreatePriv(p) \/ WritePriv(p)
    \/ \E p \in Processes : StartBackup(p) \/ Gather(p) \/ AddConfig(p) \/ AddPriv(p) \/ AddConfs(p)

Spec == Init /\ [][Next]_vars

-----------------------------------------------------------------------------
(***************************************************************************)
(* Properties.                                                             *)
(***************************************************************************)

\* Among the types: the user's configuration and its copy are there whole or not
\* at all, wherever a command is stopped (group.go:148-187, privdrop.go:98-140).
\* The privileged file is written under its own name, and may be cut short.
TypeOK ==
    /\ conf \in [Tunnels -> Presence] /\ config \in Doc /\ updated \in Doc
    /\ priv \in Privileged /\ rotated \in Privileged /\ inited \in Privileged
    /\ proc \in [Processes -> Command] /\ runs \in 0..MaxRuns /\ lastKey \in Keys
    /\ buried \in BOOLEAN /\ overlapped \in BOOLEAN

\* A name in the group all has its file: the file is written before the group is
\* changed, so stopping an import in between leaves a file that no group names,
\* and never a name that "down all" has no file for (import.go:70-110).
ListedIsWritten == \A t \in config.all : conf[t] # "absent"

\* A command that says it is done, and that no other command and no editor came
\* across, has done what it says.  An import has its file whole and added one
\* name to the configuration, whose copy is what it was before; a rotation has
\* its key in force and a copy of what it replaced; an init has its key in
\* force; an archive is the store (import.go:70-125, group.go:31-80,
\* feedkey.go:90-125, init.go:90-125, backup.go:45-150).  Two at once can lose a
\* name, a key or an edit: files are read and replaced without a lock.
ReportsAreTrue ==
    \A p \in Processes : proc[p].at = "done" /\ proc[p].alone =>
        LET c == proc[p]
        IN  CASE c.cmd = "import" ->
                    /\ conf[c.tunnel] = "whole" /\ config.is = "whole"
                    /\ config.all = c.doc.all \cup {c.tunnel} /\ config.edit = c.doc.edit
                    /\ c.doc.is = "whole" => updated = c.doc
              [] c.cmd = "rotate" -> priv = Holding(c.key) /\ rotated = c.file
              [] c.cmd = "init" -> priv = Holding(c.key)
              [] c.cmd = "backup" -> c.doc = config /\ c.file = priv /\ c.files = conf

\* The keys that some file holds.
Held == {f.key : f \in {g \in {priv, rotated, inited} : g.is = "whole"}}

\* The key clients have pinned is not lost: until another takes its place some
\* file holds it, and when another does, one of the copies does, wherever the
\* commands before were stopped (feedkey.go:60-125, init.go:73-170).  Two
\* disasters excepted: an init --force after one that was stopped moves the
\* unfinished file over the copy of the key, and of two rotations at once the
\* second replaces a key neither has copied.
KeysAreKept ==
    [][lastKey # 0 /\ ~buried' /\ (lastKey' = lastKey \/ ~overlapped') => lastKey \in Held']_vars
=============================================================================
