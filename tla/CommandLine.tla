---------------------------- MODULE CommandLine ----------------------------
(***************************************************************************)
(* The commands up and down: one read of the system, a plan, and its steps *)
(* one after the other, under a context an interrupt cancels.              *)
(*                                                                         *)
(* A command is a program of its own: it reads the machine as TunnelView   *)
(* does, in the place of the interface, and its wg-quick is one of those   *)
(* that change the machine there.                                          *)
(***************************************************************************)
EXTENDS TunnelView

\* commands: what may be typed, a verb with names or with a group, where the
\* interface does not run.
ASSUME CommandsAssumption ==
    \A s \in Setups :
        /\ "commands" \in DOMAIN s
        /\ "read" \in s.does => s.commands = {}
        /\ \A typed \in s.commands : typed.verb \in {"up", "down"} /\ typed.names \in Seq(TunnelNames)

VARIABLE
    command         \* the command that runs

NoCommand == [at |-> "none", typed |-> [verb |-> "", group |-> "", names |-> <<>>], names |-> <<>>,
              steps |-> <<>>, results |-> <<>>, cancelled |-> FALSE, alone |-> TRUE, exit |-> ""]

Stands == UNCHANGED <<setup, view, cursor, probing, graph>>
Quiet == UNCHANGED <<machine, traffic>>

CommandInit == Init /\ command = NoCommand

-----------------------------------------------------------------------------
\* runUp, runDown and act: what to run was typed, and the machine is read.
Call ==
    /\ command = NoCommand
    /\ \E typed \in setup.commands :
          command' = [NoCommand EXCEPT !.at = "viewing", !.typed = typed]
    /\ BeginRead

\* The names typed, or the members of the group in the network just read.
Names ==
    IF command.typed.group = "" THEN command.typed.names
    ELSE Members(command.typed.group, read.context)

RowOf(t) == CHOOSE row \in Range(read.rows) : row.tunnel = t
Known == {row.tunnel : row \in Range(read.rows)}

\* Unknown: a name without a row refuses the command, typed or of a group,
\* except that of a group to bring down.
Refuses ==
    /\ \E t \in Range(Names) : t \notin Known
    /\ command.typed.verb = "down" => command.typed.group = ""

\* Mutant: a tunnel without a recent handshake is not brought down.
PlanOf_OnlyUp ==
    Only(Names, {t \in Known :
        RowOf(t).health = IF command.typed.verb = "up" THEN "down" ELSE "up"})

\* PlanUp and PlanDown: the names, in their order, that are down or are not.
PlanOf ==
    Only(Names, {t \in Known :
        command.typed.verb = IF RowOf(t).health = "down" THEN "up" ELSE "down"})

\* Up, UpGroup, Down and DownAll, once App.View is back.
TakeView ==
    /\ command.at = "viewing" /\ read.at \in {"done", "failed"} /\ read' = NoRead
    /\ command' =
          IF read.at = "failed" \/ Refuses
          THEN [command EXCEPT !.at = "over", !.exit = "failed"]
          ELSE [command EXCEPT !.at = "next", !.names = Names, !.steps = PlanOf]
    /\ Stands /\ Quiet

-----------------------------------------------------------------------------
\* runInOrder: one step at a time.

Step == Head(command.steps)
Ends(result) ==
    command' = [command EXCEPT !.at = "next", !.steps = Tail(@), !.results = Append(@, result)]

\* Controller.Up: the check address answers already.
Skip ==
    /\ command.at = "next" /\ command.steps # <<>> /\ ~command.cancelled
    /\ command.typed.verb = "up" /\ Conf(Step).check # ""
    /\ Ends(<<Step, "skipped">>)
    /\ UNCHANGED read /\ Stands /\ Quiet

\* The binary is refused, or the context is over before it is run.
RefuseToRun ==
    /\ command.at = "next" /\ command.steps # <<>>
    /\ Ends(<<Step, "failed">>)
    /\ UNCHANGED read /\ Stands /\ Quiet

RunWgQuick ==
    /\ command.at = "next" /\ command.steps # <<>> /\ ~command.cancelled
    /\ command' = [command EXCEPT !.at = "running"]
    /\ UNCHANGED read /\ Stands /\ Quiet

Changes(t) == IF command.typed.verb = "up" THEN BringUp(t) ELSE BringDown(t)

WgQuickEnds ==
    /\ command.at = "running" /\ Changes(Step) /\ Ends(<<Step, "ok">>)
    /\ UNCHANGED read /\ Stands

\* It fails, as it does on a tunnel that is already what it is asked to become,
\* or is killed, whatever it has done by then.
WgQuickFails ==
    /\ command.at = "running" /\ Ends(<<Step, "failed">>)
    /\ Quiet \/ (command.cancelled /\ Changes(Step))
    /\ UNCHANGED read /\ Stands

\* signalled: the interrupt is heard once the application is built.
Interrupt ==
    /\ command.at \in {"viewing", "next", "running"} /\ ~command.cancelled
    /\ command' = [command EXCEPT !.cancelled = TRUE]
    /\ UNCHANGED read /\ Stands /\ Quiet

-----------------------------------------------------------------------------
Failed(i) == command.results[i][2] = "failed"

\* Mutant: the last result decides.
WriteResults_TheLast ==
    /\ command.at = "next" /\ command.steps = <<>>
    /\ \E exit \in {"ok", "failed"} :
          /\ exit = "failed" \/ \A i \in DOMAIN command.results :
                i = Len(command.results) => ~Failed(i)
          /\ command' = [command EXCEPT !.at = "over", !.exit = exit]
    /\ UNCHANGED read /\ Stands /\ Quiet

\* WriteResults: an error when a step failed, or nobody reads the report.
WriteResults ==
    /\ command.at = "next" /\ command.steps = <<>>
    /\ \E exit \in {"ok", "failed"} :
          /\ exit = "failed" \/ \A i \in DOMAIN command.results : ~Failed(i)
          /\ command' = [command EXCEPT !.at = "over", !.exit = exit]
    /\ UNCHANGED read /\ Stands /\ Quiet

\* The process is gone, and with it what it knew.
Exit ==
    /\ command.at = "over" /\ command' = NoCommand
    /\ UNCHANGED read /\ Stands /\ Quiet

\* What the machine does meanwhile: a command that something moved under is no
\* longer alone.
Meanwhile ==
    /\ Next
    /\ command' = IF command = NoCommand THEN command
                  ELSE [command EXCEPT !.alone = @ /\ machine' = machine]

CommandNext ==
    \/ Meanwhile
    \/ Call \/ TakeView
    \/ Skip \/ RefuseToRun \/ RunWgQuick \/ WgQuickEnds \/ WgQuickFails \/ Interrupt
    \/ WriteResults \/ Exit

CommandSpec == CommandInit /\ [][CommandNext]_<<vars, command>>

-----------------------------------------------------------------------------
\* A command that exits 0, and that nothing came across, has done what it was
\* asked, interrupted or not, and whatever its steps met: every name of it has
\* the state asked for, or had its check address answer before - with the one
\* exception of a group to bring down, where a name without a file is left out -
\* as long as tunnels can be told apart (main.go:790-858, app.go:175-229,
\* results.go:12-47, control.go:62-96).
SuccessIsTrue ==
    command.at = "over" /\ command.exit = "ok" /\ command.alone /\ TellsApart =>
        \A t \in Range(command.names) :
            \/ command.typed.verb = "down" /\ ~Up(t)
            \/ command.typed.verb = "up" /\ Up(t)
            \/ <<t, "skipped">> \in Range(command.results)
=============================================================================
