-------------------------- MODULE MCShellServices ---------------------------
(* The two services that answer the shell one request at a time: graphics,   *)
(* with pages of two cells and requests that make and undo small resources,  *)
(* and files, with queues of one entry and a few commands.                   *)
EXTENDS GpuSystem

CONSTANTS MaxTransfers, MaxCommands, Errors

VARIABLES part,    \* which of the two this behaviour is about
          q, badge, hand, sticky, waits, pc, id, wakes, serving, left, ok, moved, missed, lost

Fs == INSTANCE FsSystem

fsVars == <<q, badge, hand, sticky, waits, pc, id, wakes, serving, left, ok, moved, missed, lost>>

Dot == [x |-> 0, y |-> 0, w |-> 1, h |-> 1]
MCLone == { Request("create", <<1, 1>>), Request("attach", <<0, 1>>), Request("attach", <<0, 2>>),
            Request("detach", 0), Request("unref", 0), Request("transfer", <<Dot, 1>>),
            Request("flush", [Dot EXCEPT !.w = 3]), Request("blob", 0) }

Runs == /\ \/ part = "graphics" /\ left = 0 /\ Init /\ Fs!Init
           \/ part = "files" /\ Init /\ Fs!Init
        /\ [][/\ part' = part
              /\ \/ part = "graphics" /\ Next /\ UNCHANGED fsVars
                 \/ part = "files" /\ Fs!Next /\ UNCHANGED vars]_<<part, vars, fsVars>>
        /\ WF_fsVars(part = "files" /\ Fs!ClientSteps) /\ WF_fsVars(part = "files" /\ Fs!FatfsSteps)
        /\ WF_fsVars(part = "files" /\ Fs!VirtSteps) /\ WF_fsVars(part = "files" /\ Fs!DriverSteps)

\* Type correctness of both paths.
TypeCorrect == TypeOK /\ Fs!TypeOK

\* One exchange, one owner: every wake of exchange finds its completion, fatfs touches
\* the share only inside the client's exchange, and one block transfer is in flight
\* with no response dropped (NoMiss, ShareOwned, OneTransfer of FsSystem).
OneExchange == Fs!NoMiss /\ Fs!ShareOwned /\ Fs!OneTransfer

\* Every command is answered while the worker of fatfs lives (FsSystem).
Answered == Fs!Answered
=============================================================================
