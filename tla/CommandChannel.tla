--------------------------- MODULE CommandChannel ---------------------------
(***************************************************************************)
(* A CLI command (runGet of cmd/hop/cli/get.go, or runStatus) talking to  *)
(* the daemon through CommandClient and CommandServer of node/message.go, *)
(* over two connections framed by WriteMsg and ReadMsg: commands to the   *)
(* daemon and notifications back, each an instance of Framing, so every   *)
(* io call of the framing interleaves with the goroutines of both ends    *)
(* and a connection may fail under a write.  A message's JSON text is     *)
(* abstracted to one byte naming it (the encoding is injective and no     *)
(* property depends on its layout).  The daemon's node.Get and            *)
(* node.Status are outside this tree; they are the environment, reporting *)
(* through CommandServer.send what a get or a status produced.            *)
(***************************************************************************)
EXTENDS Naturals, Sequences

CONSTANT CLICommands  \* the commands a CLI process may run: "get", "status"

VARIABLES
    cli,      \* the CLI's main goroutine: its command, pc and what it returned
    getg,     \* the daemon's Get goroutine
    reported, \* the outcome the daemon has reported, or "none"
    served,   \* commands the daemon's read loop has handled
    recv,     \* the CLI's receive goroutine: reading, or blocked in the callback
    nread,    \* notifications the receive goroutine has handled
    chbuf,    \* grc (unbuffered) or src (buffer of one) between them
    cwire, cwpc, cwmsg, cresults, cbroken, crpc, crlen, cgot,  \* commands
    nwire, nwpc, nwmsg, nresults, nbroken, nrpc, nrlen, ngot   \* notifications

cmdConn == <<cwire, cwpc, cwmsg, cresults, cbroken, crpc, crlen, cgot>>
notConn == <<nwire, nwpc, nwmsg, nresults, nbroken, nrpc, nrlen, ngot>>
vars == <<cli, getg, reported, served, recv, nread, chbuf, cmdConn, notConn>>

\* The fields of Command in the order GotMsg tests them; a Command is the
\* set of its non-nil fields.
CommandFields == <<"Ping", "Add", "Status", "Pack", "Quote", "Push", "Get">>

\* The fields of Notify the CLI callbacks look at, and the outcomes.
GetOutcomes == {"deal", "ok", "err"}
StatusOutcomes == {"clean", "output", "err"}

\* The one-byte text of each message, and its json.Unmarshal.
CmdCode(cmd) == IF cmd = {"Get"} THEN 1 ELSE 2
CmdOf(b) == IF b = 1 THEN {"Get"} ELSE {"Status"}
NoteCode(field, r) ==
    (IF field = "GetResult" THEN 10 ELSE 20)
    + (CASE r = "deal" -> 0 [] r = "ok" -> 1 [] r = "clean" -> 1
         [] r = "output" -> 2 [] OTHER -> 3)
NoteOf(b) ==
    [field |-> IF b < 20 THEN "GetResult" ELSE "StatusResult",
     r |-> CASE b = 10 -> "deal" [] b = 11 -> "ok" [] b = 21 -> "clean"
              [] b = 22 -> "output" [] OTHER -> "err"]

CmdPayloads == {<<1>>, <<2>>}
NotePayloads == {<<b>> : b \in {10, 11, 13, 21, 22, 23}}

Cmd == INSTANCE Framing WITH
           Payloads <- CmdPayloads, MaxMessageSize <- 1, MaxWrites <- 1,
           wire <- cwire, wpc <- cwpc, wmsg <- cwmsg, results <- cresults,
           broken <- cbroken, rpc <- crpc, rlen <- crlen, got <- cgot
Note == INSTANCE Framing WITH
           Payloads <- NotePayloads, MaxMessageSize <- 1, MaxWrites <- 2,
           wire <- nwire, wpc <- nwpc, wmsg <- nwmsg, results <- nresults,
           broken <- nbroken, rpc <- nrpc, rlen <- nrlen, got <- ngot

\* CommandServer.send: json.Marshal, then sendNotifyMsg writes it with
\* WriteMsg; the call's io steps are the Note writer's.
Send(field, r) == Note!WriteMsgCall(<<NoteCode(field, r)>>)

Init ==
    /\ cli \in [pc : {"start"}, out : {"none"}, cmd : CLICommands]
    /\ getg = "none"
    /\ reported = "none"
    /\ served = 0
    /\ recv = [pc |-> "reading", n |-> [field |-> "none", r |-> "none"]]
    /\ nread = 0
    /\ chbuf = <<>>
    /\ Cmd!Init
    /\ Note!Init

\* runGet / runStatus up to the select: install the notify callback, start
\* receive, and cc.Get or cc.Status, which marshals the Command and hands
\* it to sendCommandMsg, i.e. to WriteMsg.
RunStart ==
    /\ cli.pc = "start"
    /\ Cmd!WriteMsgCall(<<CmdCode({IF cli.cmd = "get" THEN "Get" ELSE "Status"})>>)
    /\ cli' = [cli EXCEPT !.pc = "waiting"]
    /\ UNCHANGED <<getg, reported, served, recv, nread, chbuf, notConn>>

\* The rest of a WriteMsg call on either connection.
CmdWrite ==
    /\ Cmd!WriteHeader \/ Cmd!WritePayload \/ Cmd!WriteMsgReturn
    /\ UNCHANGED <<cli, getg, reported, served, recv, nread, chbuf, notConn>>
NoteWrite ==
    /\ Note!WriteHeader \/ Note!WritePayload \/ Note!WriteMsgReturn
    /\ UNCHANGED <<cli, getg, reported, served, recv, nread, chbuf, cmdConn>>

\* The daemon's read loop: ReadMsg, once the last command is handled.
DaemonRead ==
    /\ served = Len(cgot)
    /\ Cmd!ReadHeader \/ Cmd!ReadBody \/ Cmd!ReadEOF
    /\ UNCHANGED <<cli, getg, reported, served, recv, nread, chbuf, notConn>>

\* GotMsgBytes on the message read: an empty one is ignored, the others
\* unmarshalled; GotMsg runs the first non-nil field, Push and Get in a new
\* goroutine, the others (Status: node.Status sends its result) before the
\* next command is read.
ServerGotMsg ==
    /\ served < Len(cgot)
    /\ served' = served + 1
    /\ LET b == cgot[served + 1]
           cmd == IF b = <<>> THEN {} ELSE CmdOf(b[1])
           set == {i \in DOMAIN CommandFields : CommandFields[i] \in cmd}
           f == IF set = {} THEN "none"
                ELSE CommandFields[CHOOSE i \in set : \A j \in set : i <= j]
       IN  CASE f = "Get" ->
                  /\ getg' = "running"
                  /\ UNCHANGED <<reported, notConn>>
             [] f = "Status" ->
                  \E r \in StatusOutcomes :
                      /\ reported' = r
                      /\ Send("StatusResult", r)
                      /\ UNCHANGED getg
             [] OTHER -> UNCHANGED <<getg, reported, notConn>>
    /\ UNCHANGED <<cli, recv, nread, chbuf, cmdConn>>

\* node.Get, in its goroutine: a GetResult with the deal id once the deal
\* starts, then the final GetResult, or a GetResult with Err at any point;
\* each send returns before the next.
DaemonGetReport ==
    /\ getg \in {"running", "dealt"}
    /\ \E r \in GetOutcomes :
          /\ r = "deal" => getg = "running"
          /\ getg' = IF r = "deal" THEN "dealt" ELSE "done"
          /\ reported' = IF r = "deal" THEN reported ELSE r
          /\ Send("GetResult", r)
    /\ UNCHANGED <<cli, served, recv, nread, chbuf, cmdConn>>

\* The CLI's receive goroutine: ReadMsg, once the callback has returned.
ClientRead ==
    /\ recv.pc = "reading"
    /\ nread = Len(ngot)
    /\ Note!ReadHeader \/ Note!ReadBody \/ Note!ReadEOF
    /\ UNCHANGED <<cli, getg, reported, served, recv, nread, chbuf, cmdConn>>

\* Mutant of ClientGotNotifyMsg: the callback tests the other Notify field.
ClientGotNotifyMsgWrongField ==
    /\ recv.pc = "reading"
    /\ nread < Len(ngot)
    /\ nread' = nread + 1
    /\ LET b == ngot[nread + 1]
           wanted == IF cli.cmd = "get" THEN "StatusResult" ELSE "GetResult"
       IN  recv' = IF b /= <<>> /\ NoteOf(b[1]).field = wanted
                     THEN [pc |-> "sending", n |-> NoteOf(b[1])] ELSE recv
    /\ UNCHANGED <<cli, getg, reported, served, chbuf, cmdConn, notConn>>

\* GotNotifyMsg on the message read: an empty one is ignored, the others
\* unmarshalled and given to the callback: runGet's keeps only GetResults,
\* runStatus's only StatusResults.
ClientGotNotifyMsg ==
    /\ recv.pc = "reading"
    /\ nread < Len(ngot)
    /\ nread' = nread + 1
    /\ LET b == ngot[nread + 1]
           wanted == IF cli.cmd = "get" THEN "GetResult" ELSE "StatusResult"
       IN  recv' = IF b /= <<>> /\ NoteOf(b[1]).field = wanted
                     THEN [pc |-> "sending", n |-> NoteOf(b[1])] ELSE recv
    /\ UNCHANGED <<cli, getg, reported, served, chbuf, cmdConn, notConn>>

\* The callback's send on src, which holds one; the send on grc, which has
\* no buffer, is GetRecv.
CallbackSend ==
    /\ cli.cmd = "status"
    /\ recv.pc = "sending"
    /\ chbuf = <<>>
    /\ chbuf' = <<recv.n.r>>
    /\ recv' = [recv EXCEPT !.pc = "reading"]
    /\ UNCHANGED <<cli, getg, reported, served, nread, cmdConn, notConn>>

\* Mutant of GetRecv: the loop has no continue, so a DealID ends it.
GetRecvNoContinue ==
    /\ cli.cmd = "get"
    /\ cli.pc = "waiting"
    /\ recv.pc = "sending"
    /\ recv' = [recv EXCEPT !.pc = "reading"]
    /\ cli' = IF recv.n.r = "err" THEN [cli EXCEPT !.pc = "done", !.out = "err"]
              ELSE [cli EXCEPT !.pc = "done", !.out = "ok"]
    /\ UNCHANGED <<getg, reported, served, nread, chbuf, cmdConn, notConn>>

\* runGet's select takes gr from grc, in one step with the callback's send:
\* an Err returns it, a DealID is printed and the loop goes on, anything
\* else is the completed get.
GetRecv ==
    /\ cli.cmd = "get"
    /\ cli.pc = "waiting"
    /\ recv.pc = "sending"
    /\ recv' = [recv EXCEPT !.pc = "reading"]
    /\ cli' = CASE recv.n.r = "err"  -> [cli EXCEPT !.pc = "done", !.out = "err"]
                [] recv.n.r = "deal" -> cli
                [] OTHER             -> [cli EXCEPT !.pc = "done", !.out = "ok"]
    /\ UNCHANGED <<getg, reported, served, nread, chbuf, cmdConn, notConn>>

\* runStatus's select takes sr from src: an Err, an empty Output (the
\* working DAG is clean) or the staged files.
StatusRecv ==
    /\ cli.cmd = "status"
    /\ cli.pc = "waiting"
    /\ chbuf /= <<>>
    /\ cli' = [cli EXCEPT !.pc = "done", !.out = Head(chbuf)]
    /\ chbuf' = <<>>
    /\ UNCHANGED <<getg, reported, served, recv, nread, cmdConn, notConn>>

\* The select's other case: ctx is cancelled (the user interrupts).
CtxDone ==
    /\ cli.pc = "waiting"
    /\ cli' = [cli EXCEPT !.pc = "done", !.out = "interrupted"]
    /\ UNCHANGED <<getg, reported, served, recv, nread, chbuf, cmdConn, notConn>>

Next ==
    \/ RunStart \/ CmdWrite \/ DaemonRead \/ ServerGotMsg \/ DaemonGetReport
    \/ NoteWrite \/ ClientRead \/ ClientGotNotifyMsg \/ CallbackSend
    \/ GetRecv \/ StatusRecv \/ CtxDone

\* Every goroutine runs when it can, and the daemon's node.Get eventually
\* reports; the user's interrupt is not assumed.
Fairness ==
    /\ WF_vars(RunStart) /\ WF_vars(CmdWrite) /\ WF_vars(DaemonRead)
    /\ WF_vars(ServerGotMsg) /\ WF_vars(DaemonGetReport) /\ WF_vars(NoteWrite)
    /\ WF_vars(ClientRead) /\ WF_vars(ClientGotNotifyMsg)
    /\ WF_vars(CallbackSend) /\ WF_vars(GetRecv) /\ WF_vars(StatusRecv)

Spec == Init /\ [][Next]_vars /\ Fairness

-----------------------------------------------------------------------------
TypeOK ==
    /\ cli.pc \in {"start", "waiting", "done"}
    /\ getg \in {"none", "running", "dealt", "done"}
    /\ served \in 0..Len(cgot)
    /\ recv.pc \in {"reading", "sending"}
    /\ nread \in 0..Len(ngot)
    /\ Len(chbuf) <= 1
    /\ Cmd!TypeOK
    /\ Note!TypeOK

\* (runGet, runStatus) What the CLI command returns is what the daemon
\* reported for it: a get that returned success was completed by the
\* daemon, not merely started, and an error the CLI returns is the
\* daemon's error, even when a connection fails in the middle of a frame.
CLIReportsDaemonOutcome ==
    cli.out \in GetOutcomes \cup StatusOutcomes => cli.out = reported

\* (runGet, runStatus) Unless a connection fails, the command returns
\* without the user interrupting it.
CommandReturns == <>(cli.pc = "done" \/ cbroken \/ nbroken)
====
