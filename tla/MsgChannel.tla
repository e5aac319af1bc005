----------------------------- MODULE MsgChannel ------------------------------
(***************************************************************************)
(* What a length-prefixed message connection promises, without the bytes: *)
(* a writer hands whole messages to the connection one call at a time and *)
(* learns whether each was accepted; the reader gets the accepted messages *)
(* whole and in order, and fails only once the connection has broken and *)
(* nothing complete is left to read.  A message too large for the framing *)
(* is refused without touching the connection.                            *)
(***************************************************************************)
EXTENDS Naturals, Sequences

CONSTANTS
    Payloads,        \* the messages a writer may pass
    MaxMessageSize,  \* the largest length the framing carries
    MaxWrites        \* number of write calls checked

VARIABLES
    queue,    \* messages on the connection that the reader has not taken
    got,      \* messages the reader has returned, in order
    results,  \* the outcome of every finished write call, in call order
    broken,   \* the connection has failed
    rfailed,  \* the reader has returned an error
    call      \* the write call in progress: its message and how far it got

vars == <<queue, got, results, broken, rfailed, call>>

Results == {"ok", "too_large", "error"}
CallStates == {"idle", "writing", "transmitted"}

TypeOK ==
    /\ queue \in Seq(Payloads)
    /\ got \in Seq(Payloads)
    /\ results \in Seq(Results)
    /\ broken \in BOOLEAN
    /\ rfailed \in BOOLEAN
    /\ call \in [m : Payloads \cup {<<>>}, state : CallStates]

Init ==
    /\ queue = <<>>
    /\ got = <<>>
    /\ results = <<>>
    /\ broken = FALSE
    /\ rfailed = FALSE
    /\ call = [m |-> <<>>, state |-> "idle"]

\* A call starts: an oversized message is refused at once; any other one is
\* being written, and may reach the connection in the same step.
Call(m) ==
    /\ call.state = "idle"
    /\ Len(results) < MaxWrites
    /\ IF Len(m) > MaxMessageSize
         THEN /\ results' = Append(results, "too_large")
              /\ UNCHANGED <<queue, call>>
         ELSE \/ /\ call' = [m |-> m, state |-> "writing"]
                 /\ UNCHANGED queue
              \/ /\ call' = [m |-> m, state |-> "transmitted"]
                 /\ queue' = Append(queue, m)
              /\ UNCHANGED results
    /\ UNCHANGED <<got, broken, rfailed>>

\* The message being written is now wholly on the connection.
Transmit ==
    /\ call.state = "writing"
    /\ queue' = Append(queue, call.m)
    /\ call' = [call EXCEPT !.state = "transmitted"]
    /\ UNCHANGED <<got, results, broken, rfailed>>

\* The connection fails under a call that has not transmitted its message.
Fail ==
    /\ call.state = "writing"
    /\ broken' = TRUE
    /\ results' = Append(results, "error")
    /\ call' = [m |-> <<>>, state |-> "idle"]
    /\ UNCHANGED <<queue, got, rfailed>>

Return ==
    /\ call.state = "transmitted"
    /\ results' = Append(results, "ok")
    /\ call' = [m |-> <<>>, state |-> "idle"]
    /\ UNCHANGED <<queue, got, broken, rfailed>>

Receive ==
    /\ ~rfailed
    /\ queue /= <<>>
    /\ got' = Append(got, Head(queue))
    /\ queue' = Tail(queue)
    /\ UNCHANGED <<results, broken, rfailed, call>>

ReceiveFail ==
    /\ ~rfailed
    /\ broken
    /\ queue = <<>>
    /\ rfailed' = TRUE
    /\ UNCHANGED <<queue, got, results, broken, call>>

Next ==
    \/ \E m \in Payloads : Call(m)
    \/ Transmit \/ Fail \/ Return \/ Receive \/ ReceiveFail

\* The reader keeps reading while a whole message is there to be read.
Spec == Init /\ [][Next]_vars /\ WF_vars(Receive)
====
