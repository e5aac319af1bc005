------------------------------ MODULE Framing -------------------------------
(***************************************************************************)
(* ReadMsg and WriteMsg of node/message.go: one writer and one reader of a *)
(* byte stream, each message sent as a 4-byte little-endian length then   *)
(* the bytes.  Every io call of the two functions is a step, so the       *)
(* reader runs between the writer's header and payload writes.  The       *)
(* connection may fail under any write, after writing part of its bytes  *)
(* (io.Writer returns n < len(p) with an error); a failed connection      *)
(* stays failed, so later writes put nothing on it and the reader meets  *)
(* the end of the stream.                                                 *)
(***************************************************************************)
EXTENDS Naturals, Sequences, SequencesExt

CONSTANTS
    Payloads,        \* messages the writer is given, as byte sequences
    MaxMessageSize,  \* MaxMessageSize (10 << 20 in the code)
    MaxWrites        \* number of WriteMsg calls checked

VARIABLES
    wire,     \* bytes written and not yet read
    wpc,      \* where the writer is in WriteMsg
    wmsg,     \* the b argument of the WriteMsg call in progress
    results,  \* what every finished WriteMsg returned, in call order
    broken,   \* the connection has failed
    rpc,      \* where the reader is in ReadMsg
    rlen,     \* the length n ReadMsg decoded from the header
    got       \* the messages ReadMsg returned, in order

vars == <<wire, wpc, wmsg, results, broken, rpc, rlen, got>>

\* binary.LittleEndian.PutUint32(cb, uint32(n)); WriteMsg has checked
\* n <= MaxMessageSize < 2^32 first, so the conversion never truncates.
PutUint32(n) == [i \in 1..4 |-> (n \div 2^(8 * (i - 1))) % 256]

\* binary.LittleEndian.Uint32(cb)
Uint32(cb) == cb[1] + cb[2] * 2^8 + cb[3] * 2^16 + cb[4] * 2^24

Init ==
    /\ wire = <<>>
    /\ wpc = "idle"
    /\ wmsg = <<>>
    /\ results = <<>>
    /\ broken = FALSE
    /\ rpc = "header"
    /\ rlen = 0
    /\ got = <<>>

\* A write of bytes bs on the connection: all of them, or, when the
\* connection fails under it (or has failed), only a prefix and an error.
FailedWrite(bs) ==
    /\ \E k \in IF broken THEN {0} ELSE 0..(Len(bs) - 1) :
           wire' = wire \o SubSeq(bs, 1, k)
    /\ broken' = TRUE
    /\ results' = Append(results, "error")
    /\ wpc' = "idle"

\* Mutant of WriteMsgCall: the size check is missing.
WriteMsgCallUnchecked(b) ==
    /\ wpc = "idle"
    /\ Len(results) < MaxWrites
    /\ wpc' = "header"
    /\ wmsg' = b
    /\ UNCHANGED <<wire, results, broken, rpc, rlen, got>>

\* WriteMsg(w, b), up to its first write: the size check.
WriteMsgCall(b) ==
    /\ wpc = "idle"
    /\ Len(results) < MaxWrites
    /\ IF Len(b) > MaxMessageSize
         THEN /\ results' = Append(results, "too_large")
              /\ UNCHANGED <<wpc, wmsg>>
         ELSE /\ wpc' = "header"
              /\ wmsg' = b
              /\ UNCHANGED results
    /\ UNCHANGED <<wire, broken, rpc, rlen, got>>

\* n, err := w.Write(cb) with cb the encoded length.
WriteHeader ==
    /\ wpc = "header"
    /\ \/ /\ ~broken
          /\ wire' = wire \o PutUint32(Len(wmsg))
          /\ wpc' = "payload"
          /\ UNCHANGED <<results, broken>>
       \/ FailedWrite(PutUint32(Len(wmsg)))
    /\ UNCHANGED <<wmsg, rpc, rlen, got>>

\* n, err = w.Write(b); writing no bytes cannot fail.
WritePayload ==
    /\ wpc = "payload"
    /\ \/ /\ ~broken \/ wmsg = <<>>
          /\ wire' = wire \o wmsg
          /\ wpc' = "return"
          /\ UNCHANGED <<results, broken>>
       \/ /\ wmsg /= <<>>
          /\ FailedWrite(wmsg)
    /\ UNCHANGED <<wmsg, rpc, rlen, got>>

WriteMsgReturn ==
    /\ wpc = "return"
    /\ results' = Append(results, "ok")
    /\ wpc' = "idle"
    /\ UNCHANGED <<wire, wmsg, broken, rpc, rlen, got>>

\* Mutant of ReadHeader: the size check refuses a length at the bound.
ReadHeaderAtBound ==
    /\ rpc = "header"
    /\ Len(wire) >= 4
    /\ LET n == Uint32(SubSeq(wire, 1, 4))
       IN  IF n >= MaxMessageSize
             THEN /\ rpc' = "failed"
                  /\ UNCHANGED rlen
             ELSE /\ rpc' = "body"
                  /\ rlen' = n
    /\ wire' = SubSeq(wire, 5, Len(wire))
    /\ UNCHANGED <<wpc, wmsg, results, broken, got>>

\* io.ReadFull(r, cb) and the size check; a length over the bound fails.
ReadHeader ==
    /\ rpc = "header"
    /\ Len(wire) >= 4
    /\ LET n == Uint32(SubSeq(wire, 1, 4))
       IN  IF n > MaxMessageSize
             THEN /\ rpc' = "failed"
                  /\ UNCHANGED rlen
             ELSE /\ rpc' = "body"
                  /\ rlen' = n
    /\ wire' = SubSeq(wire, 5, Len(wire))
    /\ UNCHANGED <<wpc, wmsg, results, broken, got>>

\* io.ReadFull(r, b) with len(b) = n, and the return of b.
ReadBody ==
    /\ rpc = "body"
    /\ Len(wire) >= rlen
    /\ got' = Append(got, SubSeq(wire, 1, rlen))
    /\ wire' = SubSeq(wire, rlen + 1, Len(wire))
    /\ rpc' = "header"
    /\ UNCHANGED <<wpc, wmsg, results, broken, rlen>>

\* Either io.ReadFull reaches the end of a failed connection too early
\* (io.EOF or io.ErrUnexpectedEOF) and ReadMsg returns the error.
ReadEOF ==
    /\ rpc \in {"header", "body"}
    /\ broken
    /\ Len(wire) < IF rpc = "header" THEN 4 ELSE rlen
    /\ rpc' = "failed"
    /\ UNCHANGED <<wire, wpc, wmsg, results, broken, rlen, got>>

Next ==
    \/ \E b \in Payloads : WriteMsgCall(b)
    \/ WriteHeader \/ WritePayload \/ WriteMsgReturn
    \/ ReadHeader \/ ReadBody \/ ReadEOF

\* The reader goroutine reads whenever bytes are there; the writer is a
\* caller that may stop writing.
Spec == Init /\ [][Next]_vars /\ WF_vars(ReadHeader \/ ReadBody \/ ReadEOF)

-----------------------------------------------------------------------------
\* The state has its type; a message on its way to the connection is one
\* WriteMsg's size check let through.
TypeOK ==
    /\ wire \in Seq(0..255)
    /\ wpc \in {"idle", "header", "payload", "return"}
    /\ wmsg \in {m \in Payloads : Len(m) <= MaxMessageSize} \cup {<<>>}
    /\ results \in Seq({"ok", "too_large", "error"})
    /\ broken \in BOOLEAN
    /\ rpc \in {"header", "body", "failed"}
    /\ rlen \in 0..MaxMessageSize
    /\ got \in Seq(Seq(0..255))

\* The whole messages in a byte stream, ignoring an incomplete last frame.
RECURSIVE Frames(_)
Frames(bs) ==
    IF Len(bs) < 4 THEN <<>>
    ELSE LET n == Uint32(SubSeq(bs, 1, 4))
         IN  IF Len(bs) < 4 + n THEN <<>>
             ELSE <<SubSeq(bs, 5, 4 + n)>> \o Frames(SubSeq(bs, 5 + n, Len(bs)))

\* Refinement mapping.  The reader's consumed header counts as still on the
\* connection until it has read the body; the writer's call has reached the
\* connection once its payload write is done, or at once for an empty one.
Unread == (IF rpc = "body" THEN PutUint32(rlen) ELSE <<>>) \o wire

CallState ==
    CASE wpc = "idle" -> "idle"
      [] wpc = "return" \/ (wpc = "payload" /\ wmsg = <<>>) -> "transmitted"
      [] OTHER -> "writing"

Abs == INSTANCE MsgChannel WITH
           queue <- Frames(Unread),
           rfailed <- (rpc = "failed"),
           call <- [m |-> IF wpc = "idle" THEN <<>> ELSE wmsg,
                    state |-> CallState]

\* (WriteMsg, ReadMsg) The two functions implement a message connection:
\* ReadMsg returns exactly the messages WriteMsg accepted, whole and in
\* order, fails only after the connection broke with nothing whole left,
\* and keeps reading while whole messages wait; WriteMsg refuses only what
\* exceeds MaxMessageSize.
ImplementsMsgChannel == Abs!Spec
====
