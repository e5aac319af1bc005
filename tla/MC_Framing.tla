----------------------------- MODULE MC_Framing -----------------------------
(* ReadMsg and WriteMsg with MaxMessageSize scaled down to 2 bytes: the    *)
(* messages are empty, shorter than, at and over the bound, and one of    *)
(* them holds a byte that reads as a length when misaligned.              *)
EXTENDS Framing

MCPayloads == {<<>>, <<2>>, <<1, 0>>, <<3, 3, 3>>}
====
