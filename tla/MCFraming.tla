----------------------------- MODULE MCFraming -----------------------------
(* Bytes 0 .. 3, so that a full COBS run has two bytes; every special byte *)
(* of every codec occurs inside payloads.  A read can hold two short SLIP  *)
(* frames with their leading ENDs, or one long frame.                      *)
EXTENDS Framing

MCCodecs   == AllCodecs
MCPayloads == {<<2>>, <<0, 3, 1>>}
MCNoise    == [c \in Codecs |-> IF c = "slip_lead" THEN {<<1>>, <<2>>, [i \in 1 .. 7 |-> 2]} ELSE {}]
SlipOnly   == {"slip_lead"}
=============================================================================
