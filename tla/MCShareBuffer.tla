--------------------------- MODULE MCShareBuffer ----------------------------
(* Three shares, of which any can come in at any step of a flush.           *)
EXTENDS ShareBuffer

MCSubmissions == {1, 2, 3}
=============================================================================
