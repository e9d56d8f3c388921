------------------------------- MODULE MCClient -------------------------------
(* Two accounts on one device.  A tick is five minutes: a token lives an hour and *)
(* is renewed in its second half, by a poll every ten minutes.                     *)
EXTENDS Client

CONSTANTS u1, u2

===============================================================================
