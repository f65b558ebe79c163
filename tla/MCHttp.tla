-------------------------------- MODULE MCHttp --------------------------------
(***************************************************************************)
(* Values for TLC: an exchange on any surface and one beside it that asks  *)
(* the same provider; as many events as it takes for a whole call and a    *)
(* malformed one, or for text before and after a call, in one reply.       *)
(***************************************************************************)
EXTENDS HttpExchange

CONSTANTS r1, r2
MCAsks == ({r1} \X {"chat", "responses", "anthropic"} \X BOOLEAN)
            \cup {<<r2, "chat", FALSE>>}
===============================================================================
