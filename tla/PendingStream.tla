---------------------------- MODULE PendingStream ----------------------------
(***************************************************************************)
(* What the rest of the bot assumes of the websocket behind its pending    *)
(* feed: opened once, it is connecting until the handshake succeeds, and   *)
(* a lost connection is being replaced until it is open again. These are   *)
(* the steps the module Builder gives its variable ws before the bot       *)
(* closes the feed. Once close() has begun nothing is promised.            *)
(***************************************************************************)
VARIABLE conn

Conn == {"closed", "connecting", "open", "reconnecting", "released"}

StreamInit == conn = "closed"

Open == conn = "closed" /\ conn' = "connecting"

Accept == conn \in {"connecting", "reconnecting"} /\ conn' = "open"

Lose == conn \in {"connecting", "open"} /\ conn' = "reconnecting"

Release == conn # "released" /\ conn' = "released"

StreamNext == Open \/ Accept \/ Lose \/ Release

StreamSpec == StreamInit /\ [][StreamNext]_conn
=============================================================================
