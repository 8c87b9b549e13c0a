----------------------------- MODULE SessionSlot -----------------------------
(***************************************************************************)
(* What the bridge promises the gateway, which has two session slots and   *)
(* does not collect a session that its client forgot (app/app.go:210,      *)
(* app/klf200/connection.go, Connect and Disconnect): it never opens a     *)
(* session while the gateway holds another one of its own.  And what       *)
(* the runtime may rely on: a connection ends in its own time or is ended, *)
(* and no connection becomes another one, or comes back to life.           *)
(***************************************************************************)
CONSTANT Sessions   (* the sessions a behaviour opens *)

VARIABLES
  link,   \* the connection as the client shows it: "none", "open", "dead"
  held    \* sessions of the bridge that the gateway holds

svars == <<link, held>>

Init ==
  /\ link = "none"
  /\ held = {}

Open ==
  /\ link = "none"
  /\ held = {}
  /\ link' = "open"
  /\ \E s \in Sessions : held' = {s}

(* The gateway has closed the session, or it was closed at last; a client  *)
(* that shows it does not know yet.                                        *)
End ==
  /\ held # {}
  /\ held' = {}
  /\ link' = IF link = "open" THEN "dead" ELSE link

(* Not shown any more: the loss is noticed, or a Disconnect has begun,     *)
(* which may still have to close the session.                              *)
LetGo ==
  /\ link # "none"
  /\ link' = "none"
  /\ held' \in {held, {}}

Next == Open \/ End \/ LetGo

Safety == Init /\ [][Next]_svars
=============================================================================
