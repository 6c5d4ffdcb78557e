----------------------------- MODULE AgentTurn -----------------------------
(***************************************************************************)
(* What the ReAct coordinator promises a frontend about conversation       *)
(* turns, whatever happens on the bus: a session is in at most one turn, a *)
(* turn that was opened is closed for good exactly once, the terminal      *)
(* response of a turn, if there is one, is published as it closes, and no  *)
(* turn stays open forever.                                                *)
(***************************************************************************)
EXTENDS Naturals

CONSTANTS Session, Turn, None

VARIABLES
  status,  \* what became of each turn
  owner,   \* the session that opened it
  finals   \* terminal responses published for it

vars == <<status, owner, finals>>

Init ==
  /\ status = [t \in Turn |-> "none"]
  /\ owner = [t \in Turn |-> None]
  /\ finals = [t \in Turn |-> 0]

OpenIn(s) == {t \in Turn : status[t] = "open" /\ owner[t] = s}

\* A prompt opens turn t and supersedes, silently, the turn of its session.
Open(s, t) ==
  /\ status[t] = "none"
  /\ status' = [u \in Turn |-> IF u = t THEN "open"
                               ELSE IF u \in OpenIn(s) THEN "closed" ELSE status[u]]
  /\ owner' = [owner EXCEPT ![t] = s]
  /\ UNCHANGED finals

\* Turns close together only when the coordinator restarts; each one's
\* terminal response is published now or never.
Close(T) ==
  /\ T # {} /\ \A t \in T : status[t] = "open"
  /\ status' = [t \in Turn |-> IF t \in T THEN "closed" ELSE status[t]]
  /\ \/ UNCHANGED finals
     \/ \E t \in T : T = {t} /\ finals' = [finals EXCEPT ![t] = 1]
  /\ UNCHANGED owner

Next ==
  \/ \E s \in Session, t \in Turn : Open(s, t)
  \/ \E T \in SUBSET Turn : Close(T)

Spec == Init /\ [][Next]_vars

\* No turn stays open forever.
EveryTurnCloses == \A t \in Turn : status[t] = "open" ~> status[t] = "closed"
=============================================================================
