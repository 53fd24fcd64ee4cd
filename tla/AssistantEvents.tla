-------------------------- MODULE AssistantEvents --------------------------
(********************************************************************************)
(* The presentation protocol of an assistant turn (AssistantEventSequence): the *)
(* order in which its events may follow each other.  An event is <<type, id>>;  *)
(* the id is that of the tool call or retrieval it is about.  The machine       *)
(* routes of the web application check the same protocol before they store a    *)
(* batch.  The rest of a payload and its size in bytes are left out.            *)
(* Source: assistant/events.py (web: assistant-events.ts).                      *)
(********************************************************************************)
EXTENDS Integers, Sequences

MAX_EVENTS == 256

Fresh == [phase |-> "NEW", reasoning |-> FALSE, open |-> {}, used |-> {}]
Bad == [Fresh EXCEPT !.phase = "INVALID"]

\* A call or retrieval starts once, and ends once after it has started.
Starts == {"tool.started", "retrieval.started"}
Ends == {"tool.completed", "tool.failed", "retrieval.completed"}
Operation(e) ==
  <<IF e[1] \in {"retrieval.started", "retrieval.completed"} THEN "retrieval" ELSE "tool",
    e[2]>>

AdvanceOpen(s, e) ==
  CASE e[1] = "reasoning.started" /\ ~s.reasoning -> [s EXCEPT !.reasoning = TRUE]
    [] e[1] \in Starts /\ Operation(e) \notin s.used ->
         [s EXCEPT !.open = @ \cup {Operation(e)}, !.used = @ \cup {Operation(e)}]
    [] e[1] \in Ends /\ Operation(e) \in s.open -> [s EXCEPT !.open = @ \ {Operation(e)}]
    [] e[1] = "answer.started" /\ s.open = {} -> [s EXCEPT !.phase = "ANSWERING"]
    [] OTHER -> Bad

Advance(s, e) ==
  CASE s.phase = "NEW" /\ e[1] = "conversation.started" -> [s EXCEPT !.phase = "OPEN"]
    [] s.phase \in {"OPEN", "ANSWERING"} /\ e[1] = "error" -> [s EXCEPT !.phase = "FAILED"]
    [] s.phase \in {"OPEN", "ANSWERING"} /\ e[1] = "cancelled" ->
         [s EXCEPT !.phase = "CANCELLED"]
    [] s.phase = "OPEN" /\ e[1] \notin {"error", "cancelled"} -> AdvanceOpen(s, e)
    [] s.phase = "ANSWERING" /\ e[1] \in {"answer.delta", "content.block"} -> s
    [] s.phase = "ANSWERING" /\ e[1] = "answer.completed" -> [s EXCEPT !.phase = "ANSWERED"]
    [] s.phase = "ANSWERED" /\ e[1] = "conversation.completed" ->
         [s EXCEPT !.phase = "COMPLETED"]
    [] OTHER -> Bad

\* Appending the events one by one raises nothing.
Accepts(events) ==
  LET reach[k \in 0..Len(events)] ==
        IF k = 0 THEN {Fresh} ELSE {Advance(s, events[k]) : s \in reach[k - 1]} \ {Bad}
  IN Len(events) <= MAX_EVENTS /\ reach[Len(events)] # {}
=============================================================================
