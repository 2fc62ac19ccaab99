---------------------------- MODULE RequestReply ----------------------------
(***************************************************************************)
(* What relaying a bus request to the other connector promises: each call  *)
(* is answered once, with the reply to that very request or with a failure,*)
(* and a reported success is a success of that request.                    *)
(***************************************************************************)
EXTENDS Naturals

CONSTANTS Callers, Kinds, MaxRequests

Bodies    == {"xml", "ok", "error", "empty"}
Results   == {"value", "ok", "fail"}
NoRequest == [id |-> 0, kind |-> "none"]
NoReply   == [id |-> 0, body |-> "empty"]

VARIABLES open, asked, answers

vars == <<open, asked, answers>>

Init ==
    /\ open = [c \in Callers |-> NoRequest]
    /\ asked = 0
    /\ answers = {}

Ask(c) ==
    /\ open[c] = NoRequest
    /\ asked < MaxRequests
    /\ asked' = asked + 1
    /\ \E k \in Kinds : open' = [open EXCEPT ![c] = [id |-> asked + 1, kind |-> k]]
    /\ UNCHANGED answers

(* A reading of a reply that claims no more than the reply says.           *)
Honest(kind, body, result) ==
    /\ result # "fail" => body \in {"xml", "ok"}
    /\ result = "value" <=> result # "fail" /\ kind # "set"

Reply(c) ==
    /\ open[c] # NoRequest
    /\ \E b \in Bodies, r \in Results :
          /\ Honest(open[c].kind, b, r)
          /\ answers' = answers \cup
               {[req |-> open[c], reply |-> [id |-> open[c].id, body |-> b], result |-> r]}
    /\ open' = [open EXCEPT ![c] = NoRequest]
    /\ UNCHANGED asked

Fail(c) ==
    /\ open[c] # NoRequest
    /\ answers' = answers \cup {[req |-> open[c], reply |-> NoReply, result |-> "fail"]}
    /\ open' = [open EXCEPT ![c] = NoRequest]
    /\ UNCHANGED asked

Next == \E c \in Callers : Ask(c) \/ Reply(c) \/ Fail(c)

(* Every call is answered.                                                 *)
Spec == Init /\ [][Next]_vars /\ \A c \in Callers : WF_vars(Reply(c) \/ Fail(c))
=============================================================================
