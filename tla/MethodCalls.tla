---------------------------- MODULE MethodCalls ----------------------------
(***************************************************************************)
(* What an invocation promises its caller, whatever the server does in     *)
(* between.  At every moment the server offers some methods on some        *)
(* contexts.  A call is judged at one moment between its arrival and its   *)
(* answer, by the offers of that moment: it is refused when the method is  *)
(* not offered on the context, and otherwise runs at most once.  The caller*)
(* is told "not_found" of a refused call only, and gets a result of a call *)
(* that ran only.  An accepted call may fail, before or while it runs.     *)
(***************************************************************************)
EXTENDS Naturals

CONSTANTS Methods,    \* the methods
          Targets,    \* the contexts a method can be invoked on
          MaxCalls    \* bound: calls are numbered 1 .. MaxCalls

VARIABLES offers,     \* the pairs <<target, method>> offered now
          stage,      \* how far the current call is
          call,       \* the current or last call
          reply       \* the last reply that was written

vars == <<offers, stage, call, reply>>

Stages == {"idle", "asked", "refused", "accepted", "ran", "done", "failed"}

Call == [id : 1 .. MaxCalls, method : Methods, target : Targets,
         wanted : BOOLEAN]

\* No call and no reply yet.
None == [id |-> 0]

Init == /\ offers = {}
        /\ stage = "idle"
        /\ call = None
        /\ reply = None

Offered == <<call.target, call.method>> \in offers

\* The application changes what is offered, at any moment.
Change == /\ offers' \in SUBSET (Targets \X Methods)
          /\ UNCHANGED <<stage, call, reply>>

Ask(m, t, wanted) ==
    /\ stage = "idle"
    /\ call.id < MaxCalls
    /\ call' = [id |-> call.id + 1, method |-> m, target |-> t,
                wanted |-> wanted]
    /\ stage' = "asked"
    /\ UNCHANGED <<offers, reply>>

Judge == /\ stage = "asked"
         /\ stage' = IF Offered THEN "accepted" ELSE "refused"
         /\ UNCHANGED <<offers, call, reply>>

Run == /\ stage = "accepted"
       /\ stage' = "ran"
       /\ UNCHANGED <<offers, call, reply>>

\* A call that ran has a result, and an accepted one may fail at any time.
Finish == /\ \/ stage = "ran" /\ stage' = "done"
             \/ stage \in {"accepted", "ran"} /\ stage' = "failed"
          /\ UNCHANGED <<offers, call, reply>>

Outcome == CASE stage = "done"    -> "result"
             [] stage = "failed"  -> "internal_error"
             [] stage = "refused" -> "not_found"

\* The reply is of the current call, and is left out when none was wanted.
Reply == /\ stage \in {"refused", "done", "failed"}
         /\ stage' = "idle"
         /\ reply' = IF call.wanted
                     THEN [id |-> call.id, outcome |-> Outcome]
                     ELSE reply
         /\ UNCHANGED <<offers, call>>

Next == \/ Change
        \/ \E m \in Methods, t \in Targets, wanted \in BOOLEAN :
               Ask(m, t, wanted)
        \/ Judge \/ Run \/ Finish \/ Reply

Spec == Init /\ [][Next]_vars
=============================================================================
