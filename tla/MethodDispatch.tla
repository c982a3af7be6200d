-------------------------- MODULE MethodDispatch ---------------------------
(***************************************************************************)
(* How the server answers an invocation: server_state_loop takes one       *)
(* message, handle_next calls invoke_helper, which looks the method and its*)
(* context up while it holds the mutex of the ServerState, lets it go,     *)
(* sends the arguments to the task of the method (per_method_spinner) and  *)
(* awaits the answer.                                                      *)
(*                                                                         *)
(* Components are dropped and patched by other threads WITHOUT that mutex  *)
(* (a reference locks only the list of its component), so they interleave  *)
(* with every step of the look-up.  A component lives as long as something *)
(* refers to it: the application (held), the methods_list of a context or  *)
(* of the document (listed), or the look-up itself (resolved).  When the   *)
(* last reference goes its content is removed, one step later (Delete).    *)
(*                                                                         *)
(* A handler is the application's code: it runs for a while, may lock the  *)
(* ServerState, and returns or panics.  A panic under the mutex poisons it,*)
(* and the loop's next lock().unwrap() panics in turn.                     *)
(***************************************************************************)
EXTENDS Naturals, Sequences

CONSTANTS Methods,    \* method components
          Contexts,   \* entities, tables and plots a method can be listed on
          Document,   \* the context of an invocation that names no component
          Handled,    \* the methods that are created with a handler
          MaxCalls    \* bound: the invocations that arrive

ASSUME DispatchAssumption ==
    /\ Methods \cap Contexts = {}
    /\ Document \notin Methods \cup Contexts
    /\ Handled \subseteq Methods
    /\ MaxCalls \in Nat

VARIABLES made,       \* components created so far (an id is never used again)
          present,    \* components whose content is in their list
          held,       \* components the application holds a reference to
          listed,     \* methods_list of every context
          lock,       \* who has the mutex of the ServerState
          poisoned,   \* a thread panicked while it had the mutex
          task,       \* the per_method_spinner of every method
          inbox,      \* calls sent to the task of a method
          outbox,     \* answers the task has sent back
          pc,         \* where the server loop is
          call,       \* the invocation it handles, or handled last
          resolved,   \* references invoke_helper holds
          channel,    \* methods whose channels invoke_helper has a clone of
          answer,     \* what invoke_helper returns
          reply       \* the last reply written to the client

app  == <<made, present, held, listed>>
work == <<task, inbox, outbox>>
loop == <<pc, call, resolved, channel, answer>>
vars == <<app, lock, poisoned, work, loop, reply>>

Components == Methods \cup Contexts
Targets == Contexts \cup {Document}
Free == "free"
Loop == "loop"
Nothing == [id |-> 0]

Call == [id : 1 .. MaxCalls, method : Methods, target : Targets,
         wanted : BOOLEAN]
Outcomes == {"result", "not_found", "internal_error"}

Init == /\ made = {} /\ present = {} /\ held = {}
        /\ listed = [t \in Targets |-> {}]
        /\ lock = Free /\ poisoned = FALSE
        /\ task = [m \in Methods |-> "none"]
        /\ inbox = [m \in Methods |-> <<>>]
        /\ outbox = [m \in Methods |-> <<>>]
        /\ pc = "idle" /\ call = Nothing /\ answer = "none"
        /\ resolved = {} /\ channel = {} /\ reply = Nothing

-----------------------------------------------------------------------------
(* The application: any thread, the handlers included.                     *)

\* A strong reference exists, so that resolve() can upgrade the weak one.
\* The content of a context that is not there any more lists nothing.
Referenced(x) == \/ x \in held \cup resolved
                 \/ \E t \in Targets : x \in listed[t]

\* What needs the ServerState itself needs its mutex.
HasState == lock # Loop /\ ~poisoned

\* new_component, new_owned_component: a method with a handler gets its task.
Create(x) == /\ HasState
             /\ x \notin made
             /\ made' = made \cup {x}
             /\ present' = present \cup {x}
             /\ held' = held \cup {x}
             /\ task' = [m \in Methods |-> IF m = x /\ m \in Handled
                                           THEN "waiting" ELSE task[m]]
             /\ UNCHANGED <<listed, lock, poisoned, inbox, outbox, loop, reply>>

\* A handler that is told an id gets a reference to it, if there is one.
Resolve(x) == /\ HasState
              /\ x \in Components \ held
              /\ Referenced(x)
              /\ held' = held \cup {x}
              /\ UNCHANGED <<made, present, listed, lock, poisoned, work, loop,
                             reply>>

\* The application lets its reference go.
Drop(x) == /\ x \in held
           /\ held' = held \ {x}
           /\ UNCHANGED <<made, present, listed, lock, poisoned, work, loop,
                          reply>>

\* A patch of the methods_list of a context: no mutex but the list's.
Patch(c, ms) == /\ c \in held
                /\ ms \subseteq held
                /\ listed' = [listed EXCEPT ![c] = ms]
                /\ UNCHANGED <<made, present, held, lock, poisoned, work, loop,
                               reply>>

\* update_document replaces the methods of the document.
UpdateDocument(ms) == /\ HasState
                      /\ ms \subseteq held
                      /\ listed' = [listed EXCEPT ![Document] = ms]
                      /\ UNCHANGED <<made, present, held, lock, poisoned, work,
                                     loop, reply>>

\* Mutant: the references that a methods_list holds do not count.
DeleteListed(x) == /\ x \in present
                   /\ x \notin held \cup resolved
                   /\ present' = present \ {x}
                   /\ listed' = [t \in Targets |->
                                     IF t = x THEN {} ELSE listed[t]]
                   /\ UNCHANGED <<made, held, lock, poisoned, work, loop, reply>>

\* The drop of the last reference removes the content, and with the content
\* of a context the references it lists.
Delete(x) == /\ x \in present
             /\ ~Referenced(x)
             /\ present' = present \ {x}
             /\ listed' = [t \in Targets |-> IF t = x THEN {} ELSE listed[t]]
             /\ UNCHANGED <<made, held, lock, poisoned, work, loop, reply>>

-----------------------------------------------------------------------------
(* The look-up of invoke_helper, one step for each list it asks.           *)

Ask(m, t, wanted) ==
    /\ pc = "idle"
    /\ call.id < MaxCalls
    /\ call' = [id |-> call.id + 1, method |-> m, target |-> t,
                wanted |-> wanted]
    /\ pc' = "locking"
    /\ answer' = "none"
    /\ UNCHANGED <<app, lock, poisoned, work, resolved, channel, reply>>

\* state.lock().unwrap()
LockState == /\ pc = "locking"
             /\ lock = Free
             /\ IF poisoned THEN pc' = "panicked" /\ lock' = lock
                            ELSE pc' = "method" /\ lock' = Loop
             /\ UNCHANGED <<app, poisoned, work, call, resolved, channel,
                            answer, reply>>

\* The early returns, with MethodNotFound.
Refuse == /\ answer' = "not_found"
          /\ pc' = "leaving"
          /\ UNCHANGED <<app, lock, poisoned, work, call, resolved, channel,
                         reply>>

\* The locals of the block are dropped: the references, then the lock.
Unlock == /\ resolved' = {}
          /\ lock' = Free

Leave == /\ pc = "leaving"
         /\ pc' = "answering"
         /\ Unlock
         /\ UNCHANGED <<app, poisoned, work, call, channel, answer, reply>>

\* Mutant: the id is kept in place of the reference.
FoundUnheld(x, next) == /\ Referenced(x)
                        /\ pc' = next
                        /\ UNCHANGED <<app, lock, poisoned, work, call, resolved,
                                       channel, answer, reply>>

Found(x, next) == /\ Referenced(x)
                  /\ resolved' = resolved \cup {x}
                  /\ pc' = next
                  /\ UNCHANGED <<app, lock, poisoned, work, call, channel,
                                 answer, reply>>

FindMethod == /\ pc = "method"
              /\ \/ Found(call.method, "context")
                 \/ ~Referenced(call.method) /\ Refuse

FindContext ==
    /\ pc = "context"
    /\ \/ /\ call.target = Document
          /\ pc' = "checking"
          /\ UNCHANGED <<app, lock, poisoned, work, call, resolved, channel,
                         answer, reply>>
       \/ call.target # Document /\ Found(call.target, "checking")
       \/ call.target # Document /\ ~Referenced(call.target) /\ Refuse

\* Mutant: the method may be listed on any context.
HasMethodAnywhere == \E t \in Targets : call.method \in listed[t]

\* find_method_in_state: a content that is gone has no method either.
HasMethod == /\ call.target = Document \/ call.target \in present
             /\ call.method \in listed[call.target]

CheckListed == /\ pc = "checking"
               /\ \/ /\ HasMethod
                     /\ pc' = "fetching"
                     /\ UNCHANGED <<app, lock, poisoned, work, call, resolved,
                                    channel, answer, reply>>
                  \/ ~HasMethod /\ Refuse

\* The slot of the method is cloned; the unwrap panics, with the mutex, when
\* its content is gone.
Fetch == /\ pc = "fetching"
         /\ Unlock
         /\ IF call.method \in present
            THEN /\ channel' = {call.method} \cap Handled
                 /\ pc' = "sending"
                 /\ UNCHANGED poisoned
            ELSE /\ poisoned' = TRUE
                 /\ pc' = "panicked"
                 /\ UNCHANGED channel
         /\ UNCHANGED <<app, work, call, answer, reply>>

-----------------------------------------------------------------------------
(* The exchange with the task of the method (activate).                    *)

\* The receiver of a task that panicked is gone, and its sender with it.
Alive(m) == task[m] \notin {"none", "dead", "ended"}

\* Mutant: the clone of the channels outlives the call.
ReturnKeeping(what) == /\ answer' = what
                       /\ pc' = "answering"
                       /\ UNCHANGED channel

\* invoke_helper returns and lets its clone of the channels go.
Return(what) == /\ answer' = what
                /\ channel' = {}
                /\ pc' = "answering"

Send == /\ pc = "sending"
        /\ IF call.method \in channel /\ Alive(call.method)
           THEN /\ inbox' = [inbox EXCEPT ![call.method] = Append(@, call.id)]
                /\ pc' = "awaiting"
                /\ UNCHANGED <<channel, answer>>
           ELSE Return("internal_error") /\ UNCHANGED inbox
        /\ UNCHANGED <<app, lock, poisoned, task, outbox, call, resolved, reply>>

Await == /\ pc = "awaiting"
         /\ \/ /\ outbox[call.method] # <<>>
               /\ outbox' = [outbox EXCEPT ![call.method] = Tail(@)]
               /\ Return("result")
            \/ /\ outbox[call.method] = <<>>
               /\ ~Alive(call.method)
               /\ outbox' = outbox
               /\ Return("internal_error")
         /\ UNCHANGED <<app, lock, poisoned, task, inbox, call, resolved, reply>>

\* Mutant: the errors are not written.
WriteReplyResult ==
    /\ pc = "answering"
    /\ pc' = "idle"
    /\ reply' = IF call.wanted /\ answer = "result"
                THEN [id |-> call.id, outcome |-> answer]
                ELSE reply
    /\ UNCHANGED <<app, lock, poisoned, work, call, resolved, channel, answer>>

\* handle_next writes a reply when the invocation has an invoke_id.
WriteReply == /\ pc = "answering"
              /\ pc' = "idle"
              /\ reply' = IF call.wanted
                          THEN [id |-> call.id, outcome |-> answer]
                          ELSE reply
              /\ UNCHANGED <<app, lock, poisoned, work, call, resolved, channel,
                             answer>>

-----------------------------------------------------------------------------
(* per_method_spinner, and the handler it runs.                            *)

TaskGoes(m, from, to) == task[m] = from /\ task' = [task EXCEPT ![m] = to]

TakeCall(m) == /\ inbox[m] # <<>>
               /\ TaskGoes(m, "waiting", "running")
               /\ inbox' = [inbox EXCEPT ![m] = Tail(@)]
               /\ UNCHANGED <<app, lock, poisoned, outbox, loop, reply>>

HandlerLocks(m) == /\ HasState
                   /\ lock = Free
                   /\ TaskGoes(m, "running", "locked")
                   /\ lock' = m
                   /\ UNCHANGED <<app, poisoned, inbox, outbox, loop, reply>>

HandlerUnlocks(m) == /\ TaskGoes(m, "locked", "unlocked")
                     /\ lock' = Free
                     /\ UNCHANGED <<app, poisoned, inbox, outbox, loop, reply>>

\* The answer is sent, and the task waits for the next call.
HandlerReturns(m) ==
    /\ TaskGoes(m, "running", "waiting") \/ TaskGoes(m, "unlocked", "waiting")
    /\ outbox' = [outbox EXCEPT ![m] = Append(@, call.id)]
    /\ UNCHANGED <<app, lock, poisoned, inbox, loop, reply>>

\* The stack of the task unwinds: its ends of the channels are dropped, and
\* a mutex it holds is poisoned.
HandlerPanics(m) ==
    /\ task[m] \in {"running", "locked", "unlocked"}
    /\ task' = [task EXCEPT ![m] = "dead"]
    /\ poisoned' = (poisoned \/ task[m] = "locked")
    /\ lock' = IF task[m] = "locked" THEN Free ELSE lock
    /\ UNCHANGED <<app, inbox, outbox, loop, reply>>

\* Mutant: the task ends with the content of its method.
TaskEndsEarly(m) == /\ m \notin present
                    /\ TaskGoes(m, "waiting", "ended")
                    /\ UNCHANGED <<app, lock, poisoned, inbox, outbox, loop, reply>>

\* recv() is None once every sender is dropped: the one in the content, and
\* the clone of invoke_helper.
TaskEnds(m) == /\ m \notin present \cup channel
               /\ inbox[m] = <<>>
               /\ TaskGoes(m, "waiting", "ended")
               /\ UNCHANGED <<app, lock, poisoned, inbox, outbox, loop, reply>>

HandlerRuns(m) == \/ HandlerLocks(m) \/ HandlerUnlocks(m)
                  \/ HandlerReturns(m) \/ HandlerPanics(m)

-----------------------------------------------------------------------------

AppStep == \/ \E x \in Components : Create(x) \/ Resolve(x) \/ Drop(x)
           \/ \E ms \in SUBSET Methods :
                 \/ UpdateDocument(ms)
                 \/ \E c \in Contexts : Patch(c, ms)

LoopStep == \/ LockState \/ FindMethod \/ FindContext \/ CheckListed
            \/ Leave \/ Fetch \/ Send \/ Await \/ WriteReply

Next == \/ AppStep
        \/ \E x \in Components : Delete(x)
        \/ \E m \in Methods, t \in Targets, wanted \in BOOLEAN :
               Ask(m, t, wanted)
        \/ LoopStep
        \/ \E m \in Methods : TakeCall(m) \/ HandlerRuns(m) \/ TaskEnds(m)

\* The server has answered its last call, or its loop is gone.
Done == /\ \/ pc = "panicked"
           \/ pc = "idle" /\ call.id = MaxCalls
        /\ UNCHANGED vars

Spec == Init /\ [][Next \/ Done]_vars

\* The loop and the tasks are scheduled by tokio, the drop of a component is
\* finished by the thread that began it, and a handler returns or panics.
Fairness == /\ WF_vars(LoopStep)
            /\ \A x \in Components : WF_vars(Delete(x))
            /\ \A m \in Methods : /\ WF_vars(TakeCall(m))
                                  /\ WF_vars(HandlerRuns(m))
                                  /\ WF_vars(TaskEnds(m))

FairSpec == Spec /\ Fairness

-----------------------------------------------------------------------------
(* Properties.                                                             *)

TypeOK == /\ made \subseteq Components
          /\ present \subseteq made
          /\ held \subseteq present
          /\ listed \in [Targets -> SUBSET (present \cap Methods)]
          /\ lock \in {Free, Loop} \cup Methods
          /\ poisoned \in BOOLEAN
          /\ task \in [Methods -> {"none", "waiting", "running", "locked",
                                   "unlocked", "dead", "ended"}]
          /\ inbox \in [Methods -> Seq(1 .. MaxCalls)]
          /\ outbox \in [Methods -> Seq(1 .. MaxCalls)]
          /\ pc \in {"idle", "locking", "method", "context", "checking",
                     "leaving", "fetching", "sending", "awaiting",
                     "answering", "panicked"}
          /\ call \in Call \cup {Nothing}
          /\ resolved \subseteq present
          /\ channel \subseteq Methods
          /\ answer \in Outcomes \cup {"none"}
          /\ reply \in [id : 1 .. MaxCalls, outcome : Outcomes] \cup {Nothing}

\* The loop panics only on a mutex that a handler poisoned: the reference the
\* look-up resolved keeps the content of the method in its list, so the
\* unwrap of the slot cannot fail, however the application drops and patches.
LoopSurvives == /\ pc = "panicked" => poisoned
                /\ poisoned => \E m \in Methods : task[m] = "dead"

\* A clone of the channels keeps the task of a deleted method until its call
\* is answered: an accepted call fails only when the handler panicked.
Answered == pc = "answering" /\ answer = "internal_error"
FailureNeedsPanic == Answered => \/ task[call.method] = "dead"
                                 \/ call.method \notin Handled

\* Every invocation is answered, in spite of everything the application does
\* to the method meanwhile, unless the loop died of a poisoned mutex.
InvocationsReplied == \A n \in 1 .. MaxCalls :
    (call.id = n /\ pc = "locking") ~> (pc = "panicked" \/
        (call.id = n /\ pc = "idle" /\ (call.wanted => reply.id = n)))

\* The task of a method ends after the method is deleted, also when that
\* happened during a call.
TasksEnd == \A m \in Methods :
    (m \in made \ present) ~> ~Alive(m)

-----------------------------------------------------------------------------
(* The implementation of MethodCalls.                                      *)

Offers == {p \in Targets \X Methods :
              /\ p[1] = Document \/ Referenced(p[1])
              /\ p[2] \in listed[p[1]]}

Stage == CASE pc = "idle" -> "idle"
           [] pc \in {"locking", "method", "context", "checking"} -> "asked"
           [] pc \in {"fetching", "sending"} -> "accepted"
           [] pc = "awaiting" -> IF inbox[call.method] # <<>>
                                 THEN "accepted" ELSE "ran"
           [] pc = "leaving" -> "refused"
           [] pc = "answering" -> CASE answer = "result" -> "done"
                                    [] answer = "not_found" -> "refused"
                                    [] OTHER -> "failed"
           [] OTHER -> "asked"

Calls == INSTANCE MethodCalls WITH offers <- Offers, stage <- Stage

\* Every call is judged by what was offered at one moment, whatever the order
\* in which the look-up asks the lists and other threads change them; it runs
\* once at most, and its reply tells the outcome of this call.
CallsSpec == Calls!Spec
=============================================================================
