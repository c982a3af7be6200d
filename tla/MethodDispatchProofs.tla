----------------------- MODULE MethodDispatchProofs ------------------------
(***************************************************************************)
(* Proofs about MethodDispatch, for every set of methods and contexts and  *)
(* every number of invocations: its types, that the look-up never panics   *)
(* by itself, and that it implements MethodCalls.                          *)
(***************************************************************************)
EXTENDS MethodDispatch, TLAPS

-----------------------------------------------------------------------------
(* The inductive invariant. *)

(* The handler of m is running. *)
Working(m) == task[m] \in {"running", "locked", "unlocked"}

(* An invocation that is under way is known. *)
CallKnown == pc # "idle" => call \in Call

(* One message at most is between the loop and the tasks, and only while the *)
(* loop awaits the answer of the method it called. *)
OneExchange ==
  \A m \in Methods :
    /\ Working(m) \/ inbox[m] # <<>> \/ outbox[m] # <<>> =>
         pc = "awaiting" /\ call.method = m
    /\ Working(m) => inbox[m] = <<>> /\ outbox[m] = <<>>
    /\ inbox[m] # <<>> =>
         /\ Tail(inbox[m]) = <<>>
         /\ outbox[m] = <<>>
         /\ task[m] = "waiting"
    /\ outbox[m] # <<>> => Tail(outbox[m]) = <<>>

(* The look-up holds what it has found. *)
HoldsMethod ==
  pc \in {"context", "checking", "fetching"} => call.method \in resolved

HoldsContext ==
  pc = "checking" /\ call.target # Document => call.target \in resolved

(* The task of a method with a handler lasts as long as a sender does. *)
TasksLast ==
  \A m \in Methods :
    /\ task[m] # "none" => m \in made
    /\ m \in Handled /\ m \in present \cup channel =>
         task[m] \notin {"none", "ended"}

(* The clone of the channels is kept until the answer is there. *)
ChannelKept ==
  /\ channel \subseteq Handled
  /\ pc = "sending" /\ call.method \in Handled => call.method \in channel
  /\ pc = "awaiting" => call.method \in channel

AnswerKnown == /\ pc = "answering" => answer \in Outcomes
               /\ pc = "leaving" => answer = "not_found"

IInv == /\ TypeOK /\ CallKnown /\ OneExchange /\ HoldsMethod /\ HoldsContext
        /\ TasksLast /\ ChannelKept /\ AnswerKnown /\ LoopSurvives
        /\ FailureNeedsPanic

-----------------------------------------------------------------------------
(* Queues of one message. *)

(* What is left of a queue is a queue. *)
LEMMA TailType ==
  ASSUME NEW S, NEW s \in Seq(S), s # <<>>
  PROVE  Tail(s) \in Seq(S)
  OBVIOUS

(* A method is given another queue. *)
LEMMA OneQueue ==
  ASSUME NEW S, NEW q \in [Methods -> Seq(S)], NEW m \in Methods,
         NEW s \in Seq(S)
  PROVE  [q EXCEPT ![m] = s] \in [Methods -> Seq(S)]
  OBVIOUS

(* Nothing is left of an empty queue that one message was added to. *)
LEMMA OneMessage ==
  ASSUME NEW S, NEW s \in Seq(S), s = <<>>, NEW e \in S
  PROVE  Tail(Append(s, e)) = <<>>
  OBVIOUS

-----------------------------------------------------------------------------
(* Each part of the invariant is preserved by every step. *)

(* A call is known from the moment it is asked. *)
LEMMA CallKnownStep ==
  IInv /\ [Next \/ Done]_vars => CallKnown'
<1> SUFFICES ASSUME IInv, [Next \/ Done]_vars PROVE CallKnown'
  OBVIOUS
<1> USE DispatchAssumption DEF IInv, TypeOK, Targets, Nothing
<1>1. ASSUME NEW x \in Components, Create(x) \/ Resolve(x) \/ Drop(x) \/
             Delete(x)
      PROVE  CallKnown'
  BY <1>1 DEF Create, HasState, Resolve, Drop, Delete, CallKnown, Call, app,
     work, loop
<1>2. ASSUME NEW ms \in SUBSET Methods, UpdateDocument(ms) PROVE CallKnown'
  BY <1>2 DEF UpdateDocument, HasState, CallKnown, Call, app, work, loop
<1>3. ASSUME NEW ms \in SUBSET Methods, NEW c \in Contexts, Patch(c, ms)
      PROVE  CallKnown'
  BY <1>3 DEF Patch, CallKnown, Call, app, work, loop
<1>4. ASSUME NEW m \in Methods, NEW t \in Targets, NEW wanted \in BOOLEAN,
             Ask(m, t, wanted)
      PROVE  CallKnown'
  BY <1>4 DEF Ask, CallKnown, Call, app, work, loop
<1>5. CASE LockState \/ FindMethod \/ FindContext \/ CheckListed \/
           Leave \/ Fetch \/ Send \/ Await \/ WriteReply
  BY <1>5 DEF LockState, FindMethod, Found, Refuse, FindContext,
     CheckListed, HasMethod, Leave, Unlock, Fetch, Send, Return, Await,
     WriteReply, CallKnown, Call, app, work, loop
<1>6. ASSUME NEW m \in Methods, TakeCall(m) \/ HandlerLocks(m) \/
             HandlerUnlocks(m) \/ HandlerReturns(m) \/
             HandlerPanics(m) \/ TaskEnds(m)
      PROVE  CallKnown'
  BY <1>6 DEF TakeCall, TaskGoes, HandlerLocks, HasState, HandlerUnlocks,
     HandlerReturns, HandlerPanics, TaskEnds, CallKnown, Call, app, work,
     loop
<1>7. CASE UNCHANGED vars
  BY <1>7 DEF vars, CallKnown, Call, app, work, loop
<1> HIDE DEF TypeOK
<1> QED
  BY <1>1, <1>2, <1>3, <1>4, <1>5, <1>6, <1>7
  DEF Next, Done, AppStep, LoopStep, HandlerRuns

(* The loop calls one method at a time, so that channels hold one message. *)
LEMMA OneExchangeStep ==
  IInv /\ [Next \/ Done]_vars => OneExchange'
<1> SUFFICES ASSUME IInv, [Next \/ Done]_vars PROVE OneExchange'
  OBVIOUS
<1> USE DispatchAssumption DEF IInv, TypeOK, Targets, Call, Nothing,
    CallKnown
<1>1. ASSUME NEW x \in Components, Create(x)
      PROVE  OneExchange'
  BY <1>1 DEF Create, HasState, OneExchange, Working, app, work, loop
<1>2. ASSUME NEW x \in Components, Resolve(x) \/ Drop(x) \/ Delete(x)
      PROVE  OneExchange'
  BY <1>2 DEF Resolve, HasState, Drop, Delete, OneExchange, Working, app,
     work, loop
<1>3. ASSUME NEW ms \in SUBSET Methods, UpdateDocument(ms) PROVE OneExchange'
  BY <1>3 DEF UpdateDocument, HasState, OneExchange, Working, app, work,
     loop
<1>4. ASSUME NEW ms \in SUBSET Methods, NEW c \in Contexts, Patch(c, ms)
      PROVE  OneExchange'
  BY <1>4 DEF Patch, OneExchange, Working, app, work, loop
<1>5. ASSUME NEW m \in Methods, NEW t \in Targets, NEW wanted \in BOOLEAN,
             Ask(m, t, wanted)
      PROVE  OneExchange'
  BY <1>5 DEF Ask, OneExchange, Working, app, work, loop
<1>6. CASE LockState \/ FindMethod \/ FindContext \/ CheckListed \/
           Leave \/ Fetch
  BY <1>6 DEF LockState, FindMethod, Found, Refuse, FindContext,
     CheckListed, HasMethod, Leave, Unlock, Fetch, OneExchange, Working,
     app, work, loop
<1>7. CASE Send
  <2>1. CASE call.method \in channel /\ Alive(call.method)
    <3>1. /\ inbox' = [inbox EXCEPT ![call.method] =
                                      Append(inbox[call.method], call.id)]
          /\ pc' = "awaiting"
          /\ UNCHANGED <<task, outbox, call>>
      BY <1>7, <2>1 DEF Send
    <3>2. call.method \in Methods /\ call.id \in 1 .. MaxCalls
      BY <1>7 DEF Send, Call
    <3>3. \A m \in Methods : inbox[m] = <<>> /\ outbox[m] = <<>> /\ ~ Working(m)
      BY <1>7 DEF Send, OneExchange
    <3>4. Tail(Append(inbox[call.method], call.id)) = <<>>
      BY <3>2, <3>3, OneMessage
    <3>5. task[call.method] = "waiting"
      BY <2>1, <3>2, <3>3 DEF Alive, Working
    <3> QED
      BY <3>1, <3>2, <3>3, <3>4, <3>5 DEF OneExchange, Working
  <2>2. CASE ~ (call.method \in channel /\ Alive(call.method))
    BY <1>7, <2>2 DEF Send, Return, OneExchange, Working
  <2> QED
    BY <2>1, <2>2
<1>8. CASE Await
  <2>1. call.method \in Methods
    BY <1>8 DEF Await, Call
  <2>2. \A m \in Methods : m # call.method =>
           inbox[m] = <<>> /\ outbox[m] = <<>> /\ ~ Working(m)
    BY <1>8 DEF Await, OneExchange
  <2>3. CASE outbox[call.method] # <<>>
    <3>1. /\ inbox[call.method] = <<>> /\ ~ Working(call.method)
          /\ Tail(outbox[call.method]) = <<>>
      BY <1>8, <2>1, <2>3 DEF OneExchange
    <3>2. /\ outbox' = [outbox EXCEPT ![call.method] = <<>>]
          /\ UNCHANGED <<task, inbox, call>>
      BY <1>8, <2>3, <3>1 DEF Await
    <3> QED
      BY <2>1, <2>2, <3>1, <3>2 DEF OneExchange, Working
  <2>4. CASE outbox[call.method] = <<>>
    BY <1>8, <2>1, <2>2, <2>4 DEF Await, Return, OneExchange, Working, Alive
  <2> QED
    BY <2>3, <2>4
<1>9. CASE WriteReply
  BY <1>9 DEF WriteReply, OneExchange, Working, app, work, loop
<1>10. ASSUME NEW m \in Methods, TakeCall(m)
      PROVE  OneExchange'
  BY <1>10 DEF TakeCall, TaskGoes, OneExchange, Working, app, work, loop
<1>11. ASSUME NEW m \in Methods, HandlerLocks(m) \/ HandlerUnlocks(m) \/
             HandlerPanics(m)
      PROVE  OneExchange'
  BY <1>11 DEF HandlerLocks, HasState, TaskGoes, HandlerUnlocks,
     HandlerPanics, OneExchange, Working, app, work, loop
<1>12. ASSUME NEW m \in Methods, HandlerReturns(m)
      PROVE  OneExchange'
  <2>1. /\ call \in Call /\ call.method = m /\ pc = "awaiting"
        /\ inbox[m] = <<>> /\ outbox[m] = <<>>
    BY <1>12 DEF HandlerReturns, TaskGoes, OneExchange, Working
  <2>2. Tail(Append(outbox[m], call.id)) = <<>>
    BY <2>1, OneMessage DEF Call
  <2> QED
    BY <1>12, <2>1, <2>2 DEF HandlerReturns, TaskGoes, OneExchange, Working, loop
<1>13. ASSUME NEW m \in Methods, TaskEnds(m)
      PROVE  OneExchange'
  BY <1>13 DEF TaskEnds, TaskGoes, OneExchange, Working, app, work, loop
<1>14. CASE UNCHANGED vars
  BY <1>14 DEF vars, OneExchange, Working, app, work, loop
<1> HIDE DEF TypeOK
<1> QED
  BY <1>1, <1>2, <1>3, <1>4, <1>5, <1>6, <1>7, <1>8, <1>9, <1>10, <1>11,
     <1>12, <1>13, <1>14
  DEF Next, Done, AppStep, LoopStep, HandlerRuns

(* The reference to the method is kept until its slot is cloned. *)
LEMMA HoldsMethodStep ==
  IInv /\ [Next \/ Done]_vars => HoldsMethod'
<1> SUFFICES ASSUME IInv, [Next \/ Done]_vars PROVE HoldsMethod'
  OBVIOUS
<1> USE DispatchAssumption DEF IInv
<1>1. ASSUME NEW x \in Components, Create(x) \/ Resolve(x) \/ Drop(x) \/
             Delete(x)
      PROVE  HoldsMethod'
  BY <1>1 DEF Create, HasState, Resolve, Drop, Delete, HoldsMethod, app,
     work, loop
<1>2. ASSUME NEW ms \in SUBSET Methods, UpdateDocument(ms) PROVE HoldsMethod'
  BY <1>2 DEF UpdateDocument, HasState, HoldsMethod, app, work, loop
<1>3. ASSUME NEW ms \in SUBSET Methods, NEW c \in Contexts, Patch(c, ms)
      PROVE  HoldsMethod'
  BY <1>3 DEF Patch, HoldsMethod, app, work, loop
<1>4. ASSUME NEW m \in Methods, NEW t \in Targets, NEW wanted \in BOOLEAN,
             Ask(m, t, wanted)
      PROVE  HoldsMethod'
  BY <1>4 DEF Ask, HoldsMethod, app, work, loop
<1>5. CASE LockState \/ FindMethod \/ FindContext \/ CheckListed \/
           Leave \/ Fetch \/ Send \/ Await \/ WriteReply
  BY <1>5 DEF LockState, FindMethod, Found, Refuse, FindContext,
     CheckListed, HasMethod, Leave, Unlock, Fetch, Send, Return, Await,
     WriteReply, HoldsMethod, app, work, loop
<1>6. ASSUME NEW m \in Methods, TakeCall(m) \/ HandlerLocks(m) \/
             HandlerUnlocks(m) \/ HandlerReturns(m) \/
             HandlerPanics(m) \/ TaskEnds(m)
      PROVE  HoldsMethod'
  BY <1>6 DEF TakeCall, TaskGoes, HandlerLocks, HasState, HandlerUnlocks,
     HandlerReturns, HandlerPanics, TaskEnds, HoldsMethod, app, work, loop
<1>7. CASE UNCHANGED vars
  BY <1>7 DEF vars, HoldsMethod, app, work, loop
<1> QED
  BY <1>1, <1>2, <1>3, <1>4, <1>5, <1>6, <1>7
  DEF Next, Done, AppStep, LoopStep, HandlerRuns

(* The reference to the context is kept while its list is read. *)
LEMMA HoldsContextStep ==
  IInv /\ [Next \/ Done]_vars => HoldsContext'
<1> SUFFICES ASSUME IInv, [Next \/ Done]_vars PROVE HoldsContext'
  OBVIOUS
<1> USE DispatchAssumption DEF IInv
<1>1. ASSUME NEW x \in Components, Create(x) \/ Resolve(x) \/ Drop(x) \/
             Delete(x)
      PROVE  HoldsContext'
  BY <1>1 DEF Create, HasState, Resolve, Drop, Delete, HoldsContext, app,
     work, loop
<1>2. ASSUME NEW ms \in SUBSET Methods, UpdateDocument(ms) PROVE HoldsContext'
  BY <1>2 DEF UpdateDocument, HasState, HoldsContext, app, work, loop
<1>3. ASSUME NEW ms \in SUBSET Methods, NEW c \in Contexts, Patch(c, ms)
      PROVE  HoldsContext'
  BY <1>3 DEF Patch, HoldsContext, app, work, loop
<1>4. ASSUME NEW m \in Methods, NEW t \in Targets, NEW wanted \in BOOLEAN,
             Ask(m, t, wanted)
      PROVE  HoldsContext'
  BY <1>4 DEF Ask, HoldsContext, app, work, loop
<1>5. CASE LockState \/ FindMethod \/ FindContext \/ CheckListed \/
           Leave \/ Fetch \/ Send \/ Await \/ WriteReply
  BY <1>5 DEF LockState, FindMethod, Found, Refuse, FindContext,
     CheckListed, HasMethod, Leave, Unlock, Fetch, Send, Return, Await,
     WriteReply, HoldsContext, app, work, loop
<1>6. ASSUME NEW m \in Methods, TakeCall(m) \/ HandlerLocks(m) \/
             HandlerUnlocks(m) \/ HandlerReturns(m) \/
             HandlerPanics(m) \/ TaskEnds(m)
      PROVE  HoldsContext'
  BY <1>6 DEF TakeCall, TaskGoes, HandlerLocks, HasState, HandlerUnlocks,
     HandlerReturns, HandlerPanics, TaskEnds, HoldsContext, app, work, loop
<1>7. CASE UNCHANGED vars
  BY <1>7 DEF vars, HoldsContext, app, work, loop
<1> QED
  BY <1>1, <1>2, <1>3, <1>4, <1>5, <1>6, <1>7
  DEF Next, Done, AppStep, LoopStep, HandlerRuns

(* A task ends when no sender to it is left. *)
LEMMA TasksLastStep ==
  IInv /\ [Next \/ Done]_vars => TasksLast'
<1> SUFFICES ASSUME IInv, [Next \/ Done]_vars PROVE TasksLast'
  OBVIOUS
<1> USE DispatchAssumption DEF IInv, TypeOK
<1>1. ASSUME NEW x \in Components, Create(x)
      PROVE  TasksLast'
  BY <1>1 DEF Create, HasState, TasksLast, app, work, loop
<1>2. ASSUME NEW x \in Components, Resolve(x) \/ Drop(x) \/ Delete(x)
      PROVE  TasksLast'
  BY <1>2 DEF Resolve, HasState, Drop, Delete, TasksLast, app, work, loop
<1>3. ASSUME NEW ms \in SUBSET Methods, UpdateDocument(ms) PROVE TasksLast'
  BY <1>3 DEF UpdateDocument, HasState, TasksLast, app, work, loop
<1>4. ASSUME NEW ms \in SUBSET Methods, NEW c \in Contexts, Patch(c, ms)
      PROVE  TasksLast'
  BY <1>4 DEF Patch, TasksLast, app, work, loop
<1>5. ASSUME NEW m \in Methods, NEW t \in Targets, NEW wanted \in BOOLEAN,
             Ask(m, t, wanted)
      PROVE  TasksLast'
  BY <1>5 DEF Ask, TasksLast, app, work, loop
<1>6. CASE LockState \/ FindMethod \/ FindContext \/ CheckListed \/
           Leave \/ WriteReply
  BY <1>6 DEF LockState, FindMethod, Found, Refuse, FindContext,
     CheckListed, HasMethod, Leave, Unlock, WriteReply, TasksLast, app,
     work, loop
<1>7. CASE Fetch
  BY <1>7 DEF Fetch, Unlock, TasksLast, app, work, loop
<1>8. CASE Send
  BY <1>8 DEF Send, Return, TasksLast, app, work, loop
<1>9. CASE Await
  BY <1>9 DEF Await, Return, TasksLast, app, work, loop
<1>10. ASSUME NEW m \in Methods, TakeCall(m) \/ HandlerLocks(m) \/
             HandlerUnlocks(m) \/ HandlerReturns(m) \/
             HandlerPanics(m)
      PROVE  TasksLast'
  BY <1>10 DEF TakeCall, TaskGoes, HandlerLocks, HasState, HandlerUnlocks,
     HandlerReturns, HandlerPanics, TasksLast, app, work, loop
<1>11. ASSUME NEW m \in Methods, TaskEnds(m)
      PROVE  TasksLast'
  BY <1>11 DEF TaskEnds, TaskGoes, TasksLast, app, work, loop
<1>12. CASE UNCHANGED vars
  BY <1>12 DEF vars, TasksLast, app, work, loop
<1> HIDE DEF TypeOK
<1> QED
  BY <1>1, <1>2, <1>3, <1>4, <1>5, <1>6, <1>7, <1>8, <1>9, <1>10, <1>11,
     <1>12
  DEF Next, Done, AppStep, LoopStep, HandlerRuns

(* The clone of the channels lasts from the look-up to the answer. *)
LEMMA ChannelKeptStep ==
  IInv /\ [Next \/ Done]_vars => ChannelKept'
<1> SUFFICES ASSUME IInv, [Next \/ Done]_vars PROVE ChannelKept'
  OBVIOUS
<1> USE DispatchAssumption DEF IInv, TypeOK, Targets, Call, Nothing,
    CallKnown
<1>1. ASSUME NEW x \in Components, Create(x) \/ Resolve(x) \/ Drop(x) \/
             Delete(x)
      PROVE  ChannelKept'
  BY <1>1 DEF Create, HasState, Resolve, Drop, Delete, ChannelKept, app,
     work, loop
<1>2. ASSUME NEW ms \in SUBSET Methods, UpdateDocument(ms) PROVE ChannelKept'
  BY <1>2 DEF UpdateDocument, HasState, ChannelKept, app, work, loop
<1>3. ASSUME NEW ms \in SUBSET Methods, NEW c \in Contexts, Patch(c, ms)
      PROVE  ChannelKept'
  BY <1>3 DEF Patch, ChannelKept, app, work, loop
<1>4. ASSUME NEW m \in Methods, NEW t \in Targets, NEW wanted \in BOOLEAN,
             Ask(m, t, wanted)
      PROVE  ChannelKept'
  BY <1>4 DEF Ask, ChannelKept, app, work, loop
<1>5. CASE LockState \/ FindMethod \/ FindContext \/ CheckListed \/
           Leave \/ WriteReply
  BY <1>5 DEF LockState, FindMethod, Found, Refuse, FindContext,
     CheckListed, HasMethod, Leave, Unlock, WriteReply, ChannelKept, app,
     work, loop
<1>6. CASE Fetch
  BY <1>6 DEF Fetch, Unlock, ChannelKept, app, work, loop
<1>7. CASE Send
  BY <1>7 DEF Send, Return, ChannelKept, app, work, loop
<1>8. CASE Await
  BY <1>8 DEF Await, Return, ChannelKept, app, work, loop
<1>9. ASSUME NEW m \in Methods, TakeCall(m) \/ HandlerLocks(m) \/
             HandlerUnlocks(m) \/ HandlerReturns(m) \/
             HandlerPanics(m) \/ TaskEnds(m)
      PROVE  ChannelKept'
  BY <1>9 DEF TakeCall, TaskGoes, HandlerLocks, HasState, HandlerUnlocks,
     HandlerReturns, HandlerPanics, TaskEnds, ChannelKept, app, work, loop
<1>10. CASE UNCHANGED vars
  BY <1>10 DEF vars, ChannelKept, app, work, loop
<1> HIDE DEF TypeOK
<1> QED
  BY <1>1, <1>2, <1>3, <1>4, <1>5, <1>6, <1>7, <1>8, <1>9, <1>10
  DEF Next, Done, AppStep, LoopStep, HandlerRuns

(* What is answered has been decided. *)
LEMMA AnswerKnownStep ==
  IInv /\ [Next \/ Done]_vars => AnswerKnown'
<1> SUFFICES ASSUME IInv, [Next \/ Done]_vars PROVE AnswerKnown'
  OBVIOUS
<1> USE DispatchAssumption DEF IInv
<1>1. ASSUME NEW x \in Components, Create(x) \/ Resolve(x) \/ Drop(x) \/
             Delete(x)
      PROVE  AnswerKnown'
  BY <1>1 DEF Create, HasState, Resolve, Drop, Delete, AnswerKnown,
     Outcomes, app, work, loop
<1>2. ASSUME NEW ms \in SUBSET Methods, UpdateDocument(ms) PROVE AnswerKnown'
  BY <1>2 DEF UpdateDocument, HasState, AnswerKnown, Outcomes, app, work,
     loop
<1>3. ASSUME NEW ms \in SUBSET Methods, NEW c \in Contexts, Patch(c, ms)
      PROVE  AnswerKnown'
  BY <1>3 DEF Patch, AnswerKnown, Outcomes, app, work, loop
<1>4. ASSUME NEW m \in Methods, NEW t \in Targets, NEW wanted \in BOOLEAN,
             Ask(m, t, wanted)
      PROVE  AnswerKnown'
  BY <1>4 DEF Ask, AnswerKnown, Outcomes, app, work, loop
<1>5. CASE LockState \/ FindMethod \/ FindContext \/ CheckListed \/
           Leave \/ Fetch \/ Send \/ Await \/ WriteReply
  BY <1>5 DEF LockState, FindMethod, Found, Refuse, FindContext,
     CheckListed, HasMethod, Leave, Unlock, Fetch, Send, Return, Await,
     WriteReply, AnswerKnown, Outcomes, app, work, loop
<1>6. ASSUME NEW m \in Methods, TakeCall(m) \/ HandlerLocks(m) \/
             HandlerUnlocks(m) \/ HandlerReturns(m) \/
             HandlerPanics(m) \/ TaskEnds(m)
      PROVE  AnswerKnown'
  BY <1>6 DEF TakeCall, TaskGoes, HandlerLocks, HasState, HandlerUnlocks,
     HandlerReturns, HandlerPanics, TaskEnds, AnswerKnown, Outcomes, app,
     work, loop
<1>7. CASE UNCHANGED vars
  BY <1>7 DEF vars, AnswerKnown, Outcomes, app, work, loop
<1> QED
  BY <1>1, <1>2, <1>3, <1>4, <1>5, <1>6, <1>7
  DEF Next, Done, AppStep, LoopStep, HandlerRuns

(* The unwrap of the slot succeeds: the look-up holds the method (Fetch). *)
LEMMA LoopSurvivesStep ==
  IInv /\ [Next \/ Done]_vars => LoopSurvives'
<1> SUFFICES ASSUME IInv, [Next \/ Done]_vars PROVE LoopSurvives'
  OBVIOUS
<1> USE DispatchAssumption DEF IInv, TypeOK
<1>1. ASSUME NEW x \in Components, Create(x)
      PROVE  LoopSurvives'
  BY <1>1 DEF Create, HasState, LoopSurvives, HoldsMethod, TasksLast, app,
     work, loop
<1>2. ASSUME NEW x \in Components, Resolve(x) \/ Drop(x) \/ Delete(x)
      PROVE  LoopSurvives'
  BY <1>2 DEF Resolve, HasState, Drop, Delete, LoopSurvives, HoldsMethod,
     TasksLast, app, work, loop
<1>3. ASSUME NEW ms \in SUBSET Methods, UpdateDocument(ms) PROVE LoopSurvives'
  BY <1>3 DEF UpdateDocument, HasState, LoopSurvives, HoldsMethod,
     TasksLast, app, work, loop
<1>4. ASSUME NEW ms \in SUBSET Methods, NEW c \in Contexts, Patch(c, ms)
      PROVE  LoopSurvives'
  BY <1>4 DEF Patch, LoopSurvives, HoldsMethod, TasksLast, app, work, loop
<1>5. ASSUME NEW m \in Methods, NEW t \in Targets, NEW wanted \in BOOLEAN,
             Ask(m, t, wanted)
      PROVE  LoopSurvives'
  BY <1>5 DEF Ask, LoopSurvives, HoldsMethod, TasksLast, app, work, loop
<1>6. CASE LockState \/ FindMethod \/ FindContext \/ CheckListed \/
           Leave \/ Send \/ Await \/ WriteReply
  BY <1>6 DEF LockState, FindMethod, Found, Refuse, FindContext,
     CheckListed, HasMethod, Leave, Unlock, Send, Return, Await, WriteReply,
     LoopSurvives, HoldsMethod, TasksLast, app, work, loop
<1>7. CASE Fetch
  BY <1>7 DEF Fetch, Unlock, LoopSurvives, HoldsMethod, TasksLast, app,
     work, loop
<1>8. ASSUME NEW m \in Methods, TakeCall(m) \/ HandlerLocks(m) \/
             HandlerUnlocks(m) \/ HandlerReturns(m) \/ TaskEnds(m)
      PROVE  LoopSurvives'
  BY <1>8 DEF TakeCall, TaskGoes, HandlerLocks, HasState, HandlerUnlocks,
     HandlerReturns, TaskEnds, LoopSurvives, HoldsMethod, TasksLast, app,
     work, loop
<1>9. ASSUME NEW m \in Methods, HandlerPanics(m)
      PROVE  LoopSurvives'
  BY <1>9 DEF HandlerPanics, LoopSurvives, HoldsMethod, TasksLast, app,
     work, loop
<1>10. CASE UNCHANGED vars
  BY <1>10 DEF vars, LoopSurvives, HoldsMethod, TasksLast, app, work, loop
<1> HIDE DEF TypeOK
<1> QED
  BY <1>1, <1>2, <1>3, <1>4, <1>5, <1>6, <1>7, <1>8, <1>9, <1>10
  DEF Next, Done, AppStep, LoopStep, HandlerRuns

(* A task that has gone while a sender is left has panicked. *)
LEMMA FailureStep ==
  IInv /\ [Next \/ Done]_vars => FailureNeedsPanic'
<1> SUFFICES ASSUME IInv, [Next \/ Done]_vars PROVE FailureNeedsPanic'
  OBVIOUS
<1> USE DispatchAssumption DEF IInv, TypeOK, Targets, Call, Nothing,
    CallKnown
<1>1. ASSUME NEW x \in Components, Create(x)
      PROVE  FailureNeedsPanic'
  BY <1>1 DEF Create, HasState, FailureNeedsPanic, Answered, ChannelKept,
     TasksLast, AnswerKnown, Alive, app, work, loop
<1>2. ASSUME NEW x \in Components, Resolve(x) \/ Drop(x) \/ Delete(x)
      PROVE  FailureNeedsPanic'
  BY <1>2 DEF Resolve, HasState, Drop, Delete, FailureNeedsPanic, Answered,
     ChannelKept, TasksLast, AnswerKnown, Alive, app, work, loop
<1>3. ASSUME NEW ms \in SUBSET Methods, UpdateDocument(ms) PROVE FailureNeedsPanic'
  BY <1>3 DEF UpdateDocument, HasState, FailureNeedsPanic, Answered,
     ChannelKept, TasksLast, AnswerKnown, Alive, app, work, loop
<1>4. ASSUME NEW ms \in SUBSET Methods, NEW c \in Contexts, Patch(c, ms)
      PROVE  FailureNeedsPanic'
  BY <1>4 DEF Patch, FailureNeedsPanic, Answered, ChannelKept, TasksLast,
     AnswerKnown, Alive, app, work, loop
<1>5. ASSUME NEW m \in Methods, NEW t \in Targets, NEW wanted \in BOOLEAN,
             Ask(m, t, wanted)
      PROVE  FailureNeedsPanic'
  BY <1>5 DEF Ask, FailureNeedsPanic, Answered, ChannelKept, TasksLast,
     AnswerKnown, Alive, app, work, loop
<1>6. CASE LockState \/ FindMethod \/ FindContext \/ CheckListed \/
           Leave \/ Fetch \/ WriteReply
  BY <1>6 DEF LockState, FindMethod, Found, Refuse, FindContext,
     CheckListed, HasMethod, Leave, Unlock, Fetch, WriteReply,
     FailureNeedsPanic, Answered, ChannelKept, TasksLast, AnswerKnown,
     Alive, app, work, loop
<1>7. CASE Send
  BY <1>7 DEF Send, Return, FailureNeedsPanic, Answered, ChannelKept,
     TasksLast, AnswerKnown, Alive, app, work, loop
<1>8. CASE Await
  BY <1>8 DEF Await, Return, FailureNeedsPanic, Answered, ChannelKept,
     TasksLast, AnswerKnown, Alive, app, work, loop
<1>9. ASSUME NEW m \in Methods, TakeCall(m) \/ HandlerLocks(m) \/
             HandlerUnlocks(m) \/ HandlerReturns(m) \/
             HandlerPanics(m) \/ TaskEnds(m)
      PROVE  FailureNeedsPanic'
  BY <1>9 DEF TakeCall, TaskGoes, HandlerLocks, HasState, HandlerUnlocks,
     HandlerReturns, HandlerPanics, TaskEnds, FailureNeedsPanic, Answered,
     ChannelKept, TasksLast, AnswerKnown, Alive, app, work, loop
<1>10. CASE UNCHANGED vars
  BY <1>10 DEF vars, FailureNeedsPanic, Answered, ChannelKept, TasksLast,
     AnswerKnown, Alive, app, work, loop
<1> HIDE DEF TypeOK
<1> QED
  BY <1>1, <1>2, <1>3, <1>4, <1>5, <1>6, <1>7, <1>8, <1>9, <1>10
  DEF Next, Done, AppStep, LoopStep, HandlerRuns

(* Every step keeps the types. *)
LEMMA TypeStep ==
  IInv /\ [Next \/ Done]_vars => TypeOK'
<1> SUFFICES ASSUME IInv, [Next \/ Done]_vars PROVE TypeOK'
  OBVIOUS
<1> USE DispatchAssumption DEF IInv, TypeOK, Components, Targets, Call,
    Nothing, Free, Loop, Outcomes
<1>1. ASSUME NEW x \in Components, Create(x)
      PROVE  TypeOK'
  BY <1>1 DEF Create, HasState, Referenced, app, work, loop
<1>2. ASSUME NEW x \in Components, Resolve(x)
      PROVE  TypeOK'
  BY <1>2 DEF Resolve, HasState, Referenced, app, work, loop
<1>3. ASSUME NEW x \in Components, Drop(x)
      PROVE  TypeOK'
  BY <1>3 DEF Drop, Referenced, app, work, loop
<1>4. ASSUME NEW x \in Components, Delete(x)
      PROVE  TypeOK'
  BY <1>4 DEF Delete, Referenced, app, work, loop
<1>5. ASSUME NEW ms \in SUBSET Methods, UpdateDocument(ms) PROVE TypeOK'
  BY <1>5 DEF UpdateDocument, HasState, Referenced, app, work, loop
<1>6. ASSUME NEW ms \in SUBSET Methods, NEW c \in Contexts, Patch(c, ms)
      PROVE  TypeOK'
  BY <1>6 DEF Patch, Referenced, app, work, loop
<1>7. ASSUME NEW m \in Methods, NEW t \in Targets, NEW wanted \in BOOLEAN,
             Ask(m, t, wanted)
      PROVE  TypeOK'
  BY <1>7 DEF Ask, Referenced, app, work, loop
<1>8. CASE LockState \/ FindMethod \/ FindContext \/ CheckListed \/
           Leave \/ Fetch
  BY <1>8 DEF LockState, FindMethod, Found, Refuse, FindContext,
     CheckListed, HasMethod, Leave, Unlock, Fetch, Referenced, app, work,
     loop
<1>9. CASE Send
  <2>1. call \in Call
    BY <1>9 DEF Send, CallKnown
  <2>2. Append(inbox[call.method], call.id) \in Seq(1 .. MaxCalls)
    BY <2>1 DEF Call
  <2>3. inbox' \in [Methods -> Seq(1 .. MaxCalls)]
    <3>1. [inbox EXCEPT ![call.method] = Append(inbox[call.method], call.id)]
            \in [Methods -> Seq(1 .. MaxCalls)]
      BY <2>1, <2>2, OneQueue DEF Call
    <3>2. \/ inbox' = inbox
          \/ inbox' = [inbox EXCEPT ![call.method] =
                                         Append(inbox[call.method], call.id)]
      BY <1>9 DEF Send
    <3> QED
      BY <3>1, <3>2
  <2>4. UNCHANGED <<app, lock, poisoned, task, outbox, call, resolved, reply>>
    BY <1>9 DEF Send
  <2>5. /\ pc' \in {"awaiting", "answering"}
        /\ channel' \subseteq Methods
        /\ answer' \in {answer, "internal_error"}
    BY <1>9 DEF Send, Return
  <2> QED
    BY <2>3, <2>4, <2>5 DEF app
<1>10. CASE Await
  <2>1. call \in Call
    BY <1>10 DEF Await, CallKnown
  <2>2. outbox[call.method] # <<>> =>
           Tail(outbox[call.method]) \in Seq(1 .. MaxCalls)
    BY <2>1, TailType DEF Call
  <2>3. outbox' \in [Methods -> Seq(1 .. MaxCalls)]
    <3>1. outbox[call.method] # <<>> =>
            [outbox EXCEPT ![call.method] = Tail(outbox[call.method])]
              \in [Methods -> Seq(1 .. MaxCalls)]
      BY <2>1, <2>2, OneQueue DEF Call
    <3>2. \/ outbox' = outbox
          \/ /\ outbox[call.method] # <<>>
             /\ outbox' =
                  [outbox EXCEPT ![call.method] = Tail(outbox[call.method])]
      BY <1>10 DEF Await
    <3> QED
      BY <3>1, <3>2
  <2>4. UNCHANGED <<app, lock, poisoned, task, inbox, call, resolved, reply>>
    BY <1>10 DEF Await
  <2>5. /\ pc' = "answering"
        /\ channel' \subseteq Methods
        /\ answer' \in {"result", "internal_error"}
    BY <1>10 DEF Await, Return
  <2> QED
    BY <2>3, <2>4, <2>5 DEF app
<1>11. CASE WriteReply
  BY <1>11 DEF WriteReply, Call, CallKnown, AnswerKnown, app, work, loop
<1>12. ASSUME NEW m \in Methods, TakeCall(m)
      PROVE  TypeOK'
  <2>1. Tail(inbox[m]) \in Seq(1 .. MaxCalls)
    BY <1>12, TailType DEF TakeCall
  <2> QED
    BY <1>12, <2>1 DEF TakeCall, TaskGoes, app, work, loop
<1>13. ASSUME NEW m \in Methods, HandlerLocks(m) \/ HandlerUnlocks(m) \/
             HandlerPanics(m)
      PROVE  TypeOK'
  BY <1>13 DEF HandlerLocks, HasState, TaskGoes, HandlerUnlocks,
     HandlerPanics, Referenced, app, work, loop
<1>14. ASSUME NEW m \in Methods, HandlerReturns(m)
      PROVE  TypeOK'
  <2>1. call \in Call
    BY <1>14 DEF HandlerReturns, TaskGoes, OneExchange, Working, CallKnown
  <2>2. Append(outbox[m], call.id) \in Seq(1 .. MaxCalls)
    BY <2>1 DEF Call
  <2>3. outbox' \in [Methods -> Seq(1 .. MaxCalls)]
    BY <1>14, <2>2, OneQueue DEF HandlerReturns
  <2>4. UNCHANGED <<app, lock, poisoned, inbox, loop, reply>>
    BY <1>14 DEF HandlerReturns
  <2>5. task' \in [Methods -> {"none", "waiting", "running", "locked",
                                "unlocked", "dead", "ended"}]
    BY <1>14 DEF HandlerReturns, TaskGoes
  <2> QED
    BY <2>3, <2>4, <2>5 DEF app, loop
<1>15. ASSUME NEW m \in Methods, TaskEnds(m)
      PROVE  TypeOK'
  BY <1>15 DEF TaskEnds, TaskGoes, Referenced, app, work, loop
<1>16. CASE UNCHANGED vars
  BY <1>16 DEF vars, Referenced, app, work, loop
<1> HIDE DEF TypeOK
<1> QED
  BY <1>1, <1>2, <1>3, <1>4, <1>5, <1>6, <1>7, <1>8, <1>9, <1>10, <1>11,
     <1>12, <1>13, <1>14, <1>15, <1>16
  DEF Next, Done, AppStep, LoopStep, HandlerRuns

(* The initial states satisfy the invariant. *)
LEMMA InvInit == Init => IInv
<1> SUFFICES ASSUME Init PROVE IInv
  OBVIOUS
<1> USE DispatchAssumption DEF Init
<1>1. TypeOK
  <2>1. <<>> \in Seq(1 .. MaxCalls)
    OBVIOUS
  <2>2. /\ inbox \in [Methods -> Seq(1 .. MaxCalls)]
        /\ outbox \in [Methods -> Seq(1 .. MaxCalls)]
    BY <2>1
  <2> QED
    BY <2>2 DEF TypeOK, Targets, Components, Free, Loop, Nothing
<1>2. CallKnown /\ OneExchange /\ HoldsMethod /\ HoldsContext
  BY DEF CallKnown, OneExchange, Working, HoldsMethod, HoldsContext
<1>3. TasksLast /\ ChannelKept /\ AnswerKnown
  BY DEF TasksLast, ChannelKept, AnswerKnown
<1>4. LoopSurvives /\ FailureNeedsPanic
  BY DEF LoopSurvives, FailureNeedsPanic, Answered
<1> QED
  BY <1>1, <1>2, <1>3, <1>4 DEF IInv

(* The invariant is inductive. *)
LEMMA InvStep == IInv /\ [Next \/ Done]_vars => IInv'
  BY TypeStep, CallKnownStep, OneExchangeStep, HoldsMethodStep,
     HoldsContextStep, TasksLastStep, ChannelKeptStep, AnswerKnownStep,
     LoopSurvivesStep, FailureStep DEF IInv

(* Every state the dispatch of invocations can be in satisfies it. *)
THEOREM Invariance == Spec => []IInv
  BY InvInit, InvStep, PTL DEF Spec

(* The dispatch is well typed: what is listed, held or resolved is there. *)
THEOREM TypeCorrect == Spec => []TypeOK
<1>1. IInv => TypeOK
  BY DEF IInv
<1> QED
  BY <1>1, Invariance, PTL

(* The loop panics only on a mutex that a handler has poisoned: the unwrap  *)
(* of the method's slot in invoke_helper never fails.                       *)
THEOREM LoopPanicsOnlyWhenPoisoned == Spec => []LoopSurvives
<1>1. IInv => LoopSurvives
  BY DEF IInv
<1> QED
  BY <1>1, Invariance, PTL

(* An accepted call of a method with a handler fails only if it panicked.   *)
THEOREM FailureNeedsAPanic == Spec => []FailureNeedsPanic
<1>1. IInv => FailureNeedsPanic
  BY DEF IInv
<1> QED
  BY <1>1, Invariance, PTL

-----------------------------------------------------------------------------
(* The dispatch implements MethodCalls. *)

(* No call has arrived and nothing is offered. *)
LEMMA InitRefines == Init => Calls!Init
  BY DispatchAssumption
  DEF Init, Calls!Init, Calls!None, Nothing, Offers, Stage, Targets, Components,
      Referenced

(* What is offered is a set of pairs of a target and a method. *)
LEMMA OffersType == Offers' \in SUBSET (Targets \X Methods)
  BY DEF Offers

(* A step that leaves the call alone changes at most what is offered. *)
LEMMA CallUntouched ==
  ASSUME UNCHANGED <<Stage, call, reply>>
  PROVE  [Calls!Next]_Calls!vars
  BY OffersType DEF Calls!Next, Calls!Change, Calls!vars

(* A step of the loop that keeps its references and leaves the application *)
(* alone does not change what is offered.                                  *)
LEMMA SameOffers == UNCHANGED <<app, resolved>> => UNCHANGED Offers
  BY DEF Offers, Referenced, app

(* Every step is a step of MethodCalls or leaves it alone: the look-up judges *)
(* the call when it refuses it or reads the list, and an exchange that ends    *)
(* tells of this call.                                                         *)
LEMMA StepRefines ==
  IInv /\ [Next \/ Done]_vars => [Calls!Next]_Calls!vars
<1> SUFFICES ASSUME IInv, [Next \/ Done]_vars PROVE [Calls!Next]_Calls!vars
  OBVIOUS
<1> USE DispatchAssumption
<1>1. ASSUME NEW x \in Components, Create(x) \/ Resolve(x) \/ Drop(x) \/ Delete(x)
      PROVE  [Calls!Next]_Calls!vars
  BY <1>1, CallUntouched DEF Create, Resolve, Drop,
     Delete, Stage, app, work, loop
<1>2. ASSUME NEW ms \in SUBSET Methods,
             UpdateDocument(ms) \/ \E c \in Contexts : Patch(c, ms)
      PROVE  [Calls!Next]_Calls!vars
  BY <1>2, CallUntouched DEF UpdateDocument,
     Patch, Stage, app, work, loop
<1>3. ASSUME NEW m \in Methods, NEW t \in Targets, NEW wanted \in BOOLEAN,
             Ask(m, t, wanted)
      PROVE  [Calls!Next]_Calls!vars
  <2>1. Stage = "idle" /\ Stage' = "asked" /\ UNCHANGED Offers
    BY <1>3, SameOffers DEF Ask, Stage
  <2>2. Calls!Ask(m, t, wanted)
    BY <1>3, <2>1 DEF Ask, Calls!Ask
  <2> QED
    BY <2>2 DEF Calls!Next
<1>4. CASE LockState
  BY <1>4, CallUntouched DEF LockState, Stage
<1>5. CASE FindMethod
  <2>1. CASE Found(call.method, "context")
    BY <1>5, <2>1, CallUntouched DEF FindMethod, Found, Stage
  <2>2. CASE ~ Referenced(call.method) /\ Refuse
    <3>1. Stage = "asked" /\ Stage' = "refused" /\ UNCHANGED Offers
      BY <1>5, <2>2, SameOffers DEF FindMethod, Refuse, Stage
    <3>2. ~ Calls!Offered
      BY <2>2 DEF Calls!Offered, Offers, Referenced
    <3> QED
      BY <2>2, <3>1, <3>2 DEF Refuse, Calls!Judge, Calls!Next
  <2> QED
    BY <1>5, <2>1, <2>2 DEF FindMethod
<1>6. CASE FindContext
  <2>1. CASE call.target # Document /\ ~ Referenced(call.target) /\ Refuse
    <3>1. Stage = "asked" /\ Stage' = "refused" /\ UNCHANGED Offers
      BY <1>6, <2>1, SameOffers DEF FindContext, Refuse, Stage
    <3>2. ~ Calls!Offered
      BY <2>1 DEF Calls!Offered, Offers
    <3> QED
      BY <2>1, <3>1, <3>2 DEF Refuse, Calls!Judge, Calls!Next
  <2>2. CASE ~ (call.target # Document /\ ~ Referenced(call.target) /\ Refuse)
    BY <1>6, <2>2, CallUntouched DEF FindContext, Found, Stage
  <2> QED
    BY <2>1, <2>2
<1>7. CASE CheckListed
  <2>1. call \in Call /\ Stage = "asked" /\ UNCHANGED <<Offers, call, reply>>
    BY <1>7, SameOffers DEF CheckListed, Refuse, Stage, IInv, CallKnown
  <2>2. HasMethod <=> Calls!Offered
    BY <1>7, <2>1
    DEF CheckListed, HasMethod, Calls!Offered, Offers, Referenced, Call, IInv,
        HoldsContext, TypeOK
  <2>3. Stage' = IF HasMethod THEN "accepted" ELSE "refused"
    BY <1>7 DEF CheckListed, Refuse, Stage
  <2> QED
    BY <2>1, <2>2, <2>3 DEF Calls!Judge, Calls!Next
<1>8. CASE Leave
  BY <1>8, CallUntouched DEF Leave, Stage, IInv, AnswerKnown
<1>9. CASE Fetch
  <2>1. call.method \in present
    BY <1>9 DEF Fetch, IInv, HoldsMethod, TypeOK
  <2> QED
    BY <1>9, <2>1, CallUntouched DEF Fetch, Stage
<1>10. CASE Send
  <2>1. Stage = "accepted" /\ UNCHANGED <<Offers, call, reply>>
    BY <1>10, SameOffers DEF Send, Stage
  <2>2. CASE call.method \in channel /\ Alive(call.method)
    <3>1. inbox'[call.method] # <<>>
      BY <1>10, <2>2 DEF Send, IInv, TypeOK, CallKnown, Call
    <3>2. Stage' = "accepted"
      BY <1>10, <2>2, <3>1 DEF Send, Stage
    <3> QED
      BY <2>1, <3>2, CallUntouched
  <2>3. CASE ~ (call.method \in channel /\ Alive(call.method))
    <3>1. Stage' = "failed"
      BY <1>10, <2>3 DEF Send, Return, Stage
    <3> QED
      BY <2>1, <3>1 DEF Calls!Finish, Calls!Next
  <2> QED
    BY <2>2, <2>3
<1>11. CASE Await
  <2>1. UNCHANGED <<Offers, call, reply>>
    BY <1>11, SameOffers DEF Await
  <2>2. CASE outbox[call.method] # <<>>
    <3>1. inbox[call.method] = <<>>
      BY <1>11, <2>2 DEF Await, IInv, OneExchange, CallKnown, Call
    <3>2. Stage = "ran" /\ Stage' = "done"
      BY <1>11, <2>2, <3>1 DEF Await, Return, Stage
    <3> QED
      BY <2>1, <3>2 DEF Calls!Finish, Calls!Next
  <2>3. CASE outbox[call.method] = <<>>
    <3>1. Stage \in {"accepted", "ran"} /\ Stage' = "failed"
      BY <1>11, <2>3 DEF Await, Return, Stage
    <3> QED
      BY <2>1, <3>1 DEF Calls!Finish, Calls!Next
  <2> QED
    BY <2>2, <2>3
<1>12. CASE WriteReply
  <2>1. Stage' = "idle" /\ UNCHANGED <<Offers, call>>
    BY <1>12, SameOffers DEF WriteReply, Stage
  <2>2. /\ Stage \in {"refused", "done", "failed"}
        /\ Calls!Outcome = answer
    BY <1>12 DEF WriteReply, Stage, Calls!Outcome, IInv, AnswerKnown, Outcomes
  <2> QED
    BY <1>12, <2>1, <2>2 DEF WriteReply, Calls!Reply, Calls!Next
<1>13. ASSUME NEW m \in Methods, TakeCall(m)
      PROVE  [Calls!Next]_Calls!vars
  <2>1. pc = "awaiting" /\ call.method = m /\ Tail(inbox[m]) = <<>>
    BY <1>13 DEF TakeCall, IInv, OneExchange
  <2>2. Stage = "accepted" /\ Stage' = "ran" /\ UNCHANGED Offers
    BY <1>13, <2>1, SameOffers DEF TakeCall, Stage, loop, IInv, TypeOK
  <2> QED
    BY <1>13, <2>2 DEF TakeCall, loop, Calls!Run, Calls!Next
<1>14. ASSUME NEW m \in Methods, HandlerRuns(m) \/ TaskEnds(m)
      PROVE  [Calls!Next]_Calls!vars
  BY <1>14, CallUntouched
  DEF HandlerRuns, HandlerLocks, HandlerUnlocks, HandlerReturns,
      HandlerPanics, TaskEnds, Stage, loop
<1>15. CASE UNCHANGED vars
  BY <1>15, CallUntouched DEF vars, Stage, work, loop
<1> QED
  BY <1>1, <1>2, <1>3, <1>4, <1>5, <1>6, <1>7, <1>8, <1>9, <1>10, <1>11,
     <1>12, <1>13, <1>14, <1>15
  DEF Next, Done, AppStep, LoopStep

(* An invocation is judged by what is offered at one moment of its handling,  *)
(* runs once at most, and is answered with its own outcome.                   *)
THEOREM DispatchImplementsCalls == Spec => CallsSpec
<1>1. Spec => Calls!Spec
  BY InitRefines, StepRefines, Invariance, PTL DEF Spec, Calls!Spec
<1> QED
  BY <1>1 DEF CallsSpec
=============================================================================
