---------------------- MODULE EmailClassificationProofs ----------------------
(***************************************************************************)
(* Proofs about EmailClassification, for every set of workers and messages *)
(* and any number of attempts.                                             *)
(***************************************************************************)
EXTENDS EmailClassification, TLAPS

-----------------------------------------------------------------------------
(* Constants and the jobs of a message.                                    *)

LEMMA JobFacts ==
    /\ NoJob \notin Jobs
    /\ NoWorker \notin Workers
    /\ \A m \in Messages : ClassifyJob(m) \in Jobs /\ ReviewJob(m) \in Jobs
    /\ \A j \in Jobs : /\ j[1] \in Messages
                       /\ j = ClassifyJob(j[1]) \/ j = ReviewJob(j[1])
    /\ \A m, n \in Messages : /\ ClassifyJob(m) # ReviewJob(n)
                              /\ ClassifyJob(m) = ClassifyJob(n) => m = n
                              /\ ReviewJob(m) = ReviewJob(n) => m = n
    /\ \A m \in Messages : ClassifyJob(m)[1] = m /\ ReviewJob(m)[1] = m
BY ClassificationAssumption DEF Jobs, ClassifyJob, ReviewJob

LEMMA ClassFacts ==
    /\ "NONE" \notin Classes
    /\ Conclusive = Classes \ {"MANUAL_REVIEW"}
    /\ "INVOICE" \in Classes /\ "MANUAL_REVIEW" \in Classes
BY ClassificationAssumption DEF Classes, Conclusive

-----------------------------------------------------------------------------
(* Type correctness.                                                       *)

LEMMA RestingType == Resting \in HandlerType /\ Arrival \in Locators
BY DEF Resting, HandlerType, Arrival, Locators

\* A handler that only goes on to another label keeps its type and the rest.
LEMMA GoToEffect ==
    ASSUME TypeOK, NEW w \in Workers, NEW label \in {"idle", "leave"} \cup Working \cup Ending,
           GoTo(w, label)
    PROVE  /\ handler' \in [Workers -> HandlerType]
           /\ handler'[w].pc = label
           /\ handler'[w].job = handler[w].job
           /\ handler'[w].loc = handler[w].loc
           /\ handler'[w].class = handler[w].class
           /\ \A v \in Workers : v # w => handler'[v] = handler[v]
BY DEF TypeOK, GoTo, HandlerType

\* What the row functions give.
LEMMA RowTypes ==
    ASSUME NEW r \in RowType, NEW c \in Classes, NEW loc \in Locators
    PROVE  /\ Classified(r, c) \in RowType
           /\ Filed(r, loc) \in RowType
           /\ Resolved(r, c) \in RowType
           /\ [r EXCEPT !.status = "ERROR"] \in RowType
BY DEF RowType, Classified, Filed, Resolved

LEMMA EmailTypeInit == Init => TypeOK
<1> SUFFICES ASSUME Init PROVE TypeOK
  OBVIOUS
<1>1. Queue!LifecycleTypeOK
  BY ClassificationAssumption DEF Init, Queue!Init, Queue!LifecycleTypeOK, Queue!States
<1>2. row \in [Messages -> RowType]
  BY RestingType DEF Init, RowType
<1> QED BY <1>1, <1>2, RestingType DEF Init, TypeOK

LEMMA QueueTypeStep ==
    ASSUME Queue!LifecycleTypeOK,
           \/ \E j \in Jobs : \/ Queue!Submit(j) \/ Queue!End(j) \/ Queue!Settle(j)
                              \/ \E w \in Workers : Queue!Attempt(j, w) \/ Queue!Begin(j, w)
           \/ \E w \in Workers : Queue!Abandon(w)
           \/ \E S \in SUBSET Jobs : Queue!TakeBack(S)
           \/ UNCHANGED queueVars
    PROVE  Queue!LifecycleTypeOK'
<1>t. /\ state \in [Jobs -> Queue!States]
      /\ tries \in [Jobs -> 0..MaxAttempts]
      /\ executor \in [Jobs -> Workers \cup {NoWorker}]
      /\ claim \in [Workers -> Jobs \cup {NoJob}]
      /\ MaxAttempts \in Nat \ {0}
  BY ClassificationAssumption DEF Queue!LifecycleTypeOK
<1>s. \A j \in Jobs : Queue!AfterFailure(j) \in Queue!States
  BY DEF Queue!AfterFailure, Queue!States
<1>1. ASSUME NEW j \in Jobs, Queue!Submit(j) \/ Queue!End(j) PROVE Queue!LifecycleTypeOK'
  BY <1>1, <1>t DEF Queue!Submit, Queue!End, Queue!LifecycleTypeOK, Queue!States
<1>2. ASSUME NEW j \in Jobs, Queue!Settle(j) PROVE Queue!LifecycleTypeOK'
  BY <1>2, <1>t, <1>s DEF Queue!Settle, Queue!LifecycleTypeOK, Queue!States
<1>3. ASSUME NEW j \in Jobs, NEW w \in Workers, Queue!Attempt(j, w)
      PROVE  Queue!LifecycleTypeOK'
  <2>1. tries[j] + 1 \in 0..MaxAttempts
    BY <1>3, <1>t DEF Queue!Attempt
  <2> QED BY <1>3, <2>1, <1>t DEF Queue!Attempt, Queue!LifecycleTypeOK, Queue!States
<1>4. ASSUME NEW j \in Jobs, NEW w \in Workers, Queue!Begin(j, w)
      PROVE  Queue!LifecycleTypeOK'
  BY <1>4, <1>t DEF Queue!Begin, Queue!LifecycleTypeOK
<1>5. ASSUME NEW w \in Workers, Queue!Abandon(w) PROVE Queue!LifecycleTypeOK'
  BY <1>5, <1>t DEF Queue!Abandon, Queue!LifecycleTypeOK
<1>6. ASSUME NEW S \in SUBSET Jobs, Queue!TakeBack(S) PROVE Queue!LifecycleTypeOK'
  BY <1>6, <1>t, <1>s DEF Queue!TakeBack, Queue!LifecycleTypeOK
<1>7. CASE UNCHANGED queueVars
  BY <1>7, <1>t DEF queueVars, Queue!LifecycleTypeOK
<1> QED BY <1>1, <1>2, <1>3, <1>4, <1>5, <1>6, <1>7

\* What a worker does to its own record, and that it leaves the others alone.
LEMMA LoadEffect ==
    ASSUME TypeOK, NEW w \in Workers, Mail(w) \in Messages, Load(w)
    PROVE  /\ handler' \in [Workers -> HandlerType]
           /\ handler'[w].pc = AfterLoad(row[Mail(w)])
           /\ handler'[w].job = handler[w].job
           /\ handler'[w].loc = row[Mail(w)].loc
           /\ handler'[w].class = row[Mail(w)].class
           /\ \A v \in Workers : v # w => handler'[v] = handler[v]
<1> DEFINE pc == AfterLoad(row[Mail(w)])
           loc == row[Mail(w)].loc
           c == row[Mail(w)].class
<1>1. loc \in Locators /\ c \in Classes \cup {"NONE"} /\ pc \in Working
  BY DEF TypeOK, RowType, AfterLoad, Working
<1>2. handler' = [handler EXCEPT ![w].pc = pc, ![w].loc = loc, ![w].class = c]
  BY DEF Load
<1> HIDE DEF pc, loc, c
<1>3. /\ handler' \in [Workers -> HandlerType]
      /\ handler'[w].pc = pc
      /\ handler'[w].job = handler[w].job
      /\ handler'[w].loc = loc
      /\ handler'[w].class = c
      /\ \A v \in Workers : v # w => handler'[v] = handler[v]
  BY <1>1, <1>2 DEF TypeOK, HandlerType
<1> QED BY <1>3 DEF pc, loc, c

LEMMA AskEffect ==
    ASSUME TypeOK, NEW w \in Workers, Ask(w)
    PROVE  /\ handler' \in [Workers -> HandlerType]
           /\ handler'[w].pc = "save"
           /\ handler'[w].job = handler[w].job
           /\ handler'[w].loc = handler[w].loc
           /\ handler'[w].class \in Classes
           /\ \A v \in Workers : v # w => handler'[v] = handler[v]
<1>1. PICK c \in Classes : handler' = [handler EXCEPT ![w].pc = "save", ![w].class = c]
  BY DEF Ask
<1> QED BY <1>1 DEF TypeOK, HandlerType, Working

LEMMA MoveEffect ==
    ASSUME TypeOK, NEW w \in Workers, Mail(w) \in Messages,
           handler[w].class \in Classes, Move(w)
    PROVE  /\ handler' \in [Workers -> HandlerType]
           /\ place' \in [Messages -> Locators]
           /\ handler'[w].job = handler[w].job
           /\ handler'[w].class = handler[w].class
           /\ \/ /\ handler'[w].pc = "mark"
                 /\ handler'[w].loc = place'[Mail(w)]
                 /\ place'[Mail(w)].folder = Destination(handler[w].class)
              \/ handler'[w].pc = "report"
           /\ \A v \in Workers : v # w => handler'[v] = handler[v]
           /\ \A m \in Messages : m # Mail(w) => place'[m] = place[m]
<1>1. ASSUME Moved(w)
      PROVE  /\ place' \in [Messages -> Locators]
             /\ place'[Mail(w)].folder = Destination(handler[w].class)
             /\ \A m \in Messages : m # Mail(w) => place'[m] = place[m]
  BY <1>1 DEF TypeOK, Moved, Locators, Destination
<1>2. CASE Moved(w) /\ handler' = [handler EXCEPT ![w].pc = "mark", ![w].loc = place'[Mail(w)]]
  <2> DEFINE loc == place'[Mail(w)]
  <2>1. loc \in Locators
    BY <1>1, <1>2
  <2>2. handler' = [handler EXCEPT ![w].pc = "mark", ![w].loc = loc]
    BY <1>2
  <2> HIDE DEF loc
  <2>3. /\ handler' \in [Workers -> HandlerType]
        /\ handler'[w].pc = "mark"
        /\ handler'[w].job = handler[w].job
        /\ handler'[w].loc = loc
        /\ handler'[w].class = handler[w].class
        /\ \A v \in Workers : v # w => handler'[v] = handler[v]
    BY <2>1, <2>2 DEF TypeOK, HandlerType, Working
  <2> QED BY <1>1, <1>2, <2>3 DEF loc
<1>3. CASE Moved(w) /\ GoTo(w, "report")
  BY <1>1, <1>3, GoToEffect DEF Working
<1>4. CASE UNCHANGED place /\ GoTo(w, "report")
  BY <1>4, GoToEffect DEF Working, TypeOK
<1> QED BY <1>2, <1>3, <1>4 DEF Move

LEMMA RestEffect ==
    ASSUME TypeOK, NEW w \in Workers, handler' = [handler EXCEPT ![w] = Resting]
    PROVE  /\ handler' \in [Workers -> HandlerType]
           /\ handler'[w] = Resting
           /\ \A v \in Workers : v # w => handler'[v] = handler[v]
BY RestingType DEF TypeOK

LEMMA BeginEffect ==
    ASSUME TypeOK, NEW w \in Workers, NEW j \in Jobs, Begin(w, j)
    PROVE  /\ handler' \in [Workers -> HandlerType]
           /\ handler'[w].pc = "load"
           /\ handler'[w].job = j
           /\ \A v \in Workers : v # w => handler'[v] = handler[v]
<1> DEFINE h == [Resting EXCEPT !.pc = "load", !.job = j]
<1>1. h \in HandlerType /\ h.pc = "load" /\ h.job = j
  BY RestingType DEF Resting, HandlerType, Working
<1>2. handler' = [handler EXCEPT ![w] = h]
  BY DEF Begin
<1> HIDE DEF h
<1> QED BY <1>1, <1>2 DEF TypeOK

LEMMA EmailTypeStep == TypeOK /\ ExecutionInv /\ [Next]_vars => TypeOK'
<1> SUFFICES ASSUME TypeOK, ExecutionInv, [Next]_vars PROVE TypeOK'
  OBVIOUS
<1>t. /\ Queue!LifecycleTypeOK
      /\ row \in [Messages -> RowType]
      /\ place \in [Messages -> Locators]
      /\ intake \in [Messages -> {"none", "created", "dispatched"}]
      /\ handler \in [Workers -> HandlerType]
      /\ undecided \subseteq Messages
  BY DEF TypeOK
<1>m. \A w \in Workers : ~At(w, "idle") => handler[w].job \in Jobs /\ Mail(w) \in Messages
  BY JobFacts DEF ExecutionInv, Mail
<1>h. \A w \in Workers : handler[w].loc \in Locators /\ handler[w].class \in Classes \cup {"NONE"}
  BY <1>t DEF HandlerType
<1>c. \A w \in Workers : At(w, "save") \/ At(w, "move") => handler[w].class \in Classes
  BY <1>h DEF ExecutionInv
<1>q. UNCHANGED queueVars => Queue!LifecycleTypeOK'
  BY <1>t, QueueTypeStep
<1>1. CASE UNCHANGED vars
  BY <1>1, <1>t, <1>q DEF vars, queueVars, TypeOK
<1>2. ASSUME NEW S \in SUBSET Jobs, Recover(S) PROVE TypeOK'
  BY <1>2, <1>t, QueueTypeStep DEF Recover, TypeOK
<1>3. ASSUME NEW w \in Workers, Load(w) PROVE TypeOK'
  <2>1. Mail(w) \in Messages
    BY <1>3, <1>m DEF Load, At
  <2> QED BY <1>3, <1>t, <1>q, <2>1, LoadEffect DEF Load, TypeOK
<1>4. ASSUME NEW w \in Workers, Ask(w) PROVE TypeOK'
  BY <1>4, <1>t, <1>q, AskEffect DEF Ask, TypeOK
<1>5. ASSUME NEW w \in Workers, Save(w) PROVE TypeOK'
  <2>1. handler' \in [Workers -> HandlerType]
    BY <1>5, GoToEffect DEF Save, Working
  <2>2. row' \in [Messages -> RowType]
    <3>1. Mail(w) \in Messages /\ handler[w].class \in Classes
      BY <1>5, <1>m, <1>c DEF Save, At
    <3> QED BY <1>5, <1>t, <1>h, <3>1, RowTypes DEF Save
  <2> QED BY <1>5, <1>t, <1>q, <2>1, <2>2 DEF Save, TypeOK
<1>6. ASSUME NEW w \in Workers, Move(w) PROVE TypeOK'
  <2>1. Mail(w) \in Messages /\ handler[w].class \in Classes
    BY <1>6, <1>m, <1>c DEF Move, At
  <2> QED BY <1>6, <1>t, <1>q, <2>1, MoveEffect DEF Move, TypeOK
<1>7. ASSUME NEW w \in Workers, Report(w) PROVE TypeOK'
  <2>1. handler' \in [Workers -> HandlerType]
    BY <1>7, GoToEffect DEF Report, Ending
  <2>2. row' \in [Messages -> RowType]
    BY <1>7, <1>t DEF Report, RowType
  <2> QED BY <1>7, <1>t, <1>q, <2>1, <2>2 DEF Report, TypeOK
<1>8. ASSUME NEW w \in Workers, Mark(w) PROVE TypeOK'
  <2>1. handler' \in [Workers -> HandlerType]
    BY <1>8, GoToEffect DEF Mark, Ending, Working
  <2>2. row' \in [Messages -> RowType]
    <3>1. Mail(w) \in Messages
      BY <1>8, <1>m DEF Mark, At
    <3>2. Filed(row[Mail(w)], handler[w].loc) \in RowType
      BY <1>t, <1>h, <3>1, RowTypes, ClassFacts
    <3> QED BY <1>8, <1>t, <3>1, <3>2 DEF Mark
  <2> QED BY <1>8, <1>t, <1>q, <2>1, <2>2 DEF Mark, TypeOK
<1>9. ASSUME NEW w \in Workers, Create(w) \/ Dispatch(w) PROVE TypeOK'
  <2>1. handler' \in [Workers -> HandlerType]
    BY <1>9, GoToEffect DEF Create, Dispatch, Ending, Working
  <2>2. intake' \in [Messages -> {"none", "created", "dispatched"}]
    BY <1>9, <1>t DEF Create, Dispatch
  <2> QED BY <1>9, <1>t, <1>q, <2>1, <2>2 DEF Create, Dispatch, TypeOK
<1>10. ASSUME NEW w \in Workers, Raise(w) \/ LoseClaim(w) PROVE TypeOK'
  <2>1. handler' \in [Workers -> HandlerType]
    BY <1>10, GoToEffect DEF Raise, LoseClaim, Ending
  <2> QED BY <1>10, <1>t, <1>q, <2>1 DEF Raise, LoseClaim, TypeOK
<1>11. ASSUME NEW w \in Workers, Finish(w) PROVE TypeOK'
  <2>1. handler' \in [Workers -> HandlerType]
    BY <1>11, GoToEffect DEF Finish
  <2>2. handler[w].job \in Jobs
    BY <1>11, <1>m DEF Finish, At, Ending
  <2> QED BY <1>11, <1>t, <2>1, <2>2, QueueTypeStep DEF Finish, TypeOK
<1>12. ASSUME NEW w \in Workers, Leave(w) \/ Crash(w) PROVE TypeOK'
  <2>1. CASE ~At(w, "idle") /\ LetGo(w)
    BY <2>1, <1>t, <1>m, QueueTypeStep, RestEffect DEF LetGo, TypeOK
  <2>2. CASE Queue!Abandon(w) /\ UNCHANGED <<row, place, intake, handler, undecided>>
    BY <2>2, <1>t, QueueTypeStep DEF TypeOK
  <2> QED BY <1>12, <2>1, <2>2 DEF Leave, Crash, At
<1>13. ASSUME NEW w \in Workers, NEW j \in Jobs, Claim(w, j) PROVE TypeOK'
  BY <1>13, <1>t, QueueTypeStep DEF Claim, TypeOK
<1>14. ASSUME NEW w \in Workers, NEW j \in Jobs, Begin(w, j) PROVE TypeOK'
  BY <1>14, <1>t, QueueTypeStep, BeginEffect DEF Begin, TypeOK
<1>15. ASSUME NEW m \in Messages, EnqueueClassify(m) \/ EnqueueMove(m) PROVE TypeOK'
  BY <1>15, <1>t, QueueTypeStep, JobFacts DEF EnqueueClassify, EnqueueMove, TypeOK
<1>16. ASSUME NEW m \in Messages, Resolve(m) PROVE TypeOK'
  <2>1. row' \in [Messages -> RowType]
    <3>1. PICK c \in Conclusive : row' = [row EXCEPT ![m] = Resolved(@, c)]
      BY <1>16 DEF Resolve
    <3>2. Resolved(row[m], c) \in RowType
      BY <1>t, RowTypes, RestingType, ClassFacts
    <3> QED BY <1>t, <3>1, <3>2
  <2> QED BY <1>16, <1>t, <1>q, <2>1 DEF Resolve, TypeOK
<1>17. ASSUME NEW m \in Messages, ApiCrash(m) PROVE TypeOK'
  BY <1>17, <1>t, <1>q DEF ApiCrash, TypeOK
<1> QED BY <1>1, <1>2, <1>3, <1>4, <1>5, <1>6, <1>7, <1>8, <1>9, <1>10, <1>11, <1>12,
           <1>13, <1>14, <1>15, <1>16, <1>17 DEF Next, HandlerStep

-----------------------------------------------------------------------------
(* Workers, their jobs and the reviewer.                                   *)

\* A step that leaves the queue alone and only moves one busy worker on.
LEMMA BusyStep ==
    ASSUME TypeOK, ExecutionInv, UNCHANGED queueVars,
           NEW w \in Workers, ~At(w, "idle"), handler'[w].pc # "idle",
           handler'[w].job = handler[w].job,
           handler'[w].pc \in {"save", "move"} => handler'[w].class # "NONE",
           \A v \in Workers : v # w => handler'[v] = handler[v]
    PROVE  ExecutionInv'
<1>1. executor \in [Jobs -> Workers \cup {NoWorker}]
  BY DEF TypeOK, Queue!LifecycleTypeOK
<1> QED BY <1>1 DEF ExecutionInv, queueVars, At

LEMMA ExecutionStep == TypeOK /\ ExecutionInv /\ [Next]_vars => ExecutionInv'
<1> SUFFICES ASSUME TypeOK, ExecutionInv, [Next]_vars PROVE ExecutionInv'
  OBVIOUS
<1>t. /\ state \in [Jobs -> Queue!States]
      /\ executor \in [Jobs -> Workers \cup {NoWorker}]
      /\ claim \in [Workers -> Jobs \cup {NoJob}]
  BY DEF TypeOK, Queue!LifecycleTypeOK
<1>m. \A w \in Workers : ~At(w, "idle") => handler[w].job \in Jobs /\ Mail(w) \in Messages
  BY JobFacts DEF ExecutionInv, Mail
<1>c. \A w \in Workers : At(w, "save") \/ At(w, "move") => handler[w].class \in Classes
  BY DEF ExecutionInv, TypeOK, HandlerType
<1>1. CASE UNCHANGED vars
  BY <1>1 DEF vars, ExecutionInv, At
<1>2. ASSUME NEW S \in SUBSET Jobs, Recover(S) PROVE ExecutionInv'
  BY <1>2, <1>t DEF Recover, Queue!TakeBack, Queue!AfterFailure, ExecutionInv, At
<1>3. ASSUME NEW w \in Workers, Load(w) PROVE ExecutionInv'
  <2>1. Mail(w) \in Messages /\ ~At(w, "idle") /\ UNCHANGED queueVars
    BY <1>3, <1>m DEF Load, At
  <2>2. AfterLoad(row[Mail(w)]) # "idle"
    BY DEF AfterLoad
  <2>3. AfterLoad(row[Mail(w)]) \in {"save", "move"} => row[Mail(w)].class # "NONE"
    BY DEF AfterLoad
  <2> QED BY <1>3, <2>1, <2>2, <2>3, LoadEffect, BusyStep
<1>4. ASSUME NEW w \in Workers, Ask(w) PROVE ExecutionInv'
  <2>1. ~At(w, "idle") /\ UNCHANGED queueVars
    BY <1>4 DEF Ask, At
  <2> QED BY <1>4, <2>1, AskEffect, BusyStep, ClassFacts
<1>5. ASSUME NEW w \in Workers, Move(w) PROVE ExecutionInv'
  <2>1. Mail(w) \in Messages /\ ~At(w, "idle") /\ UNCHANGED queueVars /\ handler[w].class \in Classes
    BY <1>5, <1>m, <1>c DEF Move, At
  <2> QED BY <1>5, <2>1, MoveEffect, BusyStep
<1>6. ASSUME NEW w \in Workers, \/ Save(w) \/ Report(w) \/ Mark(w) \/ Create(w)
                                \/ Dispatch(w) \/ Raise(w) \/ LoseClaim(w)
      PROVE  ExecutionInv'
  <2>1. ~At(w, "idle") /\ UNCHANGED queueVars
    BY <1>6 DEF Save, Report, Mark, Create, Dispatch, Raise, LoseClaim, At, Working, Ending
  <2>2. PICK label \in {"leave"} \cup (Working \ {"save", "move"}) \cup Ending : GoTo(w, label)
    BY <1>6 DEF Save, Report, Mark, Create, Dispatch, Raise, LoseClaim, Working, Ending
  <2>3. label # "idle" /\ label \notin {"save", "move"}
    BY <2>2 DEF Working, Ending
  <2> QED BY <2>1, <2>2, <2>3, GoToEffect, BusyStep
<1>7. ASSUME NEW w \in Workers, Finish(w) PROVE ExecutionInv'
  <2>1. ~At(w, "idle") /\ handler[w].job \in Jobs
    BY <1>7, <1>m DEF Finish, At, Ending
  <2>2. /\ UNCHANGED <<executor, claim>>
        /\ \A j \in Jobs : state[j] # "ABSENT" => state'[j] # "ABSENT"
    BY <1>7, <2>1, <1>t DEF Finish, Queue!Settle, Queue!AfterFailure
  <2>3. /\ handler'[w].pc = "leave" /\ handler'[w].job = handler[w].job
        /\ \A v \in Workers : v # w => handler'[v] = handler[v]
    BY <1>7, GoToEffect DEF Finish
  <2> QED BY <1>t, <2>1, <2>2, <2>3 DEF ExecutionInv, At
<1>8. ASSUME NEW w \in Workers, ~At(w, "idle"), LetGo(w) PROVE ExecutionInv'
  <2>1. handler[w].job \in Jobs /\ executor[handler[w].job] = w
    BY <1>8, <1>m DEF ExecutionInv
  <2>2. /\ handler'[w] = Resting
        /\ \A v \in Workers : v # w => handler'[v] = handler[v]
    BY <1>8, RestEffect DEF LetGo
  <2>3. /\ UNCHANGED <<state, claim>>
        /\ executor' = [executor EXCEPT ![handler[w].job] = NoWorker]
    BY <1>8 DEF LetGo, Queue!End
  <2>4. Resting.pc = "idle"
    BY DEF Resting
  <2> QED BY <1>t, <2>1, <2>2, <2>3, <2>4, JobFacts DEF ExecutionInv, At
<1>9. ASSUME NEW w \in Workers, Queue!Abandon(w), UNCHANGED handler PROVE ExecutionInv'
  BY <1>9, <1>t, JobFacts DEF Queue!Abandon, ExecutionInv, At
<1>10. ASSUME NEW w \in Workers, NEW j \in Jobs, Claim(w, j) PROVE ExecutionInv'
  BY <1>10, <1>t, JobFacts DEF Claim, Queue!Attempt, ExecutionInv, At
<1>11. ASSUME NEW w \in Workers, NEW j \in Jobs, Begin(w, j) PROVE ExecutionInv'
  <2>1. /\ handler'[w].pc = "load" /\ handler'[w].job = j
        /\ \A v \in Workers : v # w => handler'[v] = handler[v]
    BY <1>11, BeginEffect
  <2>2. /\ claim[w] = j /\ executor[j] = NoWorker
        /\ executor' = [executor EXCEPT ![j] = w]
        /\ claim' = [claim EXCEPT ![w] = NoJob]
        /\ UNCHANGED state
    BY <1>11 DEF Begin, Queue!Begin
  <2>3. At(w, "idle") /\ state[j] # "ABSENT"
    BY <2>2, JobFacts DEF ExecutionInv
  <2>4. \A v \in Workers : ~At(v, "idle") => handler[v].job # j
    BY <2>2, JobFacts DEF ExecutionInv
  <2> QED BY <1>t, <2>1, <2>2, <2>3, <2>4, JobFacts DEF ExecutionInv, At
<1>12. ASSUME NEW m \in Messages, EnqueueClassify(m) \/ EnqueueMove(m) PROVE ExecutionInv'
  <2>1. PICK j \in Jobs : Queue!Submit(j)
    BY <1>12, JobFacts DEF EnqueueClassify, EnqueueMove
  <2>2. UNCHANGED handler
    BY <1>12 DEF EnqueueClassify, EnqueueMove
  <2> QED BY <1>t, <2>1, <2>2 DEF Queue!Submit, ExecutionInv, At
<1>13. ASSUME NEW m \in Messages, Resolve(m) \/ ApiCrash(m) PROVE ExecutionInv'
  BY <1>13 DEF Resolve, ApiCrash, queueVars, ExecutionInv, At
<1> QED BY <1>1, <1>2, <1>3, <1>4, <1>5, <1>6, <1>7, <1>8, <1>9, <1>10, <1>11, <1>12,
           <1>13 DEF Next, HandlerStep, Leave, Crash, At

\* Two workers have their hands on one mail only after a reviewer decided.
LEMMA SoleHandler ==
    ASSUME TypeOK, ExecutionInv, ReviewInv,
           NEW v \in Workers, NEW w \in Workers, v # w,
           ~At(v, "idle"), ~At(w, "idle"), Mail(v) = Mail(w)
    PROVE  row[Mail(w)].reviewed
<1>1. /\ handler[v].job \in Jobs /\ executor[handler[v].job] = v
      /\ handler[w].job \in Jobs /\ executor[handler[w].job] = w
  BY DEF ExecutionInv
<1>2. /\ state[handler[v].job] # "ABSENT" /\ state[handler[w].job] # "ABSENT"
      /\ Mail(w) \in Messages
  BY <1>1, JobFacts DEF ExecutionInv, Mail
<1>3. handler[v].job # handler[w].job
  BY <1>1
<1>4. handler[v].job = ReviewJob(Mail(w)) \/ handler[w].job = ReviewJob(Mail(w))
  BY <1>1, <1>3, JobFacts DEF Mail
<1> QED BY <1>2, <1>4 DEF ReviewInv

\* A worker that executes a reviewer's job has a reviewed mail.
LEMMA ReviewWorker ==
    ASSUME TypeOK, ExecutionInv, ReviewInv, NEW w \in Workers, ~At(w, "idle"),
           handler[w].job = ReviewJob(Mail(w))
    PROVE  row[Mail(w)].reviewed
BY JobFacts DEF ExecutionInv, ReviewInv, Mail

\* What a step does to the row of its mail.
LEMMA SaveRow ==
    ASSUME TypeOK, NEW w \in Workers, Mail(w) \in Messages, Save(w),
           row[Mail(w)].class = "NONE"
    PROVE  /\ row'[Mail(w)].class = handler[w].class
           /\ row'[Mail(w)].moved = row[Mail(w)].moved
           /\ row'[Mail(w)].reviewed = row[Mail(w)].reviewed
           /\ \A m \in Messages : m # Mail(w) => row'[m] = row[m]
<1>1. row[Mail(w)] \in RowType
  BY DEF TypeOK
<1> QED BY <1>1 DEF TypeOK, Save, Classified, RowType

LEMMA ReportRow ==
    ASSUME TypeOK, NEW w \in Workers, Mail(w) \in Messages, Report(w),
           NEW m \in Messages
    PROVE  /\ row'[m].class = row[m].class
           /\ row'[m].moved = row[m].moved
           /\ row'[m].reviewed = row[m].reviewed
           /\ row'[m].loc = row[m].loc
<1>1. row[Mail(w)] \in RowType /\ row[m] \in RowType
  BY DEF TypeOK
<1> QED BY <1>1 DEF TypeOK, Report, RowType

LEMMA MarkRow ==
    ASSUME TypeOK, NEW w \in Workers, Mail(w) \in Messages, Mark(w)
    PROVE  /\ row'[Mail(w)].class = row[Mail(w)].class
           /\ row'[Mail(w)].moved
           /\ row'[Mail(w)].reviewed = row[Mail(w)].reviewed
           /\ row[Mail(w)].moved => row'[Mail(w)] = row[Mail(w)]
           /\ ~row[Mail(w)].moved => row'[Mail(w)].loc = handler[w].loc
           /\ \A m \in Messages : m # Mail(w) => row'[m] = row[m]
<1>1. row[Mail(w)] \in RowType
  BY DEF TypeOK
<1>2. row' = [row EXCEPT ![Mail(w)] = Filed(row[Mail(w)], handler[w].loc)]
  BY DEF Mark
<1>3. CASE row[Mail(w)].moved
  BY <1>1, <1>2, <1>3 DEF TypeOK, Filed
<1>4. CASE ~row[Mail(w)].moved
  BY <1>1, <1>2, <1>4 DEF TypeOK, Filed, RowType
<1> QED BY <1>3, <1>4

LEMMA ResolveRow ==
    ASSUME TypeOK, NEW m \in Messages, Resolve(m)
    PROVE  /\ row[m].class = "MANUAL_REVIEW"
           /\ row'[m].class \in Conclusive
           /\ ~row'[m].moved
           /\ row'[m].reviewed
           /\ \A n \in Messages : n # m => row'[n] = row[n]
<1>1. PICK c \in Conclusive : row' = [row EXCEPT ![m] = Resolved(@, c)]
  BY DEF Resolve
<1>2. row[m] \in RowType
  BY DEF TypeOK
<1> QED BY <1>1, <1>2 DEF TypeOK, Resolve, Resolved, RowType

LEMMA ReviewStep ==
    TypeOK /\ ExecutionInv /\ ReviewInv /\ KnowledgeInv /\ [Next]_vars => ReviewInv'
<1> SUFFICES ASSUME TypeOK, ExecutionInv, ReviewInv, KnowledgeInv, [Next]_vars
             PROVE  ReviewInv'
  OBVIOUS
<1>m. \A w \in Workers : ~At(w, "idle") => handler[w].job \in Jobs /\ Mail(w) \in Messages
  BY JobFacts DEF ExecutionInv, Mail
<1>s. state \in [Jobs -> Queue!States]
  BY DEF TypeOK, Queue!LifecycleTypeOK
<1>1. ASSUME UNCHANGED row, undecided' \subseteq undecided,
             \A j \in Jobs : state[j] = "ABSENT" => state'[j] = "ABSENT"
      PROVE  ReviewInv'
  BY <1>1, JobFacts DEF ReviewInv
<1>2. CASE UNCHANGED vars
  BY <1>1, <1>2 DEF vars
<1>3. ASSUME NEW S \in SUBSET Jobs, Recover(S) PROVE ReviewInv'
  BY <1>1, <1>3, <1>s DEF Recover, Queue!TakeBack
<1>4. ASSUME NEW w \in Workers,
             \/ Load(w) \/ Ask(w) \/ Move(w) \/ Create(w) \/ Dispatch(w) \/ Raise(w) \/ LoseClaim(w)
      PROVE  ReviewInv'
  BY <1>1, <1>4 DEF Load, Ask, Move, Create, Dispatch, Raise, LoseClaim, queueVars
<1>5. ASSUME NEW w \in Workers, Finish(w) PROVE ReviewInv'
  <2>1. handler[w].job \in Jobs
    BY <1>5, <1>m DEF Finish, At, Ending
  <2> QED BY <1>1, <1>5, <1>s, <2>1 DEF Finish, Queue!Settle
<1>6. ASSUME NEW w \in Workers, Leave(w) \/ Crash(w) PROVE ReviewInv'
  BY <1>1, <1>6 DEF Leave, Crash, LetGo, Queue!End, Queue!Abandon
<1>7. ASSUME NEW w \in Workers, NEW j \in Jobs, Claim(w, j) \/ Begin(w, j) PROVE ReviewInv'
  BY <1>1, <1>7, <1>s DEF Claim, Begin, Queue!Attempt, Queue!Begin
<1>8. ASSUME NEW w \in Workers, Save(w) PROVE ReviewInv'
  <2>1. Mail(w) \in Messages /\ row[Mail(w)].class = "NONE" /\ UNCHANGED <<state, undecided>>
    BY <1>8, <1>m DEF Save, At, KnowledgeInv, Knows, queueVars
  <2> QED BY <1>8, <2>1, SaveRow DEF ReviewInv
<1>9. ASSUME NEW w \in Workers, Report(w) PROVE ReviewInv'
  <2>1. Mail(w) \in Messages /\ UNCHANGED <<state, undecided>>
    BY <1>9, <1>m DEF Report, At, queueVars
  <2> QED BY <1>9, <2>1, ReportRow DEF ReviewInv
<1>10. ASSUME NEW w \in Workers, Mark(w) PROVE ReviewInv'
  <2>1. Mail(w) \in Messages /\ row[Mail(w)].class # "NONE" /\ UNCHANGED <<state, undecided>>
    BY <1>10, <1>m DEF Mark, At, KnowledgeInv, Knows, queueVars
  <2> QED BY <1>10, <2>1, MarkRow DEF ReviewInv
<1>11. ASSUME NEW m \in Messages, EnqueueClassify(m) PROVE ReviewInv'
  BY <1>11, <1>s, JobFacts DEF EnqueueClassify, Queue!Submit, ReviewInv
<1>12. ASSUME NEW m \in Messages, EnqueueMove(m) PROVE ReviewInv'
  BY <1>12, <1>s, JobFacts DEF EnqueueMove, Queue!Submit, ReviewInv
<1>13. ASSUME NEW m \in Messages, ApiCrash(m) PROVE ReviewInv'
  BY <1>1, <1>13 DEF ApiCrash, queueVars
<1>14. ASSUME NEW m \in Messages, Resolve(m) PROVE ReviewInv'
  <2>1. UNCHANGED state /\ undecided' = undecided \cup {m}
    BY <1>14 DEF Resolve, queueVars
  <2> QED BY <1>14, <2>1, ResolveRow, ClassFacts DEF ReviewInv
<1> QED BY <1>2, <1>3, <1>4, <1>5, <1>6, <1>7, <1>8, <1>9, <1>10, <1>11, <1>12,
           <1>13, <1>14 DEF Next, HandlerStep

-----------------------------------------------------------------------------
(* What a worker knows.                                                    *)

\* A worker knows what it knew while nobody touches it or its mail, ...
LEMMA KnowsKept ==
    ASSUME NEW w \in Workers, Knows(w), handler'[w] = handler[w],
           row'[Mail(w)].class = row[Mail(w)].class,
           row'[Mail(w)].moved = row[Mail(w)].moved,
           row'[Mail(w)].reviewed = row[Mail(w)].reviewed,
           place'[Mail(w)] = place[Mail(w)],
           intake'[Mail(w)] = intake[Mail(w)]
    PROVE  Knows(w)'
BY DEF Knows, OwnRow, At, Mail, ReviewJob

\* ... and at these labels there is nothing it must know.
LEMMA KnowsNothing ==
    ASSUME NEW w \in Workers,
           handler'[w].pc \in {"idle", "load", "report", "raised", "leave"}
    PROVE  Knows(w)'
BY DEF Knows, At

LEMMA KnowledgeStep ==
    TypeOK /\ ExecutionInv /\ ReviewInv /\ KnowledgeInv /\ [Next]_vars => KnowledgeInv'
<1> SUFFICES ASSUME TypeOK, ExecutionInv, ReviewInv, KnowledgeInv, [Next]_vars,
                    NEW v \in Workers
             PROVE  Knows(v)'
  BY DEF KnowledgeInv
<1>k. Knows(v)
  BY DEF KnowledgeInv
<1>m. \A w \in Workers : ~At(w, "idle") => handler[w].job \in Jobs /\ Mail(w) \in Messages
  BY JobFacts DEF ExecutionInv, Mail
<1>i. At(v, "idle") /\ handler'[v] = handler[v] => Knows(v)'
  BY KnowsNothing DEF At
<1>1. ASSUME handler'[v] = handler[v], UNCHANGED <<row, place, intake>> PROVE Knows(v)'
  BY <1>1, <1>k, KnowsKept
<1>2. CASE UNCHANGED vars
  BY <1>1, <1>2 DEF vars
<1>3. ASSUME NEW S \in SUBSET Jobs, Recover(S) PROVE Knows(v)'
  BY <1>1, <1>3 DEF Recover
<1>4. ASSUME NEW w \in Workers, Load(w) PROVE Knows(v)'
  <2>1. Mail(w) \in Messages /\ UNCHANGED <<row, place, intake>>
    BY <1>4, <1>m DEF Load, At
  <2>2. CASE v # w
    BY <1>1, <1>4, <2>1, <2>2, LoadEffect
  <2>3. CASE v = w
    <3>1. /\ handler'[w].pc = AfterLoad(row[Mail(w)])
          /\ handler'[w].class = row[Mail(w)].class
          /\ handler'[w].job = handler[w].job
          /\ handler'[w].loc = row[Mail(w)].loc
      BY <1>4, <2>1, LoadEffect
    <3>2. row[Mail(w)].class \in Classes \cup {"NONE"} /\ row[Mail(w)].moved \in BOOLEAN
      BY <2>1 DEF TypeOK, RowType
    <3>3. \/ AfterLoad(row[Mail(w)]) = "ask" /\ row[Mail(w)].class = "NONE"
          \/ AfterLoad(row[Mail(w)]) = "mark" /\ row[Mail(w)].class # "NONE" /\ row[Mail(w)].moved
          \/ AfterLoad(row[Mail(w)]) = "move" /\ row[Mail(w)].class # "NONE" /\ ~row[Mail(w)].moved
      BY <3>2 DEF AfterLoad
    <3> QED BY <2>1, <2>3, <3>1, <3>3 DEF Knows, At, Mail
  <2> QED BY <2>2, <2>3
<1>5. ASSUME NEW w \in Workers, Ask(w) PROVE Knows(v)'
  <2>1. UNCHANGED <<row, place, intake>> /\ At(w, "ask")
    BY <1>5 DEF Ask
  <2>2. CASE v # w
    BY <1>1, <1>5, <2>1, <2>2, AskEffect
  <2>3. CASE v = w
    BY <1>5, <1>k, <2>1, <2>3, AskEffect DEF Knows, At, Mail
  <2> QED BY <2>2, <2>3
<1>6. ASSUME NEW w \in Workers, Save(w) PROVE Knows(v)'
  <2>1. /\ Mail(w) \in Messages /\ row[Mail(w)].class = "NONE" /\ ~At(w, "idle")
        /\ UNCHANGED <<place, intake>> /\ GoTo(w, "load")
    BY <1>6, <1>m DEF Save, At, KnowledgeInv, Knows
  <2>2. CASE v = w
    BY <2>1, <2>2, GoToEffect, KnowsNothing DEF Working
  <2>3. CASE v # w
    <3>1. handler'[v] = handler[v]
      BY <2>1, <2>3, GoToEffect DEF Working
    <3>2. ~At(v, "idle") => Mail(v) # Mail(w)
      BY <2>1, <2>3, SoleHandler DEF ReviewInv
    <3>3. ~At(v, "idle") => row'[Mail(v)] = row[Mail(v)]
      BY <1>6, <1>m, <2>1, <3>2, SaveRow
    <3> QED BY <1>i, <1>k, <2>1, <3>1, <3>3, KnowsKept
  <2> QED BY <2>2, <2>3
<1>7. ASSUME NEW w \in Workers, Move(w) PROVE Knows(v)'
  <2>1. /\ Mail(w) \in Messages /\ At(w, "move") /\ ~At(w, "idle")
        /\ UNCHANGED <<row, intake>> /\ handler[w].class \in Classes
    BY <1>7, <1>m DEF Move, At, ExecutionInv, TypeOK, HandlerType
  <2>2. CASE v = w
    BY <1>7, <1>k, <2>1, <2>2, MoveEffect DEF Knows, At, Mail
  <2>3. CASE v # w
    <3>1. handler'[v] = handler[v]
      BY <1>7, <2>1, <2>3, MoveEffect
    <3>2. CASE At(v, "idle") \/ Mail(v) # Mail(w)
      <4>1. ~At(v, "idle") => place'[Mail(v)] = place[Mail(v)]
        BY <1>7, <1>m, <2>1, <3>2, MoveEffect
      <4> QED BY <1>i, <1>k, <2>1, <3>1, <4>1, KnowsKept
    <3>3. CASE ~At(v, "idle") /\ Mail(v) = Mail(w)
      <4>1. row[Mail(v)].reviewed
        BY <2>1, <2>3, <3>3, SoleHandler
      <4> QED BY <1>k, <2>1, <3>1, <4>1 DEF Knows, OwnRow, At, Mail, ReviewJob
    <3> QED BY <3>2, <3>3
  <2> QED BY <2>2, <2>3
<1>8. ASSUME NEW w \in Workers, Report(w) PROVE Knows(v)'
  <2>1. Mail(w) \in Messages /\ UNCHANGED <<place, intake>> /\ GoTo(w, "raised")
    BY <1>8, <1>m DEF Report, At
  <2>2. CASE v = w
    BY <2>1, <2>2, GoToEffect, KnowsNothing DEF Ending
  <2>3. CASE v # w
    <3>1. handler'[v] = handler[v]
      BY <2>1, <2>3, GoToEffect DEF Ending
    <3> QED BY <1>8, <1>i, <1>k, <1>m, <2>1, <3>1, ReportRow, KnowsKept
  <2> QED BY <2>2, <2>3
<1>9. ASSUME NEW w \in Workers, Mark(w) PROVE Knows(v)'
  <2>1. /\ Mail(w) \in Messages /\ At(w, "mark") /\ ~At(w, "idle")
        /\ UNCHANGED <<place, intake>>
    BY <1>9, <1>m DEF Mark, At
  <2>2. GoTo(w, IF row[Mail(w)].class = "INVOICE" THEN "create" ELSE "done")
    BY <1>9 DEF Mark
  <2>3. CASE v = w
    <3>1. /\ handler'[w].pc = IF row[Mail(w)].class = "INVOICE" THEN "create" ELSE "done"
          /\ handler'[w].job = handler[w].job
      BY <2>2, GoToEffect DEF Working, Ending
    <3>2. row'[Mail(w)].moved /\ row'[Mail(w)].class = row[Mail(w)].class
      BY <1>9, <2>1, MarkRow
    <3> QED BY <2>3, <3>1, <3>2 DEF Knows, At, Mail
  <2>4. CASE v # w
    <3>1. handler'[v] = handler[v]
      BY <2>2, <2>4, GoToEffect DEF Working, Ending
    <3>2. CASE At(v, "idle") \/ Mail(v) # Mail(w)
      <4>1. ~At(v, "idle") => row'[Mail(v)] = row[Mail(v)]
        BY <1>9, <1>m, <2>1, <3>2, MarkRow
      <4> QED BY <1>i, <1>k, <2>1, <3>1, <4>1, KnowsKept
    <3>3. CASE ~At(v, "idle") /\ Mail(v) = Mail(w)
      <4>1. row[Mail(v)].reviewed
        BY <2>1, <2>4, <3>3, SoleHandler
      <4>2. /\ row'[Mail(v)].moved /\ row'[Mail(v)].class = row[Mail(v)].class
            /\ row'[Mail(v)].reviewed = row[Mail(v)].reviewed
        BY <1>9, <2>1, <3>3, MarkRow
      <4> QED BY <1>k, <2>1, <3>1, <4>1, <4>2 DEF Knows, OwnRow, At, Mail, ReviewJob
    <3> QED BY <3>2, <3>3
  <2> QED BY <2>3, <2>4
<1>10. ASSUME NEW w \in Workers, Create(w) PROVE Knows(v)'
  <2>1. /\ Mail(w) \in Messages /\ At(w, "create")
        /\ UNCHANGED <<row, place>> /\ GoTo(w, "dispatch")
    BY <1>10, <1>m DEF Create, At
  <2>2. CASE v = w
    BY <1>k, <2>1, <2>2, GoToEffect DEF Working, Knows, OwnRow, At, Mail, ReviewJob
  <2>3. CASE v # w
    <3>1. handler'[v] = handler[v]
      BY <2>1, <2>3, GoToEffect DEF Working
    <3>2. ~At(v, "idle") /\ intake[Mail(v)] = "dispatched" => intake'[Mail(v)] = "dispatched"
      BY <1>10, <1>m, <2>1 DEF Create, TypeOK
    <3> QED BY <1>i, <1>k, <2>1, <3>1, <3>2 DEF Knows, OwnRow, At, Mail, ReviewJob
  <2> QED BY <2>2, <2>3
<1>11. ASSUME NEW w \in Workers, Dispatch(w) PROVE Knows(v)'
  <2>1. /\ Mail(w) \in Messages /\ At(w, "dispatch")
        /\ UNCHANGED <<row, place>> /\ GoTo(w, "done")
    BY <1>11, <1>m DEF Dispatch, At
  <2>2. CASE v = w
    <3>1. intake'[Mail(w)] = "dispatched"
      BY <1>11, <2>1 DEF Dispatch, TypeOK
    <3> QED BY <1>k, <2>1, <2>2, <3>1, GoToEffect DEF Ending, Knows, OwnRow, At, Mail, ReviewJob
  <2>3. CASE v # w
    <3>1. handler'[v] = handler[v]
      BY <2>1, <2>3, GoToEffect DEF Ending
    <3>2. ~At(v, "idle") /\ intake[Mail(v)] = "dispatched" => intake'[Mail(v)] = "dispatched"
      BY <1>11, <1>m, <2>1 DEF Dispatch, TypeOK
    <3> QED BY <1>i, <1>k, <2>1, <3>1, <3>2 DEF Knows, OwnRow, At, Mail, ReviewJob
  <2> QED BY <2>2, <2>3
<1>12. ASSUME NEW w \in Workers, Raise(w) \/ LoseClaim(w) \/ Finish(w) PROVE Knows(v)'
  <2>1. UNCHANGED <<row, place, intake>> /\ (GoTo(w, "raised") \/ GoTo(w, "leave"))
    BY <1>12 DEF Raise, LoseClaim, Finish
  <2> QED BY <1>1, <2>1, GoToEffect, KnowsNothing DEF Ending
<1>13. ASSUME NEW w \in Workers, Leave(w) \/ Crash(w) PROVE Knows(v)'
  <2>1. CASE LetGo(w)
    BY <1>1, <2>1, RestEffect, KnowsNothing DEF LetGo, Resting
  <2>2. CASE UNCHANGED <<row, place, intake, handler, undecided>>
    BY <1>1, <2>2
  <2> QED BY <1>13, <2>1, <2>2 DEF Leave, Crash
<1>14. ASSUME NEW w \in Workers, NEW j \in Jobs, Claim(w, j) PROVE Knows(v)'
  BY <1>1, <1>14 DEF Claim
<1>15. ASSUME NEW w \in Workers, NEW j \in Jobs, Begin(w, j) PROVE Knows(v)'
  BY <1>1, <1>15, BeginEffect, KnowsNothing DEF Begin
<1>16. ASSUME NEW m \in Messages, EnqueueClassify(m) \/ EnqueueMove(m) \/ ApiCrash(m)
       PROVE  Knows(v)'
  BY <1>1, <1>16 DEF EnqueueClassify, EnqueueMove, ApiCrash
<1>17. ASSUME NEW m \in Messages, Resolve(m) PROVE Knows(v)'
  <2>1. UNCHANGED <<handler, place, intake>>
    BY <1>17 DEF Resolve
  <2>2. CASE At(v, "idle") \/ Mail(v) # m
    <3>1. ~At(v, "idle") => row'[Mail(v)] = row[Mail(v)]
      BY <1>17, <1>m, <2>2, ResolveRow
    <3> QED BY <1>i, <1>k, <2>1, <3>1, KnowsKept
  <2>3. CASE ~At(v, "idle") /\ Mail(v) = m
    <3>1. /\ row[m].class = "MANUAL_REVIEW" /\ row'[m].reviewed /\ row'[m].class # "NONE"
      BY <1>17, ResolveRow, ClassFacts
    <3>2. handler[v].job # ReviewJob(m)
      BY <2>3, <3>1, ReviewWorker DEF ReviewInv
    <3> QED BY <1>k, <2>1, <2>3, <3>1, <3>2 DEF Knows, OwnRow, At, Mail, ReviewJob
  <2> QED BY <2>2, <2>3
<1> QED BY <1>2, <1>3, <1>4, <1>5, <1>6, <1>7, <1>8, <1>9, <1>10, <1>11, <1>12,
           <1>13, <1>14, <1>15, <1>16, <1>17 DEF Next, HandlerStep

-----------------------------------------------------------------------------
(* The safety properties.                                                  *)

LEMMA FiledStep ==
    /\ TypeOK /\ ExecutionInv /\ ReviewInv /\ KnowledgeInv /\ FiledWhereItSays
    /\ [Next]_vars
    => FiledWhereItSays'
<1> SUFFICES ASSUME TypeOK, ExecutionInv, ReviewInv, KnowledgeInv, FiledWhereItSays,
                    [Next]_vars
             PROVE  FiledWhereItSays'
  OBVIOUS
<1>m. \A w \in Workers : ~At(w, "idle") => handler[w].job \in Jobs /\ Mail(w) \in Messages
  BY JobFacts DEF ExecutionInv, Mail
<1>1. CASE UNCHANGED <<row, place>>
  BY <1>1 DEF FiledWhereItSays
<1>2. ASSUME NEW w \in Workers, Save(w) PROVE FiledWhereItSays'
  <2>1. Mail(w) \in Messages /\ row[Mail(w)].class = "NONE" /\ UNCHANGED place
    BY <1>2, <1>m DEF Save, At, KnowledgeInv, Knows
  <2> QED BY <1>2, <2>1, SaveRow DEF FiledWhereItSays, ReviewInv
<1>3. ASSUME NEW w \in Workers, Move(w) PROVE FiledWhereItSays'
  <2>1. Mail(w) \in Messages /\ UNCHANGED row /\ handler[w].class \in Classes
    BY <1>3, <1>m DEF Move, At, ExecutionInv, TypeOK, HandlerType
  <2>2. ~(row[Mail(w)].moved /\ ~row[Mail(w)].reviewed)
    BY <1>3 DEF Move, KnowledgeInv, Knows
  <2> QED BY <1>3, <2>1, <2>2, MoveEffect DEF FiledWhereItSays
<1>4. ASSUME NEW w \in Workers, Report(w) PROVE FiledWhereItSays'
  <2>1. Mail(w) \in Messages /\ UNCHANGED place
    BY <1>4, <1>m DEF Report, At
  <2> QED BY <1>4, <2>1, ReportRow DEF FiledWhereItSays
<1>5. ASSUME NEW w \in Workers, Mark(w) PROVE FiledWhereItSays'
  <2>1. Mail(w) \in Messages /\ UNCHANGED place /\ At(w, "mark") /\ Knows(w)
    BY <1>5, <1>m DEF Mark, At, KnowledgeInv
  <2> QED BY <1>5, <2>1, MarkRow DEF FiledWhereItSays, Knows
<1>6. ASSUME NEW m \in Messages, Resolve(m) PROVE FiledWhereItSays'
  <2>1. UNCHANGED place
    BY <1>6 DEF Resolve
  <2> QED BY <1>6, <2>1, ResolveRow DEF FiledWhereItSays
<1>7. \/ UNCHANGED <<row, place>>
      \/ \E w \in Workers : Save(w) \/ Move(w) \/ Report(w) \/ Mark(w)
      \/ \E m \in Messages : Resolve(m)
  BY DEF Next, HandlerStep, vars, Recover, Load, Ask, Create, Dispatch, Raise, Finish,
         LoseClaim, Leave, Crash, LetGo, Claim, Begin, EnqueueClassify, EnqueueMove, ApiCrash
<1> QED BY <1>1, <1>2, <1>3, <1>4, <1>5, <1>6, <1>7

LEMMA OnlyInvoicesStep ==
    /\ TypeOK /\ ExecutionInv /\ KnowledgeInv /\ OnlyInvoicesAreSubmitted
    /\ [Next]_vars
    => OnlyInvoicesAreSubmitted'
<1> SUFFICES ASSUME TypeOK, ExecutionInv, KnowledgeInv, OnlyInvoicesAreSubmitted,
                    [Next]_vars
             PROVE  OnlyInvoicesAreSubmitted'
  OBVIOUS
<1>m. \A w \in Workers : ~At(w, "idle") => handler[w].job \in Jobs /\ Mail(w) \in Messages
  BY JobFacts DEF ExecutionInv, Mail
<1>1. CASE UNCHANGED <<row, intake>>
  BY <1>1 DEF OnlyInvoicesAreSubmitted
<1>2. ASSUME NEW w \in Workers, Save(w) PROVE OnlyInvoicesAreSubmitted'
  <2>1. Mail(w) \in Messages /\ row[Mail(w)].class = "NONE" /\ UNCHANGED intake
    BY <1>2, <1>m DEF Save, At, KnowledgeInv, Knows
  <2> QED BY <1>2, <2>1, SaveRow DEF OnlyInvoicesAreSubmitted
<1>3. ASSUME NEW w \in Workers, Report(w) PROVE OnlyInvoicesAreSubmitted'
  <2>1. Mail(w) \in Messages /\ UNCHANGED intake
    BY <1>3, <1>m DEF Report, At
  <2> QED BY <1>3, <2>1, ReportRow DEF OnlyInvoicesAreSubmitted
<1>4. ASSUME NEW w \in Workers, Mark(w) PROVE OnlyInvoicesAreSubmitted'
  <2>1. Mail(w) \in Messages /\ UNCHANGED intake
    BY <1>4, <1>m DEF Mark, At
  <2> QED BY <1>4, <2>1, MarkRow DEF OnlyInvoicesAreSubmitted
<1>5. ASSUME NEW w \in Workers, Create(w) \/ Dispatch(w) PROVE OnlyInvoicesAreSubmitted'
  <2>1. UNCHANGED row /\ row[Mail(w)].class = "INVOICE"
    BY <1>5 DEF Create, Dispatch, KnowledgeInv, Knows
  <2>2. \A m \in Messages : m # Mail(w) => intake'[m] = intake[m]
    BY <1>5 DEF Create, Dispatch, TypeOK
  <2> QED BY <2>1, <2>2 DEF OnlyInvoicesAreSubmitted
<1>6. ASSUME NEW m \in Messages, Resolve(m) PROVE OnlyInvoicesAreSubmitted'
  <2>1. UNCHANGED intake
    BY <1>6 DEF Resolve
  <2> QED BY <1>6, <2>1, ResolveRow DEF OnlyInvoicesAreSubmitted
<1>7. \/ UNCHANGED <<row, intake>>
      \/ \E w \in Workers : Save(w) \/ Report(w) \/ Mark(w) \/ Create(w) \/ Dispatch(w)
      \/ \E m \in Messages : Resolve(m)
  BY DEF Next, HandlerStep, vars, Recover, Load, Ask, Move, Raise, Finish, LoseClaim,
         Leave, Crash, LetGo, Claim, Begin, EnqueueClassify, EnqueueMove, ApiCrash
<1> QED BY <1>1, <1>2, <1>3, <1>4, <1>5, <1>6, <1>7

LEMMA SucceededStep ==
    /\ TypeOK /\ ExecutionInv /\ ReviewInv /\ KnowledgeInv /\ SucceededIsComplete
    /\ [Next]_vars
    => SucceededIsComplete'
<1> SUFFICES ASSUME TypeOK, ExecutionInv, ReviewInv, KnowledgeInv, SucceededIsComplete,
                    [Next]_vars
             PROVE  SucceededIsComplete'
  OBVIOUS
<1>m. \A w \in Workers : ~At(w, "idle") => handler[w].job \in Jobs /\ Mail(w) \in Messages
  BY JobFacts DEF ExecutionInv, Mail
<1>s. state \in [Jobs -> Queue!States]
  BY DEF TypeOK, Queue!LifecycleTypeOK
<1>1. ASSUME UNCHANGED <<row, intake>>,
             \A j \in Jobs : state'[j] = "SUCCEEDED" => state[j] = "SUCCEEDED"
      PROVE  SucceededIsComplete'
  BY <1>1, JobFacts DEF SucceededIsComplete
<1>2. CASE UNCHANGED vars
  BY <1>1, <1>2 DEF vars
<1>3. ASSUME NEW S \in SUBSET Jobs, Recover(S) PROVE SucceededIsComplete'
  BY <1>1, <1>3, <1>s DEF Recover, Queue!TakeBack, Queue!AfterFailure
<1>4. ASSUME NEW w \in Workers, Load(w) \/ Ask(w) \/ Move(w) \/ Raise(w) \/ LoseClaim(w)
      PROVE  SucceededIsComplete'
  BY <1>1, <1>4 DEF Load, Ask, Move, Raise, LoseClaim, queueVars
<1>5. ASSUME NEW w \in Workers, Leave(w) \/ Crash(w) PROVE SucceededIsComplete'
  BY <1>1, <1>5 DEF Leave, Crash, LetGo, Queue!End, Queue!Abandon
<1>6. ASSUME NEW w \in Workers, NEW j \in Jobs, Claim(w, j) \/ Begin(w, j)
      PROVE  SucceededIsComplete'
  BY <1>1, <1>6, <1>s DEF Claim, Begin, Queue!Attempt, Queue!Begin
<1>7. ASSUME NEW m \in Messages, EnqueueClassify(m) \/ EnqueueMove(m) \/ ApiCrash(m)
      PROVE  SucceededIsComplete'
  BY <1>1, <1>7, <1>s, JobFacts DEF EnqueueClassify, EnqueueMove, ApiCrash, Queue!Submit, queueVars
<1>8. ASSUME NEW w \in Workers, Finish(w) PROVE SucceededIsComplete'
  <2> DEFINE j == handler[w].job
  <2>1. j \in Jobs /\ Mail(w) = j[1] /\ Mail(w) \in Messages /\ UNCHANGED <<row, intake>>
    BY <1>8, <1>m DEF Finish, At, Ending, Mail
  <2>2. \A k \in Jobs : k # j => state'[k] = state[k]
    BY <1>8, <1>s, <2>1 DEF Finish, Queue!Settle
  <2>3. CASE At(w, "done")
    <3>1. Knows(w)
      BY DEF KnowledgeInv
    <3>2. SUFFICES ASSUME NEW m \in Messages,
                          \/ state'[ClassifyJob(m)] = "SUCCEEDED" /\ ~row[m].reviewed
                          \/ state'[ReviewJob(m)] = "SUCCEEDED",
                          m = Mail(w)
                   PROVE  /\ row[m].moved
                          /\ row[m].class = "INVOICE" => intake[m] = "dispatched"
      BY <2>1, <2>2, JobFacts DEF SucceededIsComplete
    <3>3. CASE OwnRow(w)
      BY <2>3, <3>1, <3>2, <3>3 DEF Knows
    <3>4. CASE ~OwnRow(w)
      <4>1. row[m].reviewed /\ j # ReviewJob(m)
        BY <3>2, <3>4 DEF OwnRow
      <4>2. state[ReviewJob(m)] = "SUCCEEDED"
        BY <2>2, <3>2, <4>1, JobFacts
      <4> QED BY <4>2 DEF SucceededIsComplete
    <3> QED BY <3>3, <3>4
  <2>4. CASE ~At(w, "done")
    BY <1>1, <1>8, <2>1, <2>2, <2>4 DEF Finish, Queue!AfterFailure
  <2> QED BY <2>3, <2>4
<1>9. ASSUME NEW w \in Workers, Save(w) PROVE SucceededIsComplete'
  <2>1. Mail(w) \in Messages /\ row[Mail(w)].class = "NONE" /\ UNCHANGED <<state, intake>>
    BY <1>9, <1>m DEF Save, At, KnowledgeInv, Knows, queueVars
  <2>2. ~row[Mail(w)].moved /\ ~row[Mail(w)].reviewed
    BY <2>1 DEF ReviewInv
  <2> QED BY <1>9, <2>1, <2>2, SaveRow DEF SucceededIsComplete
<1>10. ASSUME NEW w \in Workers, Report(w) PROVE SucceededIsComplete'
  <2>1. Mail(w) \in Messages /\ UNCHANGED <<state, intake>>
    BY <1>10, <1>m DEF Report, At, queueVars
  <2> QED BY <1>10, <2>1, ReportRow DEF SucceededIsComplete
<1>11. ASSUME NEW w \in Workers, Mark(w) PROVE SucceededIsComplete'
  <2>1. Mail(w) \in Messages /\ UNCHANGED <<state, intake>>
    BY <1>11, <1>m DEF Mark, At, queueVars
  <2> QED BY <1>11, <2>1, MarkRow DEF SucceededIsComplete
<1>12. ASSUME NEW w \in Workers, Create(w) \/ Dispatch(w) PROVE SucceededIsComplete'
  <2>1. Mail(w) \in Messages /\ UNCHANGED <<state, row>>
    BY <1>12, <1>m DEF Create, Dispatch, At, queueVars
  <2>2. \A m \in Messages : intake[m] = "dispatched" => intake'[m] = "dispatched"
    BY <1>12, <2>1 DEF Create, Dispatch, TypeOK
  <2> QED BY <2>1, <2>2 DEF SucceededIsComplete
<1>13. ASSUME NEW m \in Messages, Resolve(m) PROVE SucceededIsComplete'
  <2>1. UNCHANGED <<state, intake>>
    BY <1>13 DEF Resolve, queueVars
  <2>2. state[ReviewJob(m)] # "SUCCEEDED"
    BY <1>13, ResolveRow DEF ReviewInv
  <2> QED BY <1>13, <2>1, <2>2, ResolveRow DEF SucceededIsComplete
<1> QED BY <1>2, <1>3, <1>4, <1>5, <1>6, <1>7, <1>8, <1>9, <1>10, <1>11, <1>12, <1>13
        DEF Next, HandlerStep

-----------------------------------------------------------------------------
(* The theorems.                                                           *)

LEMMA EmailInvInit == Init => IInv
<1> SUFFICES ASSUME Init PROVE IInv
  OBVIOUS
<1>1. TypeOK
  BY EmailTypeInit
<1>2. \A w \in Workers : handler[w].pc = "idle"
  BY DEF Init, Resting
<1>3. ExecutionInv
  BY <1>2 DEF Init, Queue!Init, ExecutionInv, At
<1>4. KnowledgeInv
  BY <1>2 DEF KnowledgeInv, Knows, At
<1>5. ReviewInv /\ FiledWhereItSays /\ SucceededIsComplete /\ OnlyInvoicesAreSubmitted
  BY JobFacts DEF Init, Queue!Init, ReviewInv, FiledWhereItSays, SucceededIsComplete,
                  OnlyInvoicesAreSubmitted
<1> QED BY <1>1, <1>3, <1>4, <1>5 DEF IInv

\* The inductive invariant of the classification: who executes what, that a mail
\* has two workers only after a review, and what a worker may still rely on of
\* the candidate it read in an earlier transaction (classify_and_move).
THEOREM ClassificationInvariant == Spec => []IInv
<1>1. Init => IInv
  BY EmailInvInit
<1>2. IInv /\ [Next]_vars => IInv'
  BY EmailTypeStep, ExecutionStep, ReviewStep, KnowledgeStep, FiledStep, SucceededStep,
     OnlyInvoicesStep DEF IInv
<1> QED BY <1>1, <1>2, PTL DEF Spec

\* The rows, the mail server, the queue and every handler keep their types.
THEOREM EmailTypeCorrect == Spec => []TypeOK
<1>1. IInv => TypeOK
  BY DEF IInv
<1> QED BY <1>1, ClassificationInvariant, PTL

\* A mail no reviewer touched that mark_moved recorded lies where its row says,
\* in the folder of its class, with any number of workers, crashes, lost replies
\* of the mail server and redelivered jobs.
THEOREM FiledWhereItSaysHolds == Spec => []FiledWhereItSays
<1>1. IInv => FiledWhereItSays
  BY DEF IInv
<1> QED BY <1>1, ClassificationInvariant, PTL

\* A classification or review job settled as SUCCEEDED left a mail that is marked
\* moved and, for an INVOICE, a submission whose tariff selection is enqueued.
THEOREM SucceededIsCompleteHolds == Spec => []SucceededIsComplete
<1>1. IInv => SucceededIsComplete
  BY DEF IInv
<1> QED BY <1>1, ClassificationInvariant, PTL

\* submit_invoice_email is called for nothing but an INVOICE, and a mail that was
\* submitted never becomes anything else.
THEOREM OnlyInvoicesAreSubmittedHolds == Spec => []OnlyInvoicesAreSubmitted
<1>1. IInv => OnlyInvoicesAreSubmitted
  BY DEF IInv
<1> QED BY <1>1, ClassificationInvariant, PTL

\* classify is called only for a mail whose row has no class: what an earlier
\* attempt persisted is never asked for again.
THEOREM NoSecondOpinionHolds == Spec => NoSecondOpinion
<1>1. IInv /\ [Next]_vars =>
        [\A w \in Workers : At(w, "ask") /\ handler'[w].pc = "save"
                              => row[Mail(w)].class = "NONE"]_vars
  BY DEF IInv, KnowledgeInv, Knows
<1> QED BY <1>1, ClassificationInvariant, PTL DEF Spec, NoSecondOpinion

-----------------------------------------------------------------------------
(* The queue.                                                              *)

LEMMA QueueStep == TypeOK /\ ExecutionInv /\ [Next]_vars => [Queue!Next]_(Queue!vars)
<1> SUFFICES ASSUME TypeOK, ExecutionInv, [Next]_vars PROVE [Queue!Next]_(Queue!vars)
  OBVIOUS
<1>j. \A w \in Workers : ~At(w, "idle") => handler[w].job \in Jobs
  BY DEF ExecutionInv
<1>u. UNCHANGED queueVars => UNCHANGED Queue!vars
  BY DEF queueVars, Queue!vars
<1>1. CASE UNCHANGED vars
  BY <1>1 DEF vars, queueVars, Queue!vars
<1>2. ASSUME NEW S \in SUBSET Jobs, Recover(S) PROVE Queue!Next
  BY <1>2 DEF Recover, Queue!Next
<1>3. ASSUME NEW w \in Workers, \/ Load(w) \/ Ask(w) \/ Save(w) \/ Move(w) \/ Report(w)
                                \/ Mark(w) \/ Create(w) \/ Dispatch(w) \/ Raise(w) \/ LoseClaim(w)
      PROVE  UNCHANGED queueVars
  BY <1>3 DEF Load, Ask, Save, Move, Report, Mark, Create, Dispatch, Raise, LoseClaim
<1>4. ASSUME NEW w \in Workers, Finish(w) PROVE Queue!Next
  <2>1. handler[w].job \in Jobs
    BY <1>4, <1>j DEF Finish, At, Ending
  <2> QED BY <1>4, <2>1 DEF Finish, Queue!Next
<1>5. ASSUME NEW w \in Workers, Leave(w) \/ Crash(w) PROVE Queue!Next
  <2>1. CASE ~At(w, "idle") /\ LetGo(w)
    BY <2>1, <1>j DEF LetGo, Queue!Next
  <2>2. CASE Queue!Abandon(w)
    BY <2>2 DEF Queue!Next
  <2> QED BY <1>5, <2>1, <2>2 DEF Leave, Crash, At
<1>6. ASSUME NEW w \in Workers, NEW j \in Jobs, Claim(w, j) \/ Begin(w, j) PROVE Queue!Next
  BY <1>6 DEF Claim, Begin, Queue!Next
<1>7. ASSUME NEW m \in Messages, EnqueueClassify(m) \/ EnqueueMove(m) PROVE Queue!Next
  BY <1>7, JobFacts DEF EnqueueClassify, EnqueueMove, Queue!Next
<1>8. ASSUME NEW m \in Messages, Resolve(m) \/ ApiCrash(m) PROVE UNCHANGED queueVars
  BY <1>8 DEF Resolve, ApiCrash
<1> QED BY <1>1, <1>2, <1>3, <1>4, <1>5, <1>6, <1>7, <1>8, <1>u DEF Next, HandlerStep

\* The handler of e-mail jobs, its crashes and the routes that enqueue work only
\* take steps of the queue that JobLifecycle has, which JobQueue implements: no
\* job is settled or let go that its worker does not execute, whatever label a
\* crash finds the handler at.
THEOREM KeepsTheLifecycle == Spec => Queue!Spec
<1>1. Init => Queue!Init
  BY DEF Init
<1>2. IInv /\ [Next]_vars => [Queue!Next]_(Queue!vars)
  BY QueueStep DEF IInv
<1> QED BY <1>1, <1>2, ClassificationInvariant, PTL DEF Spec, Queue!Spec
=============================================================================
