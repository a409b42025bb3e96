----------------------------- MODULE AIExecution -----------------------------
(***************************************************************************)
(* AIExecutionService.execute with the tool loop of OpenAIProvider, and    *)
(* the price windows it is charged by, which operators add while calls are *)
(* under way, for times past and to come.                                  *)
(***************************************************************************)
EXTENDS Naturals, FiniteSets

CONSTANTS Calls, Prices, NoOne, NoPrice, Horizon, MaxRounds, MaxToolCalls

VARIABLES windows,  \* committed prices: [from, to], to = Open when there is no end
          adding,   \* add_price calls: step and window
          pricing,  \* the add_price that holds the lock of the provider and model
          run,      \* execute calls
          now

vars == <<windows, adding, pricing, run, now>>

Open   == Horizon + 2
Window == {w \in [from : 1..Horizon, to : 2..Open] : w.from < w.to}
Adding == {"idle", "locked", "checked", "done"}
Steps  == {"idle", "generating", "priced", "recording", "SUCCEEDED", "ERROR", "raised"}

Idle == [step |-> "idle", started |-> 0, rounds |-> 0, requested |-> 0, executed |-> 0,
         price |-> NoPrice]

Init == /\ windows = <<>>
        /\ adding = [p \in Prices |-> [step |-> "idle", window |-> [from |-> 1, to |-> Open]]]
        /\ pricing = NoOne
        /\ run = [c \in Calls |-> Idle]
        /\ now = 1

At(c, step) == run[c].step = step

-----------------------------------------------------------------------------
(* add_price.                                                              *)

LockPrices(p, w) ==
    /\ adding[p].step = "idle"
    /\ pricing = NoOne
    /\ pricing' = p
    /\ adding' = [adding EXCEPT ![p] = [step |-> "locked", window |-> w]]
    /\ UNCHANGED <<windows, run, now>>

\* Mutant of Overlaps: a window without an end is compared as if it ended at once.
OverlapsClosed(v, w) == v.to # Open /\ v.to > w.from /\ v.from < w.to

\* The filters of the overlap query; those on a missing end are left out of it.
Overlaps(v, w) == /\ v.to = Open \/ v.to > w.from
                  /\ w.to = Open \/ v.from < w.to

CheckOverlap(p) ==
    LET refused == \E q \in DOMAIN windows : Overlaps(windows[q], adding[p].window)
    IN  /\ adding[p].step = "locked"
        /\ adding' = [adding EXCEPT ![p].step = IF refused THEN "done" ELSE "checked"]
        /\ pricing' = IF refused THEN NoOne ELSE pricing
        /\ UNCHANGED <<windows, run, now>>

InsertPrice(p) ==
    /\ adding[p].step = "checked"
    /\ windows' = [q \in DOMAIN windows \cup {p} |->
                     IF q = p THEN adding[p].window ELSE windows[q]]
    /\ adding' = [adding EXCEPT ![p].step = "done"]
    /\ pricing' = NoOne
    /\ UNCHANGED <<run, now>>

\* effective_price: of the windows around a time, one that begins last.
Around(at)    == {p \in DOMAIN windows : windows[p].from <= at /\ at < windows[p].to}
Effective(at) ==
    IF Around(at) = {} THEN {NoPrice}
    ELSE {p \in Around(at) : \A q \in Around(at) : windows[q].from <= windows[p].from}

-----------------------------------------------------------------------------
(* execute.                                                                *)

Execute(c) ==
    /\ At(c, "idle")
    /\ run' = [run EXCEPT ![c].step = "generating", ![c].started = now]
    /\ UNCHANGED <<windows, adding, pricing, now>>

\* Mutant of LimitExceeded: the calls of this round are not counted.
LimitExceededBefore(c, tools) ==
    run[c].rounds >= MaxRounds \/ run[c].requested > MaxToolCalls

\* The round and its tool calls are counted before the limits are looked at.
LimitExceeded(c, tools) ==
    run[c].rounds + 1 > MaxRounds \/ run[c].requested + tools > MaxToolCalls

\* The model asks for tools, of which the last may be unknown or fail.
UseTools(c, tools, executed) ==
    /\ At(c, "generating")
    /\ run' = [run EXCEPT
          ![c].rounds    = @ + 1,
          ![c].requested = @ + tools,
          ![c].executed  = IF LimitExceeded(c, tools) THEN @ ELSE @ + executed,
          ![c].step      = IF LimitExceeded(c, tools) \/ executed < tools
                           THEN "recording" ELSE @]
    /\ UNCHANGED <<windows, adding, pricing, now>>

\* The model answers and the price of the time the call started is looked up.
Answer(c, price) ==
    /\ At(c, "generating")
    /\ price \in Effective(run[c].started)
    /\ run' = [run EXCEPT ![c].step = "priced", ![c].price = price]
    /\ UNCHANGED <<windows, adding, pricing, now>>

\* The request, the answer's form or its token counts fail as an AIProviderError.
ProviderError(c) ==
    /\ At(c, "generating")
    /\ run' = [run EXCEPT ![c].step = "recording"]
    /\ UNCHANGED <<windows, adding, pricing, now>>

\* The telemetry row, of a success with its price or of an error without one.
RecordCall(c) ==
    /\ run[c].step \in {"priced", "recording"}
    /\ run' = [run EXCEPT ![c].step = IF At(c, "priced") THEN "SUCCEEDED" ELSE "ERROR"]
    /\ UNCHANGED <<windows, adding, pricing, now>>

\* Any other exception, or the death of the process: nothing is recorded.
Raise(c) ==
    /\ run[c].step \in {"generating", "priced", "recording"}
    /\ run' = [run EXCEPT ![c].step = "raised"]
    /\ UNCHANGED <<windows, adding, pricing, now>>

Tick == /\ now < Horizon
        /\ now' = now + 1
        /\ UNCHANGED <<windows, adding, pricing, run>>

-----------------------------------------------------------------------------
Next == \/ \E p \in Prices : (\E w \in Window : LockPrices(p, w)) \/ CheckOverlap(p)
                             \/ InsertPrice(p)
        \/ \E c \in Calls : \/ Execute(c) \/ ProviderError(c) \/ RecordCall(c) \/ Raise(c)
                            \/ \E price \in Prices \cup {NoPrice} : Answer(c, price)
                            \/ \E tools \in 1..2, executed \in 0..2 :
                                  executed <= tools /\ UseTools(c, tools, executed)
        \/ Tick

Spec == Init /\ [][Next]_vars

-----------------------------------------------------------------------------
(* Properties.                                                             *)

\* What a run of the module is started with.
Assumption == /\ Horizon \in Nat \ {0}
              /\ {MaxRounds, MaxToolCalls} \subseteq Nat
              /\ NoOne \notin Prices /\ NoPrice \notin Prices

Run == [step : Steps, started : 0..Horizon, rounds : Nat, requested : Nat,
        executed : 0..MaxToolCalls, price : Prices \cup {NoPrice}]

\* The types, with the bound generate promises: no more tools are run in one call
\* than the request allows, whatever the model asks for.
TypeOK ==
    /\ DOMAIN windows \subseteq Prices /\ \A p \in DOMAIN windows : windows[p] \in Window
    /\ adding \in [Prices -> [step : Adding, window : Window]]
    /\ pricing \in Prices \cup {NoOne}
    /\ run \in [Calls -> Run]
    /\ now \in 1..Horizon

\* The price a call was recorded with is for ever the only one in force when it
\* started, whichever prices are added meanwhile or later for that time.
CostsStayTrue ==
    \A c \in Calls : (run[c].step = "SUCCEEDED" /\ run[c].price # NoPrice)
                        => Around(run[c].started) = {run[c].price}

-----------------------------------------------------------------------------
(* The inductive invariant behind them.                                    *)

Disjoint(v, w) == v.to <= w.from \/ w.to <= v.from

\* Windows are inserted once, under the lock, and the one that was checked still
\* overlaps none.
PriceInv ==
    /\ \A p, q \in DOMAIN windows : p # q => Disjoint(windows[p], windows[q])
    /\ \A p \in DOMAIN windows : adding[p].step = "done"
    /\ \A p \in Prices : adding[p].step \in {"locked", "checked"} => pricing = p
    /\ \A p \in Prices : adding[p].step = "checked" =>
          \A q \in DOMAIN windows : Disjoint(windows[q], adding[p].window)

\* A call in progress has started; what it ran, it counted before; and a price it
\* found was in force.
CallInv ==
    \A c \in Calls :
       /\ run[c].executed <= run[c].requested
       /\ run[c].step # "idle" => run[c].started > 0
       /\ run[c].step \in {"priced", "SUCCEEDED"} /\ run[c].price # NoPrice
            => run[c].price \in Around(run[c].started)

IInv == TypeOK /\ PriceInv /\ CallInv
=============================================================================
