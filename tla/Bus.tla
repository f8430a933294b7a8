-------------------------------- MODULE Bus --------------------------------
(* Bus<T...> of src/signal/bus.hpp: a signal per event type, the listeners  *)
(* that are registered and destroyed, and publications, which run handlers  *)
(* that publish other events in turn.                                       *)
(*                                                                          *)
(* Everything runs in one thread.  While a signal is being published its    *)
(* list must not be changed by a handler, nor by a nested publication of    *)
(* the same event: publish keeps iterators into the list.                   *)
EXTENDS Signal, Functions

CONSTANTS
  Events,      \* the types T...
  ReceiveOf,   \* the stub of a listener's member receive
  Receives     \* the events a listener's class has a member receive for

ASSUME BusAssumption ==
  /\ IsFiniteSet(Events)
  /\ None \notin Listeners /\ None \notin Call
  /\ Functions \cap Methods = {}
  /\ ReceiveOf \in [Listeners -> Methods]
  /\ Receives \in [Listeners -> SUBSET Events]

VARIABLES
  calls,    \* the signals' lists of calls
  held,     \* the listeners some shared_ptr of the application points to
  stack,    \* the publications under way, the innermost last
  wanted    \* history: the calls added to each signal and not removed

vars == <<calls, held, stack, wanted>>

\* it: the element the loop is at; running: the call it makes, or None; due,
\* gone, got: history, the calls that were valid and those that were expired
\* when the publication began, and the calls made since, in order.
Publication == [event : Events, it : Nat, running : Call \cup {None},
                due : SUBSET Call, gone : SUBSET Call, got : Seq(Call)]

-----------------------------------------------------------------------------
\* A stub keeps its listener alive for as long as it runs.
alive == held \cup {stack[i].running.instance :
                      i \in {j \in DOMAIN stack : stack[j].running # None}}

Busy(e) == \E i \in DOMAIN stack : stack[i].event = e

top == stack[Len(stack)]

WithTop(f) == [stack EXCEPT ![Len(stack)] = f]

size == FoldFunction(LAMBDA cs, n : Len(cs) + n, 0, calls)

Init ==
  /\ calls = [e \in Events |-> <<>>]
  /\ held = Listeners
  /\ stack = <<>>
  /\ wanted = [e \in Events |-> {}]

\* Calls that name a listener may come when it has expired: the pointer is null.
AddCall(e, c) ==
  /\ ~Busy(e)
  /\ calls' = [calls EXCEPT ![e] = add(@, c, alive)]
  /\ wanted' = [wanted EXCEPT ![e] = @ \cup {c}]
  /\ UNCHANGED <<held, stack>>

RemoveCall(e, c) ==
  /\ ~Busy(e)
  /\ calls' = [calls EXCEPT ![e] = remove(@, c, alive)]
  /\ wanted' = [wanted EXCEPT ![e] = @ \ {c}]
  /\ UNCHANGED <<held, stack>>

Receive(l) == [instance |-> l, call |-> ReceiveOf[l]]

\* reg and unreg: the member receive, for every event type it exists for.
Reg(l) ==
  /\ \A e \in Receives[l] : ~Busy(e)
  /\ calls' = [e \in Events |-> IF e \in Receives[l] THEN add(calls[e], Receive(l), alive)
                                ELSE calls[e]]
  /\ wanted' = [e \in Events |-> IF e \in Receives[l] THEN wanted[e] \cup {Receive(l)}
                                 ELSE wanted[e]]
  /\ UNCHANGED <<held, stack>>

Unreg(l) ==
  /\ \A e \in Receives[l] : ~Busy(e)
  /\ calls' = [e \in Events |-> IF e \in Receives[l] THEN remove(calls[e], Receive(l), alive)
                                ELSE calls[e]]
  /\ wanted' = [e \in Events |-> wanted[e] \ IF e \in Receives[l] THEN {Receive(l)} ELSE {}]
  /\ UNCHANGED <<held, stack>>

\* The application, a handler included, drops its last pointer to a listener.
Drop(l) ==
  /\ l \in held
  /\ held' = held \ {l}
  /\ UNCHANGED <<calls, stack, wanted>>

Publish(e) ==
  /\ ~Busy(e)
  /\ LET listed == ToSet(calls[e])
         due == {c \in listed : Valid(c, alive)}
     IN  stack' = Append(stack, [event |-> e, it |-> rbegin(calls[e]), running |-> None,
                                 due |-> due, gone |-> listed \ due, got |-> <<>>])
  /\ UNCHANGED <<calls, held, wanted>>

AtCall == stack # <<>> /\ top.running = None /\ top.it > 0

CallValid ==
  /\ AtCall
  /\ LET c == calls[top.event][top.it]
     IN  /\ Valid(c, alive)
         /\ stack' = WithTop([top EXCEPT !.running = c, !.got = Append(@, c)])
  /\ UNCHANGED <<calls, held, wanted>>

EraseExpired ==
  /\ AtCall
  /\ ~Valid(calls[top.event][top.it], alive)
  /\ calls' = [calls EXCEPT ![top.event] = erase(@, top.it)]
  /\ stack' = WithTop([top EXCEPT !.it = @ - 1])
  /\ UNCHANGED <<held, wanted>>

HandlerReturns ==
  /\ stack # <<>> /\ top.running # None
  /\ stack' = WithTop([top EXCEPT !.running = None, !.it = @ - 1])
  /\ UNCHANGED <<calls, held, wanted>>

\* An exception ends the publication; the handler that published may catch it,
\* or end with it in turn.
HandlerThrows ==
  /\ stack # <<>> /\ top.running # None
  /\ stack' = Front(stack)
  /\ UNCHANGED <<calls, held, wanted>>

PublishReturns ==
  /\ stack # <<>> /\ top.running = None /\ top.it <= 0
  /\ stack' = Front(stack)
  /\ UNCHANGED <<calls, held, wanted>>

Next ==
  \/ \E e \in Events : \E c \in Call : AddCall(e, c) \/ RemoveCall(e, c)
  \/ \E l \in Listeners : Reg(l) \/ Unreg(l) \/ Drop(l)
  \/ \E e \in Events : Publish(e)
  \/ CallValid \/ EraseExpired \/ HandlerReturns \/ HandlerThrows \/ PublishReturns

Spec == Init /\ [][Next]_vars

-----------------------------------------------------------------------------
TypeOK ==
  /\ calls \in [Events -> Seq(Call)]
  /\ held \in SUBSET Listeners
  /\ stack \in Seq(Publication)
  /\ \A i \in DOMAIN stack : stack[i].it <= Len(calls[stack[i].event])
  /\ wanted \in [Events -> SUBSET Call]

Live(C) == {c \in C : Valid(c, alive)}

\* The valid calls of a signal are the valid ones among those added and not
\* removed, each of them listed once, whatever expired meanwhile: removing or
\* adding an expired listener, and erasing one during a publication, never
\* costs another its subscription (signal.hpp, add, remove, publish).
SubscribedOnce ==
  \A e \in Events : IsInjective(calls[e]) /\ Live(ToSet(calls[e])) = Live(wanted[e])

\* And with nothing expired in the lists, size is their number (bus.hpp, size).
Subscribed ==
  /\ SubscribedOnce
  /\ (\A e \in Events : ToSet(calls[e]) = Live(ToSet(calls[e]))) =>
       size = Cardinality(UNION {{<<e, c>> : c \in Live(wanted[e])} : e \in Events})

\* A publication calls no one twice and no one who was not subscribed when it
\* began, and when it ends it has called all of those who are still valid,
\* although entries are erased under its iterator, and listeners are destroyed
\* and other events published while handlers run (signal.hpp, publish).
CalledOnce ==
  \A i \in DOMAIN stack :
    LET p == stack[i]
        done == p.running = None /\ p.it <= 0
    IN  /\ IsInjective(p.got) /\ ToSet(p.got) \subseteq p.due
        /\ done => {c \in p.due : Valid(c, alive)} \subseteq ToSet(p.got)

\* At its end no call that had expired when it began is left in the signal.
ExpiredSwept ==
  \A i \in DOMAIN stack :
    LET p == stack[i]
    IN  p.running = None /\ p.it <= 0 => p.gone \cap ToSet(calls[p.event]) = {}
============================================================================
