------------------------------- MODULE Signal -------------------------------
(* The list of calls of a Signal<E> (src/signal/signal.hpp) and what add,   *)
(* remove and one turn of publish's loop do to it.  A call pairs a weak     *)
(* pointer, None for a free function, with the stub that makes the call.    *)
EXTENDS Integers, SequencesExt

CONSTANTS
  Listeners,   \* the objects with member functions to call
  Functions,   \* the stubs of the free functions
  Methods,     \* the stubs of the member functions, one per class and member
  None

Call == [instance : {None}, call : Functions] \cup [instance : Listeners, call : Methods]

\* A free function never expires, a listener does when it is destroyed.
Valid(c, alive) == c.call \in Functions \/ c.instance \in alive

\* weak_ptr::lock
lock(c, alive) == IF c.instance \in alive THEN c.instance ELSE None

\* Mutant of Equal: the stub is not compared.
EqualInstances(c, d, alive) == lock(c, alive) = lock(d, alive)

\* operator== of Call: all expired instances are equal.
Equal(c, d, alive) == lock(c, alive) = lock(d, alive) /\ c.call = d.call

\* The elements of cs at the places in keep, in their order.
Kept(cs, keep) ==
  LET rank(i) == Cardinality({j \in keep : j <= i})
  IN  [k \in 1..Cardinality(keep) |-> cs[CHOOSE i \in keep : rank(i) = k]]

remove(cs, c, alive) == Kept(cs, {i \in DOMAIN cs : ~Equal(cs[i], c, alive)})

add(cs, c, alive) == Append(remove(cs, c, alive), c)

\* Mutant of rbegin: the loop starts one further.
rbeginNext(cs) == Len(cs) - 1

\* The loop of publish goes through the calls from the last added to the first.
rbegin(cs) == Len(cs)

\* Mutant of erase: it.base() is the element after the one it points to.
eraseBase(cs, i) == IF i < Len(cs) THEN RemoveAt(cs, i + 1) ELSE cs

\* calls.erase(std::next(it).base()), where it points to element i.
erase(cs, i) == RemoveAt(cs, i)
============================================================================
