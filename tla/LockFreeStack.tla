----------------------------- MODULE LockFreeStack -----------------------------
(***************************************************************************)
(* The lock-free stack (src/cols/stack.c): threads change its head by       *)
(* compare-and-swap, and its size after that.  A step is an access to what  *)
(* threads share.                                                           *)
(*                                                                         *)
(* A thread reads the next pointer of the node it is about to pop when      *)
(* others may have popped and freed it: what it reads then is any value.    *)
(* The counter "aba" in the head is what makes the swap fail afterwards; it  *)
(* is taken not to come round to the same value while a thread waits.       *)
(* "size" is a number below zero where the size_t of the code is close to   *)
(* its end; ft_stack_clear asks whether it is zero.                         *)
(*                                                                         *)
(* An operator that is not reached from Next is the next definition with a  *)
(* bug in it; the properties are known to catch it.                         *)
(***************************************************************************)
EXTENDS Integers, Sequences, FiniteSets

CONSTANTS
  Thread,
  Node,         \* the addresses malloc returns
  MaxCalls,     \* bound: calls of ft_stack_push, ft_stack_pop, ft_stack_clear
  NULL, None

ASSUME StackAssumption == /\ IsFiniteSet(Thread) /\ MaxCalls \in Nat
                          /\ NULL \notin Node /\ None \notin Node /\ NULL # None

VARIABLES
  head,         \* the counter and the first node
  next,         \* of each node
  size,
  pc,           \* where each thread is
  orig,         \* its copy of the head
  new,          \* next.node, in _ft_stack_pop
  has,          \* the node it has; NULL when a pop has found none; or None
  clearing,     \* whether it is in ft_stack_clear
  content,      \* history: the nodes in the stack in the order of the swaps
  calls         \* bound: MaxCalls

shared == <<head, next, size, content>>
local == <<pc, orig, new, has, clearing>>
vars == <<shared, local, calls>>

Pointer == Node \cup {NULL}
Head0 == [aba |-> 0, node |-> NULL]

Init ==
  /\ head = Head0 /\ next = [n \in Node |-> NULL] /\ size = 0
  /\ pc = [t \in Thread |-> "idle"] /\ orig = [t \in Thread |-> Head0]
  /\ new = [t \in Thread |-> NULL] /\ has = [t \in Thread |-> None]
  /\ clearing = [t \in Thread |-> FALSE] /\ content = <<>> /\ calls = 0

At(t, here) == pc[t] = here
Goto(t, there) == pc' = [pc EXCEPT ![t] = there]
Gets(t, x) == has' = [has EXCEPT ![t] = x]
Free(n) == /\ \A i \in DOMAIN content : content[i] # n
           /\ \A t \in Thread : has[t] # n
Call(t, there) ==
  At(t, "idle") /\ Goto(t, there) /\ calls < MaxCalls /\ calls' = calls + 1
-----------------------------------------------------------------------------
\* ft_stack_node_new and ft_stack_node_del, of an application that lets go of a
\* node when it has pushed or deleted it.
NodeNew(t, n) ==
  /\ At(t, "idle") /\ has[t] \notin Node /\ Free(n) /\ Gets(t, n)
  /\ next' = [next EXCEPT ![n] = NULL]
  /\ UNCHANGED <<head, size, content, pc, orig, new, clearing, calls>>
NodeDel(t) ==
  /\ At(t, "idle") /\ has[t] \in Node /\ Gets(t, None)
  /\ UNCHANGED <<shared, pc, orig, new, clearing, calls>>

\* ft_stack_push
PushCall(t) ==
  has[t] \in Node /\ Call(t, "push load") /\ UNCHANGED <<shared, orig, new, has, clearing>>
PushLoad(t) ==
  /\ At(t, "push load") /\ Goto(t, "push link") /\ orig' = [orig EXCEPT ![t] = head]
  /\ UNCHANGED <<shared, new, has, clearing, calls>>
PushLink(t) ==
  /\ At(t, "push link") /\ Goto(t, "push swap")
  /\ next' = [next EXCEPT ![has[t]] = orig[t].node]
  /\ UNCHANGED <<head, size, content, orig, new, has, clearing, calls>>
PushSwaps(t) ==
  /\ At(t, "push swap") /\ Goto(t, "push size") /\ head = orig[t]
  /\ head' = [aba |-> orig[t].aba + 1, node |-> has[t]]
  /\ content' = <<has[t]>> \o content /\ Gets(t, None)
  /\ UNCHANGED <<next, size, orig, new, clearing, calls>>
\* A weak exchange may fail for no reason.
PushFails(t) ==
  /\ At(t, "push swap") /\ Goto(t, "push link") /\ orig' = [orig EXCEPT ![t] = head]
  /\ UNCHANGED <<shared, new, has, clearing, calls>>
PushSize(t) ==
  /\ At(t, "push size") /\ Goto(t, "idle") /\ size' = size + 1
  /\ UNCHANGED <<head, next, content, orig, new, has, clearing, calls>>

\* ft_stack_pop, from the application or from ft_stack_clear.
PopCall(t) ==
  /\ has[t] \notin Node /\ Call(t, "pop load") /\ Gets(t, None)
  /\ UNCHANGED <<shared, orig, new, clearing>>
\* The head has been loaded, by atomic_load or by an exchange that failed; an
\* empty stack ends the call.
LoadedCounts(t) ==
  /\ orig' = [orig EXCEPT ![t] = head]
  /\ IF head.node = NULL THEN Goto(t, "pop size") /\ Gets(t, NULL)
     ELSE Goto(t, "pop next") /\ UNCHANGED has
Loaded(t) ==
  /\ orig' = [orig EXCEPT ![t] = head]
  /\ IF head.node = NULL
     THEN Goto(t, IF clearing[t] THEN "clear" ELSE "idle") /\ Gets(t, NULL)
     ELSE Goto(t, "pop next") /\ UNCHANGED has
PopLoad(t) ==
  At(t, "pop load") /\ Loaded(t) /\ UNCHANGED <<shared, new, clearing, calls>>
PopNext(t) ==
  /\ At(t, "pop next") /\ Goto(t, "pop swap")
  /\ \E p \in IF Free(orig[t].node) THEN Pointer ELSE {next[orig[t].node]} :
       new' = [new EXCEPT ![t] = p]
  /\ UNCHANGED <<shared, orig, has, clearing, calls>>
PopSwapsOneWord(t) ==
  /\ At(t, "pop swap") /\ Goto(t, "pop size") /\ head.node = orig[t].node
  /\ head' = [head EXCEPT !.node = new[t]]
  /\ content' = SubSeq(content, 2, Len(content)) /\ Gets(t, orig[t].node)
  /\ UNCHANGED <<next, size, orig, new, clearing, calls>>
PopSwaps(t) ==
  /\ At(t, "pop swap") /\ Goto(t, "pop size") /\ head = orig[t]
  /\ head' = [aba |-> orig[t].aba + 1, node |-> new[t]]
  /\ content' = Tail(content) /\ Gets(t, orig[t].node)
  /\ UNCHANGED <<next, size, orig, new, clearing, calls>>
PopFails(t) ==
  At(t, "pop swap") /\ Loaded(t) /\ UNCHANGED <<shared, new, clearing, calls>>
PopSizeNotBelowZero(t) ==
  /\ At(t, "pop size") /\ Goto(t, IF clearing[t] THEN "delete" ELSE "idle")
  /\ size' = IF size > 0 THEN size - 1 ELSE 0
  /\ UNCHANGED <<head, next, content, orig, new, has, clearing, calls>>
PopSize(t) ==
  /\ At(t, "pop size") /\ Goto(t, IF clearing[t] THEN "delete" ELSE "idle")
  /\ size' = size - 1
  /\ UNCHANGED <<head, next, content, orig, new, has, clearing, calls>>

\* ft_stack_clear: as long as the size is not zero, a node is popped and deleted.
ClearCall(t) ==
  /\ has[t] \notin Node /\ Call(t, "clear") /\ clearing' = [clearing EXCEPT ![t] = TRUE]
  /\ UNCHANGED <<shared, orig, new, has>>
ClearTest(t) ==
  /\ At(t, "clear") /\ Gets(t, None)
  /\ IF size # 0 THEN Goto(t, "pop load") /\ UNCHANGED clearing
     ELSE Goto(t, "idle") /\ clearing' = [clearing EXCEPT ![t] = FALSE]
  /\ UNCHANGED <<shared, orig, new, calls>>
ClearDelete(t) ==
  /\ At(t, "delete") /\ Goto(t, "clear") /\ Gets(t, None)
  /\ UNCHANGED <<shared, orig, new, clearing, calls>>

Step(t) ==
  \/ PushLoad(t) \/ PushLink(t) \/ PushSwaps(t) \/ PushFails(t) \/ PushSize(t)
  \/ PopLoad(t) \/ PopNext(t) \/ PopSwaps(t) \/ PopFails(t) \/ PopSize(t)
  \/ ClearTest(t) \/ ClearDelete(t)
Application(t) ==
  \/ NodeDel(t) \/ PushCall(t) \/ PopCall(t) \/ ClearCall(t)
  \/ \E n \in Node : NodeNew(t, n)
Next == \E t \in Thread : Step(t) \/ Application(t)

Spec == Init /\ [][Next]_vars

\* Threads run; an exchange does not fail for no reason for ever.
FairSpec ==
  /\ Spec
  /\ \A t \in Thread : WF_vars(Step(t)) /\ SF_vars(PushSwaps(t)) /\ SF_vars(PopSwaps(t))
-----------------------------------------------------------------------------
TypeOK ==
  /\ head \in [aba : Nat, node : Pointer] /\ next \in [Node -> Pointer]
  /\ size \in Int /\ content \in Seq(Node) /\ calls \in 0 .. MaxCalls
  /\ pc \in [Thread -> {"idle", "push load", "push link", "push swap", "push size",
                        "pop load", "pop next", "pop swap", "pop size",
                        "clear", "delete"}]
  /\ orig \in [Thread -> [aba : Nat, node : Pointer]]
  /\ new \in [Thread -> Pointer] /\ has \in [Thread -> Pointer \cup {None}]
  /\ clearing \in [Thread -> BOOLEAN]

\* The chain the pointers form from the head is the content of the stack, whatever
\* freed memory has been read on the way (_ft_stack_push, _ft_stack_pop).
Link(i) == IF i = Len(content) THEN NULL ELSE content[i + 1]
ChainExact ==
  /\ head.node = IF content = <<>> THEN NULL ELSE content[1]
  /\ \A i \in DOMAIN content : next[content[i]] = Link(i)
  /\ \A i, j \in DOMAIN content : content[i] = content[j] => i = j

\* The size is wrong by the calls that have changed the head and not yet the size,
\* and by nothing else: ft_stack_clear, which goes by it, leaves no node behind
\* when nobody else is at work.
Pushing == {t \in Thread : pc[t] = "push size"}
Popping == {t \in Thread : pc[t] = "pop size"}
SizeExact == size = Len(content) - Cardinality(Pushing) + Cardinality(Popping)

\* The stack is one whose calls take effect at once: no node is lost, returned
\* twice or taken for another one with the same address.
Abstract == INSTANCE Lifo
StackSpec == Abstract!Spec

\* Every call comes to its end when threads stop making new ones, even
\* ft_stack_clear, which waits for the size.
CallsEnd == \A t \in Thread : pc[t] # "idle" ~> pc[t] = "idle"
=============================================================================
