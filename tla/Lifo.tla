---------------------------------- MODULE Lifo ----------------------------------
(***************************************************************************)
(* What a stack of nodes promises to threads that use it at the same time  *)
(* (include/ft/cols/stack.h): every call takes effect at once, somewhere    *)
(* between its beginning and its end.  A node is in the stack, or one       *)
(* thread has it, or nobody does.                                           *)
(***************************************************************************)
EXTENDS Naturals, Sequences

CONSTANTS Thread, Node, NULL, None

VARIABLES
  content,      \* the nodes in the stack, the top first
  has           \* the node a thread has; NULL when it found none; or None

Free(n) == /\ \A i \in DOMAIN content : content[i] # n
           /\ \A t \in Thread : has[t] # n
Gets(t, x) == has' = [has EXCEPT ![t] = x]

New(t, n) == has[t] \notin Node /\ Free(n) /\ Gets(t, n) /\ UNCHANGED content
Push(t) == has[t] \in Node /\ content' = <<has[t]>> \o content /\ Gets(t, None)
Pop(t) ==
  /\ has[t] \notin Node /\ content # <<>>
  /\ content' = Tail(content) /\ Gets(t, Head(content))
FindNone(t) == /\ has[t] \notin Node /\ content = <<>>
               /\ Gets(t, NULL) /\ UNCHANGED content
Drop(t) == Gets(t, None) /\ UNCHANGED content

Init == content = <<>> /\ has = [t \in Thread |-> None]
Next == \E t \in Thread :
          \/ Push(t) \/ Pop(t) \/ FindNone(t) \/ Drop(t)
          \/ \E n \in Node : New(t, n)
Spec == Init /\ [][Next]_<<content, has>>
=============================================================================
