-------------------------- MODULE LockFreeStackProofs --------------------------
(***************************************************************************)
(* Proofs about the lock-free stack, for every set of nodes, finite set of *)
(* threads and bound on the calls.                                         *)
(***************************************************************************)
EXTENDS LockFreeStack, TLAPS, FiniteSetTheorems

\* A node a thread has is not in the stack, and no other thread's.
Owned(t) ==
  has[t] \in Node =>
    /\ \A i \in DOMAIN content : content[i] # has[t]
    /\ \A u \in Thread : u # t => has[u] # has[t]

\* Where a thread is tells whether it has a node.
Placed(t) ==
  /\ pc[t] \in {"push load", "push link", "push swap", "pop size", "delete"}
       => has[t] \in Node
  /\ pc[t] \in {"push size", "pop load", "pop next", "pop swap", "clear"}
       => has[t] \notin Node

\* A copy of the head is older than the head or the same, and what has been done
\* with one that is the same still holds.
CopySound(t) ==
  /\ pc[t] \in {"push link", "push swap", "pop next", "pop swap"} =>
       orig[t].aba <= head.aba /\ (orig[t].aba = head.aba => orig[t] = head)
  /\ pc[t] \in {"pop next", "pop swap"} => orig[t].node \in Node
  /\ pc[t] = "push swap" => next[has[t]] = orig[t].node
  /\ pc[t] = "pop swap" /\ orig[t] = head => new[t] = next[head.node]

Sound(t) == Owned(t) /\ Placed(t) /\ CopySound(t)
Inv == TypeOK /\ ChainExact /\ \A t \in Thread : Sound(t)
-----------------------------------------------------------------------------
LEMMA InitInv == Init => Inv
  BY StackAssumption, SMT DEF Init, Inv, TypeOK, ChainExact, Sound, Owned, Placed,
     CopySound, Head0, Pointer, Link

\* What a thread does at most to itself leaves the others alone.
OthersSame(t) ==
  \A u \in Thread \ {t} :
    pc'[u] = pc[u] /\ orig'[u] = orig[u] /\ new'[u] = new[u] /\ has'[u] = has[u]
Local(t) ==
  /\ UNCHANGED <<head, next, content>> /\ has'[t] \in {has[t], NULL, None}
  /\ OthersSame(t)

\* A step that changes neither the head, nor a next pointer, nor who has a node,
\* except that one may be let go.
LEMMA LocalInv ==
  ASSUME Inv, NEW t \in Thread, Local(t), TypeOK', Placed(t)', CopySound(t)'
  PROVE  Inv'
  <1>1. ChainExact'
    BY DEF Inv, ChainExact, Link, Local
  <1>2. NULL \notin Node /\ None \notin Node
    BY StackAssumption
  <1>3. ASSUME NEW u \in Thread PROVE Sound(u)'
    <2>1. Owned(u)'
      BY <1>2 DEF Inv, Sound, Owned, Local, OthersSame
    <2>2. Placed(u)'
      BY DEF Inv, Sound, Placed, Local, OthersSame
    <2>3. CopySound(u)'
      BY DEF Inv, Sound, CopySound, Local, OthersSame
    <2> QED
      BY <2>1, <2>2, <2>3 DEF Sound
  <1> QED
    BY <1>1, <1>3 DEF Inv

LEMMA Numbers ==
  ASSUME TypeOK PROVE head.aba \in Nat /\ size \in Int /\ calls \in 0 .. MaxCalls
  BY DEF TypeOK

\* A node at the head is the first of the content.
LEMMA TopStacked ==
  ASSUME Inv, head.node \in Node
  PROVE  1 \in DOMAIN content /\ content[1] = head.node /\ content # <<>>
  <1>1. content # <<>> /\ content[1] = head.node
    BY StackAssumption DEF Inv, ChainExact
  <1>2. content \in Seq(Node)
    BY DEF Inv, TypeOK
  <1> QED
    BY <1>1, <1>2

LEMMA PushLocalInv ==
  ASSUME Inv, NEW t \in Thread,
         PushCall(t) \/ PushLoad(t) \/ PushFails(t) \/ PushSize(t)
  PROVE  Inv'
  <1>1. CASE PushCall(t)
    <2>1. size' = size /\ calls < MaxCalls /\ calls' = calls + 1
      BY <1>1 DEF PushCall, Call, shared
    <2>2. size' \in Int /\ calls' \in 0 .. MaxCalls
      BY <2>1, StackAssumption, Numbers DEF Inv
    <2>3. TypeOK'
      BY <1>1, <2>2 DEF Inv, TypeOK, Pointer, PushCall, At, Goto, shared, Call
    <2>4. Local(t)
      BY <1>1 DEF Inv, TypeOK, Local, OthersSame, PushCall, At, Goto, shared, Call
    <2>5. Placed(t)'
      BY <1>1, StackAssumption DEF Inv, TypeOK, Sound, Placed, PushCall, At, Goto,
         shared, Call
    <2>6. CopySound(t)'
      BY <1>1 DEF Inv, TypeOK, Pointer, Sound, CopySound, PushCall, At, Goto,
         shared, Call
    <2> QED
      BY <2>3, <2>4, <2>5, <2>6, LocalInv
  <1>2. CASE PushLoad(t)
    <2>1. size' = size /\ calls' = calls
      BY <1>2 DEF PushLoad, shared
    <2>2. size' \in Int /\ calls' \in 0 .. MaxCalls
      BY <2>1, Numbers DEF Inv
    <2>3. TypeOK'
      BY <1>2, <2>2 DEF Inv, TypeOK, Pointer, PushLoad, At, Goto, shared
    <2>4. Local(t)
      BY <1>2 DEF Inv, TypeOK, Local, OthersSame, PushLoad, At, Goto, shared
    <2>5. Placed(t)'
      BY <1>2, StackAssumption DEF Inv, TypeOK, Sound, Placed, PushLoad, At, Goto,
         shared
    <2>6. orig'[t] = head /\ head' = head
      BY <1>2 DEF Inv, TypeOK, PushLoad, At, Goto, shared
    <2>7. head.aba <= head.aba
      BY Numbers DEF Inv
    <2>8. CopySound(t)'
      BY <1>2, <2>6, <2>7 DEF Inv, TypeOK, Pointer, CopySound, PushLoad, At, Goto,
         shared
    <2> QED
      BY <2>3, <2>4, <2>5, <2>8, LocalInv
  <1>3. CASE PushFails(t)
    <2>1. size' = size /\ calls' = calls
      BY <1>3 DEF PushFails, shared
    <2>2. size' \in Int /\ calls' \in 0 .. MaxCalls
      BY <2>1, Numbers DEF Inv
    <2>3. TypeOK'
      BY <1>3, <2>2 DEF Inv, TypeOK, Pointer, PushFails, At, Goto, shared
    <2>4. Local(t)
      BY <1>3 DEF Inv, TypeOK, Local, OthersSame, PushFails, At, Goto, shared
    <2>5. Placed(t)'
      BY <1>3, StackAssumption DEF Inv, TypeOK, Sound, Placed, PushFails, At, Goto,
         shared
    <2>6. orig'[t] = head /\ head' = head
      BY <1>3 DEF Inv, TypeOK, PushFails, At, Goto, shared
    <2>7. head.aba <= head.aba
      BY Numbers DEF Inv
    <2>8. CopySound(t)'
      BY <1>3, <2>6, <2>7 DEF Inv, TypeOK, Pointer, CopySound, PushFails, At, Goto,
         shared
    <2> QED
      BY <2>3, <2>4, <2>5, <2>8, LocalInv
  <1>4. CASE PushSize(t)
    <2>1. size' = size + 1 /\ calls' = calls
      BY <1>4 DEF PushSize, shared
    <2>2. size' \in Int /\ calls' \in 0 .. MaxCalls
      BY <2>1, Numbers DEF Inv
    <2>3. TypeOK'
      BY <1>4, <2>2 DEF Inv, TypeOK, Pointer, PushSize, At, Goto, shared
    <2>4. Local(t)
      BY <1>4 DEF Inv, TypeOK, Local, OthersSame, PushSize, At, Goto, shared
    <2>5. Placed(t)'
      BY <1>4, StackAssumption DEF Inv, TypeOK, Sound, Placed, PushSize, At, Goto,
         shared
    <2>6. CopySound(t)'
      BY <1>4 DEF Inv, TypeOK, Pointer, Sound, CopySound, PushSize, At, Goto, shared
    <2> QED
      BY <2>3, <2>4, <2>5, <2>6, LocalInv
  <1> QED
    BY <1>1, <1>2, <1>3, <1>4

LEMMA PopLocalInv ==
  ASSUME Inv, NEW t \in Thread,
         PopCall(t) \/ PopLoad(t) \/ PopNext(t) \/ PopFails(t) \/ PopSize(t)
  PROVE  Inv'
  <1>1. CASE PopCall(t)
    <2>1. size' = size /\ calls < MaxCalls /\ calls' = calls + 1
      BY <1>1 DEF PopCall, Call, shared
    <2>2. size' \in Int /\ calls' \in 0 .. MaxCalls
      BY <2>1, StackAssumption, Numbers DEF Inv
    <2>3. TypeOK'
      BY <1>1, <2>2 DEF Inv, TypeOK, Pointer, PopCall, At, Goto, shared, Call, Gets
    <2>4. Local(t)
      BY <1>1 DEF Inv, TypeOK, Local, OthersSame, PopCall, At, Goto, shared, Call,
         Gets
    <2>5. Placed(t)'
      BY <1>1, StackAssumption DEF Inv, TypeOK, Sound, Placed, PopCall, At, Goto,
         shared, Call, Gets
    <2>6. CopySound(t)'
      BY <1>1 DEF Inv, TypeOK, Pointer, Sound, CopySound, PopCall, At, Goto, shared,
         Call, Gets
    <2> QED
      BY <2>3, <2>4, <2>5, <2>6, LocalInv
  <1>2. CASE PopLoad(t)
    <2>1. size' = size /\ calls' = calls
      BY <1>2 DEF PopLoad, shared
    <2>2. size' \in Int /\ calls' \in 0 .. MaxCalls
      BY <2>1, Numbers DEF Inv
    <2>3. TypeOK'
      <3>1. CASE head.node = NULL
        BY <1>2, <2>2, <3>1 DEF Inv, TypeOK, Pointer, PopLoad, At, Goto, shared,
           Loaded, Gets
      <3>2. CASE ~(head.node = NULL)
        BY <1>2, <2>2, <3>2 DEF Inv, TypeOK, Pointer, PopLoad, At, Goto, shared,
           Loaded, Gets
      <3> QED
        BY <3>1, <3>2
    <2>4. Local(t)
      BY <1>2 DEF Inv, TypeOK, Local, OthersSame, PopLoad, At, Goto, shared, Loaded,
         Gets
    <2>5. Placed(t)'
      BY <1>2, StackAssumption DEF Inv, TypeOK, Sound, Placed, PopLoad, At, Goto,
         shared, Loaded, Gets
    <2>6. orig'[t] = head /\ head' = head
      BY <1>2 DEF Inv, TypeOK, PopLoad, At, Goto, shared, Loaded, Gets
    <2>7. head.aba <= head.aba
      BY Numbers DEF Inv
    <2>8. CopySound(t)'
      BY <1>2, <2>6, <2>7 DEF Inv, TypeOK, Pointer, CopySound, PopLoad, At, Goto,
         shared, Loaded, Gets
    <2> QED
      BY <2>3, <2>4, <2>5, <2>8, LocalInv
  <1>3. CASE PopNext(t)
    <2>1. size' = size /\ calls' = calls
      BY <1>3 DEF PopNext, shared
    <2>2. size' \in Int /\ calls' \in 0 .. MaxCalls
      BY <2>1, Numbers DEF Inv
    <2>3. TypeOK'
      <3>1. next \in [Node -> Pointer] /\ orig[t].node \in Node
        BY <1>3 DEF Inv, TypeOK, Sound, CopySound, PopNext, At, Goto, shared, Gets
      <3>2. PICK p \in Pointer : new' = [new EXCEPT ![t] = p]
        BY <1>3, <3>1 DEF PopNext
      <3> QED
        BY <1>3, <2>2, <3>2 DEF Inv, TypeOK, PopNext, At, Goto, shared, Gets
    <2>4. Local(t)
      BY <1>3 DEF Inv, TypeOK, Local, OthersSame, PopNext, At, Goto, shared, Gets
    <2>5. Placed(t)'
      BY <1>3, StackAssumption DEF Inv, TypeOK, Sound, Placed, PopNext, At, Goto,
         shared, Gets
    <2>6. CopySound(t)'
      <3>1. ASSUME orig[t] = head PROVE new'[t] = next[head.node]
        <4>1. head.node \in Node
          BY <1>3, <3>1 DEF Inv, Sound, CopySound, PopNext, At, Goto, shared, Gets
        <4>2. ~Free(head.node)
          BY <4>1, TopStacked DEF Inv, Free
        <4>3. new' = [new EXCEPT ![t] = next[head.node]]
          BY <1>3, <3>1, <4>2 DEF PopNext
        <4> QED
          BY <4>3 DEF Inv, TypeOK
      <3>2. /\ pc'[t] = "pop swap" /\ orig' = orig /\ head' = head /\ next' = next
            /\ pc[t] = "pop next"
        BY <1>3 DEF Inv, TypeOK, PopNext, At, Goto, shared, Gets
      <3> QED
        BY <3>1, <3>2 DEF Inv, Sound, CopySound
    <2> QED
      BY <2>3, <2>4, <2>5, <2>6, LocalInv
  <1>4. CASE PopFails(t)
    <2>1. size' = size /\ calls' = calls
      BY <1>4 DEF PopFails, shared
    <2>2. size' \in Int /\ calls' \in 0 .. MaxCalls
      BY <2>1, Numbers DEF Inv
    <2>3. TypeOK'
      <3>1. CASE head.node = NULL
        BY <1>4, <2>2, <3>1 DEF Inv, TypeOK, Pointer, PopFails, At, Goto, shared,
           Loaded, Gets
      <3>2. CASE ~(head.node = NULL)
        BY <1>4, <2>2, <3>2 DEF Inv, TypeOK, Pointer, PopFails, At, Goto, shared,
           Loaded, Gets
      <3> QED
        BY <3>1, <3>2
    <2>4. Local(t)
      BY <1>4 DEF Inv, TypeOK, Local, OthersSame, PopFails, At, Goto, shared,
         Loaded, Gets
    <2>5. Placed(t)'
      BY <1>4, StackAssumption DEF Inv, TypeOK, Sound, Placed, PopFails, At, Goto,
         shared, Loaded, Gets
    <2>6. orig'[t] = head /\ head' = head
      BY <1>4 DEF Inv, TypeOK, PopFails, At, Goto, shared, Loaded, Gets
    <2>7. head.aba <= head.aba
      BY Numbers DEF Inv
    <2>8. CopySound(t)'
      BY <1>4, <2>6, <2>7 DEF Inv, TypeOK, Pointer, CopySound, PopFails, At, Goto,
         shared, Loaded, Gets
    <2> QED
      BY <2>3, <2>4, <2>5, <2>8, LocalInv
  <1>5. CASE PopSize(t)
    <2>1. size' = size - 1 /\ calls' = calls
      BY <1>5 DEF PopSize, shared
    <2>2. size' \in Int /\ calls' \in 0 .. MaxCalls
      BY <2>1, Numbers DEF Inv
    <2>3. TypeOK'
      BY <1>5, <2>2 DEF Inv, TypeOK, Pointer, PopSize, At, Goto, shared, Gets
    <2>4. Local(t)
      BY <1>5 DEF Inv, TypeOK, Local, OthersSame, PopSize, At, Goto, shared, Gets
    <2>5. Placed(t)'
      BY <1>5, StackAssumption DEF Inv, TypeOK, Sound, Placed, PopSize, At, Goto,
         shared, Gets
    <2>6. CopySound(t)'
      BY <1>5 DEF Inv, TypeOK, Pointer, Sound, CopySound, PopSize, At, Goto, shared,
         Gets
    <2> QED
      BY <2>3, <2>4, <2>5, <2>6, LocalInv
  <1> QED
    BY <1>1, <1>2, <1>3, <1>4, <1>5

LEMMA ClearLocalInv ==
  ASSUME Inv, NEW t \in Thread,
         ClearCall(t) \/ ClearTest(t) \/ ClearDelete(t) \/ NodeDel(t)
  PROVE  Inv'
  <1>1. CASE ClearCall(t)
    <2>1. size' = size /\ calls < MaxCalls /\ calls' = calls + 1
      BY <1>1 DEF ClearCall, Call, shared
    <2>2. size' \in Int /\ calls' \in 0 .. MaxCalls
      BY <2>1, StackAssumption, Numbers DEF Inv
    <2>3. TypeOK'
      BY <1>1, <2>2 DEF Inv, TypeOK, Pointer, ClearCall, At, Goto, shared, Call
    <2>4. Local(t)
      BY <1>1 DEF Inv, TypeOK, Local, OthersSame, ClearCall, At, Goto, shared, Call
    <2>5. Placed(t)'
      BY <1>1, StackAssumption DEF Inv, TypeOK, Sound, Placed, ClearCall, At, Goto,
         shared, Call
    <2>6. CopySound(t)'
      BY <1>1 DEF Inv, TypeOK, Pointer, Sound, CopySound, ClearCall, At, Goto,
         shared, Call
    <2> QED
      BY <2>3, <2>4, <2>5, <2>6, LocalInv
  <1>2. CASE ClearTest(t)
    <2>1. size' = size /\ calls' = calls
      BY <1>2 DEF ClearTest, shared
    <2>2. size' \in Int /\ calls' \in 0 .. MaxCalls
      BY <2>1, Numbers DEF Inv
    <2>3. TypeOK'
      <3>1. /\ UNCHANGED <<head, next, size, content, orig, new, calls>>
            /\ has' = [has EXCEPT ![t] = None]
            /\ \/ pc' = [pc EXCEPT ![t] = "pop load"] /\ clearing' = clearing
               \/ /\ pc' = [pc EXCEPT ![t] = "idle"]
                  /\ clearing' = [clearing EXCEPT ![t] = FALSE]
        BY <1>2 DEF ClearTest, At, Goto, shared, Gets
      <3> QED
        BY <2>2, <3>1 DEF Inv, TypeOK, Pointer
    <2>4. Local(t)
      BY <1>2 DEF Inv, TypeOK, Local, OthersSame, ClearTest, At, Goto, shared, Gets
    <2>5. Placed(t)'
      BY <1>2, StackAssumption DEF Inv, TypeOK, Sound, Placed, ClearTest, At, Goto,
         shared, Gets
    <2>6. CopySound(t)'
      BY <1>2 DEF Inv, TypeOK, Pointer, Sound, CopySound, ClearTest, At, Goto,
         shared, Gets
    <2> QED
      BY <2>3, <2>4, <2>5, <2>6, LocalInv
  <1>3. CASE ClearDelete(t)
    <2>1. size' = size /\ calls' = calls
      BY <1>3 DEF ClearDelete, shared
    <2>2. size' \in Int /\ calls' \in 0 .. MaxCalls
      BY <2>1, Numbers DEF Inv
    <2>3. TypeOK'
      BY <1>3, <2>2 DEF Inv, TypeOK, Pointer, ClearDelete, At, Goto, shared, Gets
    <2>4. Local(t)
      BY <1>3 DEF Inv, TypeOK, Local, OthersSame, ClearDelete, At, Goto, shared,
         Gets
    <2>5. Placed(t)'
      BY <1>3, StackAssumption DEF Inv, TypeOK, Sound, Placed, ClearDelete, At,
         Goto, shared, Gets
    <2>6. CopySound(t)'
      BY <1>3 DEF Inv, TypeOK, Pointer, Sound, CopySound, ClearDelete, At, Goto,
         shared, Gets
    <2> QED
      BY <2>3, <2>4, <2>5, <2>6, LocalInv
  <1>4. CASE NodeDel(t)
    <2>1. size' = size /\ calls' = calls
      BY <1>4 DEF NodeDel, shared
    <2>2. size' \in Int /\ calls' \in 0 .. MaxCalls
      BY <2>1, Numbers DEF Inv
    <2>3. TypeOK'
      BY <1>4, <2>2 DEF Inv, TypeOK, Pointer, NodeDel, At, Goto, shared, Gets
    <2>4. Local(t)
      BY <1>4 DEF Inv, TypeOK, Local, OthersSame, NodeDel, At, Goto, shared, Gets
    <2>5. Placed(t)'
      BY <1>4, StackAssumption DEF Inv, TypeOK, Sound, Placed, NodeDel, At, Goto,
         shared, Gets
    <2>6. CopySound(t)'
      BY <1>4 DEF Inv, TypeOK, Pointer, Sound, CopySound, NodeDel, At, Goto, shared,
         Gets
    <2> QED
      BY <2>3, <2>4, <2>5, <2>6, LocalInv
  <1> QED
    BY <1>1, <1>2, <1>3, <1>4

\* A step that changes the next pointer of a node that is not in the stack, and is
\* the thread's then.
LEMMA LinkInv ==
  ASSUME Inv, NEW t \in Thread, NEW n \in Node, NEW p,
         next' = [next EXCEPT ![n] = p], UNCHANGED <<head, content>>,
         has'[t] = n, OthersSame(t),
         \A i \in DOMAIN content : content[i] # n,
         \A u \in Thread : u # t => has[u] # n,
         TypeOK', Placed(t)', CopySound(t)'
  PROVE  Inv'
  <1>1. ChainExact'
    <2>1. ASSUME NEW i \in DOMAIN content PROVE next'[content[i]] = next[content[i]]
      <3>1. content \in Seq(Node)
        BY DEF Inv, TypeOK
      <3>2. content[i] \in Node /\ content[i] # n
        BY <3>1
      <3> QED
        BY <3>2 DEF Inv, TypeOK
    <2> QED
      BY <2>1 DEF Inv, ChainExact, Link
  <1>2. ASSUME NEW u \in Thread \ {t} PROVE Sound(u)'
    <2>1. Owned(u)' /\ Placed(u)'
      BY DEF Inv, Sound, Owned, Placed, OthersSame
    <2>2. ASSUME pc[u] = "push swap" PROVE next'[has[u]] = next[has[u]]
      <3>1. has[u] \in Node /\ has[u] # n
        BY <2>2 DEF Inv, Sound, Placed
      <3> QED
        BY <3>1 DEF Inv, TypeOK
    <2>3. ASSUME pc[u] = "pop swap", orig[u] = head PROVE next'[head.node] = next[head.node]
      <3>1. head.node \in Node
        BY <2>3 DEF Inv, Sound, CopySound
      <3>2. head.node # n
        BY <3>1, TopStacked
      <3> QED
        BY <3>1, <3>2 DEF Inv, TypeOK
    <2>4. CopySound(u)'
      BY <2>2, <2>3 DEF Inv, Sound, CopySound, OthersSame
    <2> QED
      BY <2>1, <2>4 DEF Sound
  <1>3. Owned(t)'
    BY DEF Owned, OthersSame
  <1> QED
    BY <1>1, <1>2, <1>3 DEF Inv, Sound

LEMMA NodeNewInv ==
  ASSUME Inv, NEW t \in Thread, NEW n \in Node, NodeNew(t, n)
  PROVE  Inv'
  <1>1. size' \in Int /\ calls' \in 0 .. MaxCalls
    BY Numbers DEF Inv, NodeNew
  <1>2. TypeOK'
    BY <1>1 DEF Inv, TypeOK, Pointer, NodeNew, Gets
  <1>3. /\ OthersSame(t) /\ has'[t] = n /\ pc'[t] = "idle"
        /\ \A i \in DOMAIN content : content[i] # n
        /\ \A u \in Thread : u # t => has[u] # n
    BY DEF Inv, TypeOK, OthersSame, NodeNew, At, Gets, Free
  <1>4. Placed(t)' /\ CopySound(t)'
    BY <1>3 DEF Placed, CopySound
  <1> QED
    BY <1>2, <1>3, <1>4, LinkInv DEF NodeNew

LEMMA PushLinkInv ==
  ASSUME Inv, NEW t \in Thread, PushLink(t)
  PROVE  Inv'
  <1>1. size' \in Int /\ calls' \in 0 .. MaxCalls
    BY Numbers DEF Inv, PushLink
  <1>2. has[t] \in Node /\ orig[t].node \in Pointer
    BY DEF Inv, TypeOK, Sound, Placed, PushLink, At
  <1>3. TypeOK'
    BY <1>1, <1>2 DEF Inv, TypeOK, Pointer, PushLink, At, Goto
  <1>4. /\ OthersSame(t) /\ has' = has /\ pc'[t] = "push swap"
        /\ next'[has[t]] = orig[t].node
        /\ \A i \in DOMAIN content : content[i] # has[t]
        /\ \A u \in Thread : u # t => has[u] # has[t]
    BY <1>2 DEF Inv, TypeOK, Sound, Owned, OthersSame, PushLink, At, Goto
  <1>5. Placed(t)'
    BY <1>2, <1>4 DEF Placed
  <1>6. CopySound(t)'
    BY <1>4 DEF Inv, Sound, CopySound, PushLink, At
  <1> QED
    BY <1>2, <1>3, <1>4, <1>5, <1>6, LinkInv DEF PushLink

\* A swap of the head makes all copies of it out of date.
LEMMA SwapCopies ==
  ASSUME Inv, NEW t \in Thread, head'.aba = head.aba + 1, next' = next, OthersSame(t),
         NEW u \in Thread \ {t}
  PROVE  CopySound(u)'
  <1>1. head.aba \in Nat /\ orig[u].aba \in Nat
    BY DEF Inv, TypeOK
  <1>2. orig[u].aba <= head.aba => orig[u].aba <= head'.aba /\ orig[u].aba # head'.aba
    BY <1>1
  <1>3. pc'[u] = pc[u] /\ orig'[u] = orig[u] /\ has'[u] = has[u]
    BY DEF OthersSame
  <1> QED
    BY <1>2, <1>3 DEF Inv, Sound, CopySound

LEMMA PushSwapsInv ==
  ASSUME Inv, NEW t \in Thread, PushSwaps(t)
  PROVE  Inv'
  <1> DEFINE n == has[t]
  <1>1. size' \in Int /\ calls' \in 0 .. MaxCalls
    BY Numbers DEF Inv, PushSwaps
  <1>2. n \in Node /\ head = orig[t] /\ next[n] = head.node
    BY DEF Inv, Sound, Placed, CopySound, PushSwaps, At
  <1>3. head' = [aba |-> head.aba + 1, node |-> n] /\ head' \in [aba : Nat, node : Pointer]
    <2>1. head' = [aba |-> head.aba + 1, node |-> n]
      BY <1>2 DEF PushSwaps
    <2>2. head.aba + 1 \in Nat
      BY Numbers DEF Inv
    <2> QED
      BY <1>2, <2>1, <2>2 DEF Pointer
  <1>4. content' = <<n>> \o content /\ content \in Seq(Node) /\ next' = next
    BY DEF Inv, TypeOK, PushSwaps
  <1>5. /\ content' \in Seq(Node) /\ Len(content') = Len(content) + 1
        /\ \A i \in DOMAIN content' :
             content'[i] = IF i = 1 THEN n ELSE content[i - 1]
    BY <1>2, <1>4
  <1>6. TypeOK'
    BY <1>1, <1>3, <1>5 DEF Inv, TypeOK, PushSwaps, At, Goto, Gets
  <1>7. OthersSame(t) /\ pc'[t] = "push size" /\ has'[t] = None
    BY DEF Inv, TypeOK, OthersSame, PushSwaps, At, Goto, Gets
  <1>8. ChainExact'
    <2>1. head'.node = content'[1] /\ content' # <<>>
      BY <1>2, <1>3, <1>4, <1>5
    <2>2. ASSUME NEW i \in DOMAIN content'
          PROVE  next[content'[i]] = IF i = Len(content') THEN NULL ELSE content'[i + 1]
      <3>1. CASE i = 1
        BY <1>2, <1>4, <1>5, <3>1 DEF Inv, ChainExact
      <3>2. CASE i # 1
        <4>1. i - 1 \in DOMAIN content /\ content'[i] = content[i - 1]
          BY <1>4, <1>5, <3>2
        <4>2. next[content[i - 1]] = IF i - 1 = Len(content) THEN NULL ELSE content[i - 1 + 1]
          BY <4>1 DEF Inv, ChainExact, Link
        <4>3. i - 1 = Len(content) <=> i = Len(content')
          BY <1>4, <1>5
        <4>4. i # Len(content') => content'[i + 1] = content[i - 1 + 1]
          BY <1>4, <1>5
        <4> QED
          BY <4>1, <4>2, <4>3, <4>4
      <3> QED
        BY <3>1, <3>2
    <2>3. ASSUME NEW i \in DOMAIN content', NEW j \in DOMAIN content', content'[i] = content'[j]
          PROVE  i = j
      <3>1. \A k \in DOMAIN content : content[k] # n
        BY <1>2 DEF Inv, Sound, Owned
      <3> QED
        BY <1>4, <1>5, <2>3, <3>1 DEF Inv, ChainExact
    <2> QED
      BY <1>4, <2>1, <2>2, <2>3 DEF ChainExact, Link
  <1>9. ASSUME NEW u \in Thread PROVE Sound(u)'
    <2>1. CASE u = t
      BY <1>7, <2>1, StackAssumption DEF Sound, Owned, Placed, CopySound
    <2>2. CASE u # t
      <3>1. \A i \in DOMAIN content : content[i] # has[u] \/ has[u] \notin Node
        BY DEF Inv, Sound, Owned
      <3>2. Owned(u)'
        <4>1. ASSUME has[u] \in Node PROVE \A i \in DOMAIN content' : content'[i] # has[u]
          <5>1. has[u] # n
            BY <1>2, <2>2 DEF Inv, Sound, Owned
          <5> QED
            BY <1>4, <1>5, <3>1, <4>1, <5>1
        <4>2. \A v \in Thread : has'[v] = has[v] \/ has'[v] = None
          BY <1>7 DEF OthersSame
        <4>3. has'[u] = has[u]
          BY <1>7, <2>2 DEF OthersSame
        <4> QED
          BY <4>1, <4>2, <4>3, StackAssumption DEF Inv, Sound, Owned
      <3>3. Placed(u)'
        BY <1>7, <2>2 DEF Inv, Sound, Placed, OthersSame
      <3>4. CopySound(u)'
        BY <1>3, <1>4, <1>7, <2>2, SwapCopies
      <3> QED
        BY <3>2, <3>3, <3>4 DEF Sound
    <2> QED
      BY <2>1, <2>2
  <1> QED
    BY <1>6, <1>8, <1>9 DEF Inv

LEMMA PopSwapsInv ==
  ASSUME Inv, NEW t \in Thread, PopSwaps(t)
  PROVE  Inv' /\ content # <<>> /\ has'[t] = Head(content)
  <1> DEFINE n == head.node
  <1>1. size' \in Int /\ calls' \in 0 .. MaxCalls
    BY Numbers DEF Inv, PopSwaps
  <1>2. n \in Node /\ head = orig[t] /\ new[t] = next[n]
    BY DEF Inv, Sound, CopySound, PopSwaps, At
  <1>3. 1 \in DOMAIN content /\ content[1] = n /\ content # <<>>
    BY <1>2, TopStacked
  <1>4. head' = [aba |-> head.aba + 1, node |-> next[n]] /\ head' \in [aba : Nat, node : Pointer]
    <2>1. next[n] \in Pointer
      BY <1>2 DEF Inv, TypeOK
    <2>2. head' = [aba |-> head.aba + 1, node |-> next[n]]
      BY <1>2 DEF PopSwaps
    <2>3. head.aba + 1 \in Nat
      BY Numbers DEF Inv
    <2> QED
      BY <2>1, <2>2, <2>3
  <1>5. content' = Tail(content) /\ content \in Seq(Node) /\ next' = next
    BY DEF Inv, TypeOK, PopSwaps
  <1>6. /\ content' \in Seq(Node) /\ Len(content') = Len(content) - 1
        /\ \A i \in DOMAIN content' : content'[i] = content[i + 1] /\ i + 1 \in DOMAIN content
    BY <1>3, <1>5
  <1>7. OthersSame(t) /\ pc'[t] = "pop size" /\ has'[t] = n
    BY <1>2 DEF Inv, TypeOK, OthersSame, PopSwaps, At, Goto, Gets
  <1>8. TypeOK'
    BY <1>1, <1>2, <1>4, <1>6 DEF Inv, TypeOK, Pointer, PopSwaps, At, Goto, Gets
  <1>9. ChainExact'
    <2>1. next[n] = IF 1 = Len(content) THEN NULL ELSE content[1 + 1]
      BY <1>3 DEF Inv, ChainExact, Link
    <2>2. head'.node = IF content' = <<>> THEN NULL ELSE content'[1]
      <3>1. head'.node = next[n]
        BY <1>4
      <3>2. 1 = Len(content) <=> content' = <<>>
        BY <1>3, <1>5, <1>6
      <3>3. content' # <<>> => content'[1] = content[1 + 1]
        BY <1>5, <1>6
      <3> QED
        BY <2>1, <3>1, <3>2, <3>3
    <2>3. ASSUME NEW i \in DOMAIN content'
          PROVE  next[content'[i]] = IF i = Len(content') THEN NULL ELSE content'[i + 1]
      BY <1>5, <1>6 DEF Inv, ChainExact, Link
    <2>4. ASSUME NEW i \in DOMAIN content', NEW j \in DOMAIN content', content'[i] = content'[j]
          PROVE  i = j
      BY <1>5, <1>6, <2>4 DEF Inv, ChainExact
    <2> QED
      BY <1>5, <2>2, <2>3, <2>4 DEF ChainExact, Link
  <1>10. ASSUME NEW u \in Thread PROVE Sound(u)'
    <2>1. \A i \in DOMAIN content' : content'[i] # n
      BY <1>3, <1>6 DEF Inv, ChainExact
    <2>2. \A v \in Thread : has[v] # n
      BY <1>2, <1>3 DEF Inv, Sound, Owned
    <2>3. CASE u = t
      BY <1>2, <1>7, <2>1, <2>2, <2>3 DEF Sound, Owned, Placed, CopySound,
         OthersSame
    <2>4. CASE u # t
      <3>1. Owned(u)'
        <4>1. ASSUME has[u] \in Node PROVE \A i \in DOMAIN content' : content'[i] # has[u]
          BY <1>6, <4>1 DEF Inv, Sound, Owned
        <4>2. \A v \in Thread : has'[v] = has[v] \/ has'[v] = n
          BY <1>7 DEF OthersSame
        <4>3. has'[u] = has[u]
          BY <1>7, <2>4 DEF OthersSame
        <4> QED
          BY <2>2, <4>1, <4>2, <4>3 DEF Inv, Sound, Owned
      <3>2. Placed(u)'
        BY <1>7, <2>4 DEF Inv, Sound, Placed, OthersSame
      <3>3. CopySound(u)'
        BY <1>4, <1>5, <1>7, <2>4, SwapCopies
      <3> QED
        BY <3>1, <3>2, <3>3 DEF Sound
    <2> QED
      BY <2>3, <2>4
  <1>11. Head(content) = n
    BY <1>3, <1>5
  <1> QED
    BY <1>3, <1>7, <1>8, <1>9, <1>10, <1>11 DEF Inv
-----------------------------------------------------------------------------
LEMMA StepInv ==
  ASSUME Inv, NEW t \in Thread, Step(t) \/ Application(t)
  PROVE  Inv'
  BY PushLocalInv, PopLocalInv, ClearLocalInv, NodeNewInv, PushLinkInv,
     PushSwapsInv, PopSwapsInv DEF Step, Application

LEMMA NextInv == Inv /\ [Next]_vars => Inv'
  <1>1. ASSUME Inv, UNCHANGED vars PROVE Inv'
    BY <1>1 DEF Inv, TypeOK, ChainExact, Link, Sound, Owned, Placed, CopySound,
       vars, shared, local
  <1> QED
    BY <1>1, StepInv DEF Next

\* The memory the threads share is a chain without holes and loops, of the nodes in
\* the order of the swaps, and no thread has a node of it, whatever the others do
\* between two steps of _ft_stack_push or _ft_stack_pop.
THEOREM StackChained == Spec => []ChainExact
  <1>1. Inv => ChainExact
    BY DEF Inv
  <1> QED
    BY <1>1, InitInv, NextInv, PTL DEF Spec
-----------------------------------------------------------------------------
\* The threads between a swap and the change of the size, when one goes there or on
\* from there, or neither.
OthersStay(t) == \A u \in Thread \ {t} : pc'[u] = pc[u]

LEMMA PushingMoves ==
  ASSUME NEW t \in Thread, OthersStay(t)
  PROVE  /\ Cardinality(Pushing) \in Nat
         /\ pc[t] # "push size" /\ pc'[t] # "push size" => Pushing' = Pushing
         /\ pc[t] # "push size" /\ pc'[t] = "push size"
              => Cardinality(Pushing') = Cardinality(Pushing) + 1
         /\ pc[t] = "push size" /\ pc'[t] # "push size"
              => Cardinality(Pushing') = Cardinality(Pushing) - 1
  <1>1. IsFiniteSet(Pushing)
    BY StackAssumption, FS_Subset DEF Pushing
  <1>2. pc[t] # "push size" /\ pc'[t] # "push size" => Pushing' = Pushing
    BY DEF OthersStay, Pushing
  <1>3. pc[t] # "push size" /\ pc'[t] = "push size" => Pushing' = Pushing \cup {t} /\ t \notin Pushing
    <2> SUFFICES ASSUME pc[t] # "push size", pc'[t] = "push size"
                 PROVE  Pushing' = Pushing \cup {t} /\ t \notin Pushing
      OBVIOUS
    <2>1. \A u \in Thread : pc'[u] = "push size" <=> pc[u] = "push size" \/ u = t
      BY DEF OthersStay
    <2> QED
      BY <2>1 DEF Pushing
  <1>4. pc[t] = "push size" /\ pc'[t] # "push size" => Pushing' = Pushing \ {t} /\ t \in Pushing
    BY DEF OthersStay, Pushing
  <1>5. Cardinality(Pushing) \in Nat
    BY <1>1, FS_CardinalityType
  <1>6. pc[t] # "push size" /\ pc'[t] = "push size" => Cardinality(Pushing') = Cardinality(Pushing) + 1
    BY <1>1, <1>3, FS_AddElement
  <1>7. pc[t] = "push size" /\ pc'[t] # "push size" => Cardinality(Pushing') = Cardinality(Pushing) - 1
    BY <1>1, <1>4, FS_RemoveElement
  <1> QED
    BY <1>2, <1>5, <1>6, <1>7

LEMMA PoppingMoves ==
  ASSUME NEW t \in Thread, OthersStay(t)
  PROVE  /\ Cardinality(Popping) \in Nat
         /\ pc[t] # "pop size" /\ pc'[t] # "pop size" => Popping' = Popping
         /\ pc[t] # "pop size" /\ pc'[t] = "pop size"
              => Cardinality(Popping') = Cardinality(Popping) + 1
         /\ pc[t] = "pop size" /\ pc'[t] # "pop size"
              => Cardinality(Popping') = Cardinality(Popping) - 1
  <1>1. IsFiniteSet(Popping)
    BY StackAssumption, FS_Subset DEF Popping
  <1>2. pc[t] # "pop size" /\ pc'[t] # "pop size" => Popping' = Popping
    BY DEF OthersStay, Popping
  <1>3. pc[t] # "pop size" /\ pc'[t] = "pop size" => Popping' = Popping \cup {t} /\ t \notin Popping
    <2> SUFFICES ASSUME pc[t] # "pop size", pc'[t] = "pop size"
                 PROVE  Popping' = Popping \cup {t} /\ t \notin Popping
      OBVIOUS
    <2>1. \A u \in Thread : pc'[u] = "pop size" <=> pc[u] = "pop size" \/ u = t
      BY DEF OthersStay
    <2> QED
      BY <2>1 DEF Popping
  <1>4. pc[t] = "pop size" /\ pc'[t] # "pop size" => Popping' = Popping \ {t} /\ t \in Popping
    BY DEF OthersStay, Popping
  <1>5. Cardinality(Popping) \in Nat
    BY <1>1, FS_CardinalityType
  <1>6. pc[t] # "pop size" /\ pc'[t] = "pop size" => Cardinality(Popping') = Cardinality(Popping) + 1
    BY <1>1, <1>3, FS_AddElement
  <1>7. pc[t] = "pop size" /\ pc'[t] # "pop size" => Cardinality(Popping') = Cardinality(Popping) - 1
    BY <1>1, <1>4, FS_RemoveElement
  <1> QED
    BY <1>2, <1>5, <1>6, <1>7

\* A step that has nothing to do with the size.
LEMMA SizeStays ==
  ASSUME TypeOK, SizeExact, NEW t \in Thread, NEW x \in {pc[t], "idle", "push load",
           "push link", "push swap", "pop load", "pop next", "pop swap", "clear", "delete"},
         pc[t] \notin {"push size", "pop size"}, pc' = [pc EXCEPT ![t] = x],
         size' = size, content' = content
  PROVE  SizeExact'
  <1>1. pc'[t] \notin {"push size", "pop size"} /\ OthersStay(t)
    BY DEF TypeOK, OthersStay
  <1>2. Pushing' = Pushing /\ Popping' = Popping
    BY <1>1, PushingMoves, PoppingMoves
  <1> QED
    BY <1>2 DEF SizeExact

\* The size and what it depends on, as numbers.
LEMMA SizeNumbers ==
  ASSUME Inv, SizeExact
  PROVE  /\ size \in Int /\ Len(content) \in Nat
         /\ Cardinality(Pushing) \in Nat
         /\ Cardinality(Popping) \in Nat
         /\ size = Len(content) - Cardinality(Pushing)
                     + Cardinality(Popping)
  <1>1. size \in Int /\ content \in Seq(Node)
    BY DEF Inv, TypeOK
  <1>2. Cardinality(Pushing) \in Nat /\ Cardinality(Popping) \in Nat
    <2>1. IsFiniteSet(Pushing) /\ IsFiniteSet(Popping)
      BY StackAssumption, FS_Subset DEF Pushing, Popping
    <2> QED
      BY <2>1, FS_CardinalityType
  <1> QED
    BY <1>1, <1>2 DEF SizeExact

LEMMA StepSize ==
  ASSUME Inv, SizeExact, NEW t \in Thread, Step(t) \/ Application(t)
  PROVE  SizeExact'
  <1>1. TypeOK
    BY DEF Inv
  <1>2. CASE PushSwaps(t)
    <2>1. pc[t] = "push swap" /\ pc'[t] = "push size" /\ OthersStay(t)
      BY <1>1, <1>2 DEF TypeOK, OthersStay, PushSwaps, At, Goto
    <2>2. size' = size
      BY <1>2 DEF PushSwaps
    <2>3. Len(content') = Len(content) + 1
      <3>1. content' = <<has[t]>> \o content /\ content \in Seq(Node) /\ has[t] \in Node
        BY <1>2 DEF Inv, TypeOK, Sound, Placed, PushSwaps, At
      <3> QED
        BY <3>1
    <2>4. Cardinality(Pushing') = Cardinality(Pushing) + 1
      BY <2>1, PushingMoves
    <2>5. Popping' = Popping
      BY <2>1, PoppingMoves
    <2> QED
      BY <2>2, <2>3, <2>4, <2>5, SizeNumbers DEF SizeExact
  <1>3. CASE PushSize(t)
    <2>1. pc[t] = "push size" /\ pc'[t] = "idle" /\ OthersStay(t)
      BY <1>1, <1>3 DEF TypeOK, OthersStay, PushSize, At, Goto
    <2>2. size' = size + 1 /\ content' = content
      BY <1>3 DEF PushSize
    <2>3. Cardinality(Pushing') = Cardinality(Pushing) - 1
      BY <2>1, PushingMoves
    <2>4. Popping' = Popping
      BY <2>1, PoppingMoves
    <2> QED
      BY <2>2, <2>3, <2>4, SizeNumbers DEF SizeExact
  <1>4. CASE PopSwaps(t)
    <2>1. pc[t] = "pop swap" /\ pc'[t] = "pop size" /\ OthersStay(t)
      BY <1>1, <1>4 DEF TypeOK, OthersStay, PopSwaps, At, Goto
    <2>2. size' = size
      BY <1>4 DEF PopSwaps
    <2>3. Len(content') = Len(content) - 1
      <3>1. content' = Tail(content) /\ content \in Seq(Node) /\ content # <<>>
        BY <1>4, PopSwapsInv DEF Inv, TypeOK, PopSwaps
      <3> QED
        BY <3>1
    <2>4. Cardinality(Popping') = Cardinality(Popping) + 1
      BY <2>1, PoppingMoves
    <2>5. Pushing' = Pushing
      BY <2>1, PushingMoves
    <2> QED
      BY <2>2, <2>3, <2>4, <2>5, SizeNumbers DEF SizeExact
  <1>5. CASE PopSize(t)
    <2>1. pc[t] = "pop size" /\ pc'[t] \in {"idle", "delete"} /\ OthersStay(t)
      BY <1>1, <1>5 DEF TypeOK, OthersStay, PopSize, At, Goto
    <2>2. size' = size - 1 /\ content' = content
      BY <1>5 DEF PopSize
    <2>3. pc'[t] # "pop size" /\ pc'[t] # "push size"
      BY <2>1
    <2>4. Cardinality(Popping') = Cardinality(Popping) - 1
      BY <2>1, <2>3, PoppingMoves
    <2>5. Pushing' = Pushing
      BY <2>1, <2>3, PushingMoves
    <2> QED
      BY <2>2, <2>4, <2>5, SizeNumbers DEF SizeExact
  <1>6. CASE \/ PushLoad(t) \/ PushLink(t) \/ PushFails(t) \/ PopNext(t) \/ ClearDelete(t)
             \/ PushCall(t) \/ PopCall(t) \/ ClearCall(t)
    <2>1. /\ \E x \in {"idle", "push load", "push link", "push swap", "pop load", "pop next",
                       "pop swap", "clear", "delete"} : pc' = [pc EXCEPT ![t] = x]
          /\ pc[t] \notin {"push size", "pop size"} /\ size' = size /\ content' = content
      BY <1>6 DEF PushLoad, PushLink, PushFails, PopNext, ClearDelete, PushCall,
         PopCall, ClearCall, Call, At, Goto, shared
    <2> QED
      BY <1>1, <2>1, SizeStays
  <1>7. CASE PopLoad(t) \/ PopFails(t) \/ ClearTest(t)
    <2>1. /\ \E x \in {"idle", "pop load", "pop next", "clear"} : pc' = [pc EXCEPT ![t] = x]
          /\ pc[t] \notin {"push size", "pop size"} /\ size' = size /\ content' = content
      BY <1>7 DEF PopLoad, PopFails, ClearTest, Loaded, At, Goto, shared
    <2> QED
      BY <1>1, <2>1, SizeStays
  <1>8. CASE NodeDel(t) \/ \E n \in Node : NodeNew(t, n)
    <2>1. /\ pc[t] = "idle" /\ pc' = [pc EXCEPT ![t] = "idle"]
          /\ size' = size /\ content' = content
      BY <1>1, <1>8 DEF NodeDel, NodeNew, At, shared, TypeOK
    <2> QED
      BY <1>1, <2>1, SizeStays
  <1> QED
    BY <1>2, <1>3, <1>4, <1>5, <1>6, <1>7, <1>8 DEF Step, Application

\* Once nobody is between a swap and the change of the size (ft_stack_push,
\* ft_stack_pop), the size is the number of nodes; before, it is wrong by those
\* who are.
THEOREM StackSizeExact == Spec => []SizeExact
  <1>1. Init => SizeExact
    <2> SUFFICES ASSUME Init PROVE SizeExact
      OBVIOUS
    <2>1. Pushing = {} /\ Popping = {}
      BY DEF Init, Pushing, Popping
    <2>2. Cardinality({}) = 0 /\ Len(<<>>) = 0
      BY FS_EmptySet
    <2>3. size = 0 /\ content = <<>>
      BY DEF Init
    <2> QED
      BY <2>1, <2>2, <2>3 DEF SizeExact
  <1>2. Inv /\ SizeExact /\ [Next]_vars => SizeExact'
    <2>1. ASSUME Inv, SizeExact, UNCHANGED vars PROVE SizeExact'
      BY <2>1 DEF SizeExact, Pushing, Popping, vars, shared, local
    <2> QED
      BY <2>1, StepSize DEF Next
  <1> QED
    BY <1>1, <1>2, InitInv, NextInv, PTL DEF Spec
-----------------------------------------------------------------------------
\* Each call takes effect at once: a push at its swap, a pop at its swap or where it
\* has loaded an empty head.
LEMMA StepLifo ==
  ASSUME Inv, NEW t \in Thread, Step(t) \/ Application(t)
  PROVE  [Abstract!Next]_<<content, has>>
  <1>1. NULL \notin Node /\ None \notin Node
    BY StackAssumption
  <1>2. CASE PushSwaps(t)
    <2>1. Abstract!Push(t)
      BY <1>2 DEF Inv, Sound, Placed, PushSwaps, At, Gets, Abstract!Push,
         Abstract!Gets
    <2> QED
      BY <2>1 DEF Abstract!Next
  <1>3. CASE PopSwaps(t)
    <2>1. has[t] \notin Node /\ has' = [has EXCEPT ![t] = orig[t].node]
      BY <1>3 DEF Inv, Sound, Placed, PopSwaps, At, Gets
    <2>2. content # <<>> /\ has'[t] = Head(content) /\ content' = Tail(content)
      BY <1>3, PopSwapsInv DEF PopSwaps
    <2>3. has' = [has EXCEPT ![t] = Head(content)]
      BY <2>1, <2>2 DEF Inv, TypeOK
    <2>4. Abstract!Pop(t)
      BY <2>1, <2>2, <2>3 DEF Abstract!Pop, Abstract!Gets
    <2> QED
      BY <2>4 DEF Abstract!Next
  <1>4. CASE PopLoad(t) \/ PopFails(t)
    <2>1. has[t] \notin Node /\ content' = content
      BY <1>4 DEF Inv, Sound, Placed, PopLoad, PopFails, At, shared
    <2>2. CASE head.node = NULL
      <3>1. content = <<>>
        <4>1. content \in Seq(Node)
          BY DEF Inv, TypeOK
        <4>2. content # <<>> => content[1] \in Node
          BY <4>1
        <4> QED
          BY <1>1, <2>2, <4>2 DEF Inv, ChainExact
      <3>2. has' = [has EXCEPT ![t] = NULL]
        BY <1>4, <2>2 DEF PopLoad, PopFails, Loaded, Gets
      <3> QED
        BY <2>1, <3>1, <3>2 DEF Abstract!Next, Abstract!FindNone, Abstract!Gets
    <2>3. CASE head.node # NULL
      <3>1. has' = has
        BY <1>4, <2>3 DEF PopLoad, PopFails, Loaded
      <3> QED
        BY <2>1, <3>1
    <2> QED
      BY <2>2, <2>3
  <1>5. CASE \/ PushLoad(t) \/ PushLink(t) \/ PushFails(t) \/ PushSize(t) \/ PopNext(t)
             \/ PopSize(t) \/ PushCall(t) \/ ClearCall(t)
    BY <1>5 DEF PushLoad, PushLink, PushFails, PushSize, PopNext, PopSize, PushCall,
       ClearCall, shared
  <1>6. CASE PopCall(t) \/ ClearTest(t) \/ ClearDelete(t) \/ NodeDel(t)
    <2>1. Abstract!Drop(t)
      BY <1>6 DEF PopCall, ClearTest, ClearDelete, NodeDel, Gets, shared,
         Abstract!Drop,
         Abstract!Gets
    <2> QED
      BY <2>1 DEF Abstract!Next
  <1>7. CASE \E n \in Node : NodeNew(t, n)
    <2>1. PICK n \in Node : NodeNew(t, n)
      BY <1>7
    <2>2. Abstract!New(t, n)
      BY <2>1 DEF NodeNew, Gets, Free, Abstract!New, Abstract!Gets, Abstract!Free
    <2> QED
      BY <2>2 DEF Abstract!Next
  <1> QED
    BY <1>2, <1>3, <1>4, <1>5, <1>6, <1>7 DEF Step, Application

\* The lock-free stack is a stack whose calls take effect at once, for any number of
\* threads that pop, free and push the same nodes again.
THEOREM StackIsLifo == Spec => StackSpec
  <1>1. Init => Abstract!Init
    BY DEF Init, Abstract!Init
  <1>2. Inv /\ [Next]_vars => [Abstract!Next]_<<content, has>>
    <2>1. ASSUME UNCHANGED vars PROVE UNCHANGED <<content, has>>
      BY <2>1 DEF vars, shared, local
    <2> QED
      BY <2>1, StepLifo DEF Next
  <1> QED
    BY <1>1, <1>2, InitInv, NextInv, PTL DEF Spec, StackSpec, Abstract!Spec
=============================================================================
