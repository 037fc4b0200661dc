----------------------------- MODULE PubSubProofs -----------------------------
(***************************************************************************)
(* Proofs about publishing, for any subscribers, pubsubs and topics and    *)
(* any number of calls of ft_pubsub_publish running within each other.     *)
(***************************************************************************)
EXTENDS PubSub, FiniteSetTheorems, WellFoundedInduction, TLAPS

Call == [at : Pubsub, topic : Topic, sub : Sub, called : Seq(Sub),
         since : SUBSET Sub, cut : BOOLEAN]

TypeOK ==
  /\ chain \in [Pubsub -> Seq(Sub)]
  /\ topic \in [Sub -> Topic \cup {None}] /\ pubsub \in [Sub -> Pubsub \cup {None}]
  /\ stack \in Seq(Call)

\* The chain of pubsub q leads from s on to u.
Behind(q, s, u) ==
  \E i, j \in DOMAIN chain[q] : i < j /\ chain[q][i] = s /\ chain[q][j] = u
Called(p) == {p.called[k] : k \in DOMAIN p.called}

\* What holds of a running call whatever callbacks do: it has not yet called those
\* behind its subscriber, and, unless the chain was cut under it, all before.
Tracked(p) ==
  /\ \A s \in p.since : pubsub[s] = p.at /\ topic[s] = p.topic /\ s \notin Silent
  /\ \A s \in p.since :
       \A k, m \in DOMAIN p.called : p.called[k] = s /\ p.called[m] = s => k = m
  /\ pubsub[p.sub] = p.at =>
       \A s \in p.since : Behind(p.at, p.sub, s) => s \notin Called(p)
  /\ ~p.cut => /\ pubsub[p.sub] = p.at
               /\ \A s \in p.since : ~Behind(p.at, p.sub, s) => s \in Called(p)

Inv == TypeOK /\ ChainsExact /\ \A i \in DOMAIN stack : Tracked(stack[i])
-----------------------------------------------------------------------------
\* What appending to a chain and unlinking from it do to the order.
LEMMA AppendOrder ==
  ASSUME NEW c \in Seq(Sub), NEW x \in Sub
  PROVE  /\ Append(c, x) \in Seq(Sub) /\ DOMAIN Append(c, x) = 1 .. Len(c) + 1
         /\ DOMAIN c = 1 .. Len(c) /\ Len(c) \in Nat
         /\ \A i \in DOMAIN c : Append(c, x)[i] = c[i]
         /\ Append(c, x)[Len(c) + 1] = x
OBVIOUS

LEMMA UnlinkOrder ==
  ASSUME NEW c \in Seq(Sub), NEW i \in DOMAIN c
  PROVE  /\ Unlink(c, i) \in Seq(Sub)
         /\ DOMAIN Unlink(c, i) = 1 .. Len(c) - 1
         /\ DOMAIN c = 1 .. Len(c) /\ Len(c) \in Nat
         /\ \A j \in 1 .. Len(c) - 1 : Unlink(c, i)[j] = IF j < i THEN c[j] ELSE c[j + 1]
<1>1. Len(c) \in Nat /\ DOMAIN c = 1 .. Len(c) /\ i \in 1 .. Len(c)  OBVIOUS
<1>2. \A j \in 1 .. Len(c) - 1 :
        c[j] \in Sub /\ c[j + 1] \in Sub
  BY <1>1
<1>3. Len(c) - 1 \in Nat  BY <1>1
<1>4. Unlink(c, i) \in [1 .. Len(c) - 1 -> Sub]  BY <1>2 DEF Unlink
<1>5. Unlink(c, i) \in Seq(Sub)  BY <1>3, <1>4
<1> QED  BY <1>1, <1>4, <1>5 DEF Unlink

\* Those of a chain that are not unlinked stay, in their order, each once.
LEMMA UnlinkKeeps ==
  ASSUME NEW c \in Seq(Sub), NEW i \in DOMAIN c,
         \A j, k \in DOMAIN c : c[j] = c[k] => j = k
  PROVE  LET d == Unlink(c, i) IN
         /\ \A j, k \in DOMAIN d : d[j] = d[k] => j = k
         /\ \A j \in DOMAIN d : d[j] # c[i]
         /\ \A j, k \in DOMAIN d : j < k =>
              \E m, n \in DOMAIN c : m < n /\ c[m] = d[j] /\ c[n] = d[k]
         /\ \A j \in DOMAIN c : j # i => \E k \in DOMAIN d : d[k] = c[j]
         /\ \A j, k \in DOMAIN c : j < k /\ j # i /\ k # i =>
              \E m, n \in DOMAIN d : m < n /\ d[m] = c[j] /\ d[n] = c[k]
<1> DEFINE d == Unlink(c, i)
           Was(j) == IF j < i THEN j ELSE j + 1
           Is(j) == IF j < i THEN j ELSE j - 1
<1>1. Len(c) \in Nat /\ DOMAIN c = 1 .. Len(c) /\ i \in 1 .. Len(c) /\ DOMAIN d = 1 .. Len(c) - 1
  BY UnlinkOrder
<1>2. \A j \in DOMAIN d : Was(j) \in DOMAIN c /\ d[j] = c[Was(j)] /\ Was(j) # i
  <2> SUFFICES ASSUME NEW j \in DOMAIN d
               PROVE  Was(j) \in DOMAIN c /\ d[j] = c[Was(j)] /\ Was(j) # i
    OBVIOUS
  <2>1. j \in 1 .. Len(c) - 1  BY <1>1
  <2>2. d[j] = IF j < i THEN c[j] ELSE c[j + 1]  BY <2>1, UnlinkOrder
  <2> HIDE DEF d
  <2>3. Was(j) \in DOMAIN c /\ Was(j) # i  BY <1>1, <2>1
  <2> QED  BY <2>2, <2>3
<1>3. \A j, k \in DOMAIN d : (j < k <=> Was(j) < Was(k)) /\ (Was(j) = Was(k) => j = k)
  BY <1>1
<1>4. \A j \in DOMAIN c : j # i => Is(j) \in DOMAIN d /\ Was(Is(j)) = j
  BY <1>1
<1>5. \A j, k \in DOMAIN c : j # i /\ k # i /\ j < k => Is(j) < Is(k)
  BY <1>1
<1> HIDE DEF d, Was, Is
<1>6. \A j, k \in DOMAIN d : d[j] = d[k] => j = k  BY <1>2, <1>3
<1>7. \A j \in DOMAIN d : d[j] # c[i]  BY <1>2
<1>8. \A j, k \in DOMAIN d : j < k =>
        \E m, n \in DOMAIN c : m < n /\ c[m] = d[j] /\ c[n] = d[k]
  BY <1>2, <1>3
<1>9. \A j \in DOMAIN c : j # i => \E k \in DOMAIN d : d[k] = c[j]  BY <1>2, <1>4
<1>10. \A j, k \in DOMAIN c : j < k /\ j # i /\ k # i =>
        \E m, n \in DOMAIN d : m < n /\ d[m] = c[j] /\ d[n] = c[k]
  <2> SUFFICES ASSUME NEW j \in DOMAIN c, NEW k \in DOMAIN c, j < k, j # i, k # i
               PROVE  \E m, n \in DOMAIN d : m < n /\ d[m] = c[j] /\ d[n] = c[k]
    OBVIOUS
  <2>1. Is(j) \in DOMAIN d /\ Is(k) \in DOMAIN d /\ Is(j) < Is(k)  BY <1>4, <1>5
  <2>2. d[Is(j)] = c[j] /\ d[Is(k)] = c[k]  BY <1>2, <1>4, <2>1
  <2> QED  BY <2>1, <2>2
<1> QED  BY <1>6, <1>7, <1>8, <1>9, <1>10 DEF d

\* First is the least of a set of positions.
LEMMA FirstIsLeast ==
  ASSUME NEW J \in SUBSET Nat, J # {}
  PROVE  First(J) \in J /\ \A k \in J : First(J) <= k
<1>1. PICK x \in J : \A y \in J : ~(<<y, x>> \in OpToRel(<, Nat))
  BY NatLessThanWellFounded, WFMin
<1>2. \A y \in J : ~(y < x)  BY <1>1 DEF OpToRel
<1>3. \A y \in J : x <= y  BY <1>2
<1> QED  BY <1>3 DEF First
-----------------------------------------------------------------------------
\* The chains under the two operations that change them.
LEMMA InChain ==
  ASSUME TypeOK, ChainsExact, NEW s \in Sub, NEW q \in Pubsub
  PROVE  /\ (\E i \in DOMAIN chain[q] : chain[q][i] = s) <=> pubsub[s] = q
         /\ topic[s] = None <=> pubsub[s] = None
BY DEF ChainsExact

LEMMA SubscribeStep ==
  ASSUME TypeOK, ChainsExact, NEW x \in Sub, NEW q \in Pubsub, NEW t \in Topic,
         Subscribe(x, q, t)
  PROVE  /\ TypeOK' /\ ChainsExact'
         /\ pubsub[x] = None /\ pubsub'[x] = q /\ topic'[x] = t /\ stack' = stack
         /\ \A s \in Sub \ {x} : pubsub'[s] = pubsub[s] /\ topic'[s] = topic[s]
         /\ \A r \in Pubsub, s \in Sub, u \in Sub \ {x} : Behind(r, s, u)' <=> Behind(r, s, u)
<1> DEFINE c == chain[q]
           d == Append(c, x)
<1>1. /\ topic[x] = None /\ pubsub[x] = None /\ stack' = stack
      /\ topic' = [topic EXCEPT ![x] = t] /\ pubsub' = [pubsub EXCEPT ![x] = q]
      /\ chain' = [chain EXCEPT ![q] = d]
  BY DEF Subscribe
<1>2. c \in Seq(Sub)  BY DEF TypeOK
<1>3. /\ d \in Seq(Sub) /\ DOMAIN d = 1 .. Len(c) + 1
      /\ DOMAIN c = 1 .. Len(c) /\ Len(c) \in Nat
      /\ \A i \in DOMAIN c : d[i] = c[i]
      /\ d[Len(c) + 1] = x
  BY <1>2, AppendOrder
<1>4. \A i \in DOMAIN c : c[i] # x
  BY <1>1, NoneAssumption, InChain DEF TypeOK
<1> HIDE DEF d
<1>5. \A i, j \in DOMAIN d : d[i] = d[j] => i = j
  <2>1. \A i, j \in DOMAIN c : c[i] = c[j] => i = j  BY DEF ChainsExact
  <2>2. \A i \in DOMAIN d : i = Len(c) + 1 \/ i \in DOMAIN c  BY <1>3
  <2> QED  BY <1>3, <1>4, <2>1, <2>2
<1>6. \A s \in Sub \ {x} : (\E i \in DOMAIN d : d[i] = s) <=> (\E i \in DOMAIN c : c[i] = s)
  <2>1. \A i \in DOMAIN d : i = Len(c) + 1 \/ i \in DOMAIN c  BY <1>3
  <2>2. \A i \in DOMAIN c : i \in DOMAIN d  BY <1>3
  <2> QED  BY <1>3, <2>1, <2>2
<1>7. \E i \in DOMAIN d : d[i] = x  BY <1>3
<1>8. /\ \A s \in Sub \ {x} : pubsub'[s] = pubsub[s] /\ topic'[s] = topic[s]
      /\ pubsub'[x] = q /\ topic'[x] = t
      /\ chain'[q] = d /\ \A r \in Pubsub \ {q} : chain'[r] = chain[r]
  BY <1>1 DEF TypeOK
<1>9. TypeOK'
  <2>1. chain' \in [Pubsub -> Seq(Sub)]  BY <1>1, <1>3 DEF TypeOK
  <2>2. topic' \in [Sub -> Topic \cup {None}] /\ pubsub' \in [Sub -> Pubsub \cup {None}]
    BY <1>1 DEF TypeOK
  <2> QED  BY <1>1, <2>1, <2>2 DEF TypeOK
<1>10. ChainsExact'
  <2>1. ASSUME NEW r \in Pubsub, NEW i \in DOMAIN chain'[r], NEW j \in DOMAIN chain'[r],
               chain'[r][i] = chain'[r][j]
        PROVE  i = j
    BY <1>5, <1>8, <2>1 DEF ChainsExact
  <2>2. ASSUME NEW r \in Pubsub, NEW s \in Sub
        PROVE  (\E i \in DOMAIN chain'[r] : chain'[r][i] = s) <=> pubsub'[s] = r
    <3>1. CASE r = q /\ s = x  BY <1>7, <1>8, <3>1
    <3>2. CASE r = q /\ s # x  BY <1>6, <1>8, <3>2, InChain
    <3>3. CASE r # q /\ s # x  BY <1>8, <3>3, InChain
    <3>4. CASE r # q /\ s = x
      <4>1. pubsub[x] # r  BY <1>1, NoneAssumption
      <4> QED  BY <1>8, <3>4, <4>1, InChain
    <3> QED  BY <3>1, <3>2, <3>3, <3>4
  <2>3. ASSUME NEW s \in Sub  PROVE topic'[s] = None <=> pubsub'[s] = None
    BY <1>8, NoneAssumption, InChain DEF ChainsExact
  <2> QED  BY <2>1, <2>2, <2>3 DEF ChainsExact
<1>11. ASSUME NEW r \in Pubsub, NEW s \in Sub, NEW u \in Sub \ {x}
       PROVE  Behind(r, s, u)' <=> Behind(r, s, u)
  <2>1. CASE r # q  BY <1>8, <2>1 DEF Behind
  <2>2. CASE r = q
    <3>1. \A i, j \in DOMAIN d : i < j /\ d[j] = u => i \in DOMAIN c /\ j \in DOMAIN c
      BY <1>3
    <3>2. \A i \in DOMAIN c : i \in DOMAIN d /\ d[i] = c[i]  BY <1>3
    <3>3. (\E i, j \in DOMAIN d : i < j /\ d[i] = s /\ d[j] = u)
            <=> (\E i, j \in DOMAIN c : i < j /\ c[i] = s /\ c[j] = u)
      BY <3>1, <3>2
    <3> QED  BY <1>8, <2>2, <3>3 DEF Behind
  <2> QED  BY <2>1, <2>2
<1> QED  BY <1>1, <1>8, <1>9, <1>10, <1>11

\* Of the stack, unsubscribing changes only what is noted for the properties.
Noted(p, x) == [p EXCEPT !.since = @ \ {x}, !.cut = @ \/ p.sub = x]

LEMMA UnsubscribeStep ==
  ASSUME TypeOK, ChainsExact, NEW x \in Sub, Unsubscribe(x)
  PROVE  /\ TypeOK' /\ ChainsExact'
         /\ pubsub'[x] = None
         /\ \A s \in Sub \ {x} : pubsub'[s] = pubsub[s] /\ topic'[s] = topic[s]
         /\ \A r \in Pubsub, s \in Sub \ {x}, u \in Sub \ {x} :
              Behind(r, s, u)' <=> Behind(r, s, u)
         /\ stack' = [i \in DOMAIN stack |-> Noted(stack[i], x)]
<1> DEFINE q == pubsub[x]
           c == chain[q]
<1>1. PICK i \in DOMAIN c :
        /\ c[i] = x /\ topic[x] # None /\ q # None
        /\ chain' = [chain EXCEPT ![q] = Unlink(c, i)]
        /\ topic' = [topic EXCEPT ![x] = None] /\ pubsub' = [pubsub EXCEPT ![x] = None]
        /\ stack' = [k \in DOMAIN stack |-> Noted(stack[k], x)]
  BY DEF Unsubscribe, Noted
<1> DEFINE d == Unlink(c, i)
<1>2. q \in Pubsub /\ c \in Seq(Sub)  BY <1>1 DEF TypeOK
<1>3. d \in Seq(Sub)  BY <1>2, UnlinkOrder
<1>4. \A j, k \in DOMAIN c : c[j] = c[k] => j = k  BY <1>2 DEF ChainsExact
<1>5. /\ \A j, k \in DOMAIN d : d[j] = d[k] => j = k
      /\ \A j \in DOMAIN d : d[j] # c[i]
      /\ \A j, k \in DOMAIN d : j < k =>
           \E m, n \in DOMAIN c : m < n /\ c[m] = d[j] /\ c[n] = d[k]
      /\ \A j \in DOMAIN c : j # i => \E k \in DOMAIN d : d[k] = c[j]
      /\ \A j, k \in DOMAIN c : j < k /\ j # i /\ k # i =>
           \E m, n \in DOMAIN d : m < n /\ d[m] = c[j] /\ d[n] = c[k]
  BY <1>2, <1>4, UnlinkKeeps
<1>6. \A j \in DOMAIN d : \E k \in DOMAIN c : c[k] = d[j]
  <2> SUFFICES ASSUME NEW j \in DOMAIN d PROVE \E k \in DOMAIN c : c[k] = d[j]  OBVIOUS
  <2>1. DOMAIN d = 1 .. Len(c) - 1 /\ DOMAIN c = 1 .. Len(c) /\ Len(c) \in Nat
    BY <1>2, UnlinkOrder
  <2>2. d[j] = IF j < i THEN c[j] ELSE c[j + 1]  BY <1>2, <2>1, UnlinkOrder
  <2> HIDE DEF d
  <2>3. j \in DOMAIN c /\ j + 1 \in DOMAIN c  BY <2>1
  <2> QED  BY <2>2, <2>3
<1> HIDE DEF d, c, q
<1>7. /\ \A s \in Sub \ {x} : pubsub'[s] = pubsub[s] /\ topic'[s] = topic[s]
      /\ pubsub'[x] = None /\ topic'[x] = None
      /\ chain'[q] = d /\ \A r \in Pubsub \ {q} : chain'[r] = chain[r]
  BY <1>1, <1>2 DEF TypeOK, d
<1>8. TypeOK'
  <2>1. chain' \in [Pubsub -> Seq(Sub)]  BY <1>1, <1>2, <1>3 DEF TypeOK, d
  <2>2. topic' \in [Sub -> Topic \cup {None}] /\ pubsub' \in [Sub -> Pubsub \cup {None}]
    BY <1>1 DEF TypeOK
  <2>3. \A p \in Call : Noted(p, x) \in Call  BY DEF Call, Noted
  <2>4. stack' \in Seq(Call)
    <3>1. stack \in Seq(Call)  BY DEF TypeOK
    <3>2. DOMAIN stack = 1 .. Len(stack) /\ Len(stack) \in Nat
          /\ \A k \in DOMAIN stack : stack[k] \in Call
      BY <3>1
    <3>3. stack' \in [1 .. Len(stack) -> Call]  BY <1>1, <2>3, <3>2
    <3> QED  BY <3>2, <3>3
  <2> QED  BY <2>1, <2>2, <2>4 DEF TypeOK
<1>9. ChainsExact'
  <2>1. ASSUME NEW r \in Pubsub, NEW j \in DOMAIN chain'[r], NEW k \in DOMAIN chain'[r],
               chain'[r][j] = chain'[r][k]
        PROVE  j = k
    BY <1>5, <1>7, <2>1 DEF ChainsExact
  <2>2. ASSUME NEW r \in Pubsub, NEW s \in Sub
        PROVE  (\E k \in DOMAIN chain'[r] : chain'[r][k] = s) <=> pubsub'[s] = r
    <3>1. CASE r = q /\ s = x  BY <1>1, <1>5, <1>7, <3>1, NoneAssumption
    <3>2. CASE r = q /\ s # x
      <4>1. (\E k \in DOMAIN d : d[k] = s) <=> (\E k \in DOMAIN c : c[k] = s)
        BY <1>1, <1>5, <1>6, <3>2
      <4> QED  BY <1>2, <1>7, <3>2, <4>1, InChain DEF c
    <3>3. CASE r # q /\ s # x  BY <1>7, <3>3, InChain
    <3>4. CASE r # q /\ s = x
      <4>1. pubsub[x] # r /\ None # r  BY <3>4, NoneAssumption DEF q
      <4> QED  BY <1>7, <3>4, <4>1, InChain
    <3> QED  BY <3>1, <3>2, <3>3, <3>4
  <2>3. ASSUME NEW s \in Sub  PROVE topic'[s] = None <=> pubsub'[s] = None
    BY <1>7, InChain DEF ChainsExact
  <2> QED  BY <2>1, <2>2, <2>3 DEF ChainsExact
<1>10. ASSUME NEW r \in Pubsub, NEW s \in Sub \ {x}, NEW u \in Sub \ {x}
       PROVE  Behind(r, s, u)' <=> Behind(r, s, u)
  <2>1. CASE r # q  BY <1>7, <2>1 DEF Behind
  <2>2. CASE r = q
    <3>1. (\E j, k \in DOMAIN d : j < k /\ d[j] = s /\ d[k] = u)
            <=> (\E j, k \in DOMAIN c : j < k /\ c[j] = s /\ c[k] = u)
      BY <1>1, <1>5
    <3> QED  BY <1>7, <2>2, <3>1 DEF Behind, c
  <2> QED  BY <2>1, <2>2
<1> QED  BY <1>1, <1>7, <1>8, <1>9, <1>10
-----------------------------------------------------------------------------
\* The stack of running calls.
LEMMA StackPush ==
  ASSUME NEW p \in Call, NEW st \in Seq(Call)
  PROVE  /\ <<p>> \o st \in Seq(Call)
         /\ Len(<<p>> \o st) = Len(st) + 1
         /\ \A i \in DOMAIN (<<p>> \o st) :
              (<<p>> \o st)[i] = p \/ \E j \in DOMAIN st : (<<p>> \o st)[i] = st[j]
<1>1. \A i \in 1 .. Len(st) + 1 : (<<p>> \o st)[i] = IF i = 1 THEN p ELSE st[i - 1]
  OBVIOUS
<1> QED  BY <1>1

LEMMA StackTop ==
  ASSUME TypeOK, stack # <<>>
  PROVE  /\ Head(stack) \in Call /\ Tail(stack) \in Seq(Call)
         /\ 1 \in DOMAIN stack /\ Head(stack) = stack[1]
         /\ Len(Tail(stack)) = Len(stack) - 1
         /\ \A i \in DOMAIN Tail(stack) : \E j \in DOMAIN stack : Tail(stack)[i] = stack[j]
<1>1. stack \in Seq(Call) /\ Len(stack) \in Nat \ {0}  BY DEF TypeOK
<1>2. \A i \in 1 .. Len(stack) - 1 : Tail(stack)[i] = stack[i + 1]  BY <1>1
<1> QED  BY <1>1, <1>2

\* The order of a chain: no subscriber is behind itself, and behind is transitive.
LEMMA Order ==
  ASSUME TypeOK, ChainsExact, NEW q \in Pubsub
  PROVE  /\ \A s \in Sub : ~Behind(q, s, s)
         /\ \A s, u, v \in Sub : Behind(q, s, u) /\ Behind(q, u, v) => Behind(q, s, v)
<1>1. chain[q] \in Seq(Sub)  BY DEF TypeOK
<1>2. DOMAIN chain[q] \subseteq Nat  BY <1>1
<1>3. \A i, j \in DOMAIN chain[q] : chain[q][i] = chain[q][j] => i = j  BY DEF ChainsExact
<1> QED  BY <1>2, <1>3 DEF Behind

\* A subscriber of topic t that has a callback.
Wants(s, t) == topic[s] = t /\ s \notin Silent

\* The search along a chain from its start: the first that wants the topic.
LEMMA SearchFromStart ==
  ASSUME TypeOK, NEW q \in Pubsub, NEW t \in Topic, Matches(chain[q], t) # {}
  PROVE  LET s == chain[q][First(Matches(chain[q], t))] IN
         /\ s \in Sub /\ Wants(s, t) /\ \E i \in DOMAIN chain[q] : chain[q][i] = s
         /\ \A j \in Matches(chain[q], t) :
              /\ chain[q][j] \in Sub /\ Wants(chain[q][j], t)
              /\ j \in DOMAIN chain[q]
              /\ chain[q][j] = s \/ Behind(q, s, chain[q][j])
<1> DEFINE c == chain[q]
           J == Matches(c, t)
           f == First(J)
<1>1. c \in Seq(Sub) /\ DOMAIN c = 1 .. Len(c) /\ Len(c) \in Nat  BY DEF TypeOK
<1>2. J \subseteq DOMAIN c /\ J \in SUBSET Nat /\ \A j \in J : c[j] \in Sub /\ Wants(c[j], t)
  BY <1>1 DEF Matches, Wants
<1>3. f \in J /\ \A j \in J : f <= j  BY <1>2, FirstIsLeast
<1> HIDE DEF f, J
<1>4. \A j \in J : c[j] = c[f] \/ Behind(q, c[f], c[j])
  <2> SUFFICES ASSUME NEW j \in J, j # f PROVE Behind(q, c[f], c[j])  OBVIOUS
  <2>1. f < j  BY <1>2, <1>3
  <2> QED  BY <1>2, <1>3, <2>1 DEF Behind
<1> QED  BY <1>2, <1>3, <1>4 DEF f, J

\* And from the next pointer of a subscriber.
LEMMA SearchFromNext ==
  ASSUME TypeOK, ChainsExact, NEW s \in Sub, NEW t \in Topic
  PROVE  LET r == FromNext(s, t)
             q == pubsub[s] IN
         /\ r = None => (q # None => \A u \in Sub : Wants(u, t) => ~Behind(q, s, u))
         /\ r # None => /\ q \in Pubsub /\ r \in Sub /\ Wants(r, t) /\ Behind(q, s, r)
                        /\ \A u \in Sub : Wants(u, t) /\ Behind(q, s, u) =>
                             u = r \/ Behind(q, r, u)
<1> DEFINE q == pubsub[s]
<1>1. CASE q = None
  <2>1. After(s) = <<>>  BY <1>1 DEF After
  <2>2. Matches(After(s), t) = {}  BY <2>1 DEF Matches
  <2> QED  BY <1>1, <2>2 DEF FromNext
<1>2. CASE q # None
  <2> DEFINE c == chain[q]
             i == CHOOSE i \in DOMAIN c : c[i] = s
             a == SubSeq(c, i + 1, Len(c))
             J == Matches(a, t)
             f == First(J)
  <2>1. q \in Pubsub /\ c \in Seq(Sub) /\ DOMAIN c = 1 .. Len(c) /\ Len(c) \in Nat
    BY <1>2 DEF TypeOK
  <2>2. i \in DOMAIN c /\ c[i] = s  BY <2>1, InChain
  <2>3. \A j, k \in DOMAIN c : c[j] = c[k] => j = k  BY <2>1 DEF ChainsExact
  <2>4. FromNext(s, t) = IF J = {} THEN None ELSE a[f]
    <3>1. After(s) = a  BY <1>2 DEF After
    <3> HIDE DEF a
    <3> QED  BY <3>1 DEF FromNext
  <2> HIDE DEF i
  <2>5. /\ DOMAIN a = 1 .. Len(c) - i
        /\ \A j \in DOMAIN a : i + j \in DOMAIN c /\ a[j] = c[i + j]
    BY <2>1, <2>2
  <2> HIDE DEF a, c
  <2>6. \A u \in Sub : Behind(q, s, u) <=> \E j \in DOMAIN a : a[j] = u
    <3> SUFFICES ASSUME NEW u \in Sub
                 PROVE  Behind(q, s, u) <=> \E j \in DOMAIN a : a[j] = u
      OBVIOUS
    <3>1. Behind(q, s, u) <=> \E k \in DOMAIN c : i < k /\ c[k] = u
      BY <2>2, <2>3 DEF Behind, c
    <3>2. ASSUME NEW k \in DOMAIN c, i < k  PROVE k - i \in DOMAIN a /\ a[k - i] = c[k]
      <4>1. k - i \in DOMAIN a /\ i + (k - i) = k  BY <2>1, <2>2, <2>5, <3>2
      <4> QED  BY <2>5, <4>1
    <3>3. ASSUME NEW j \in DOMAIN a  PROVE i + j \in DOMAIN c /\ i < i + j /\ a[j] = c[i + j]
      BY <2>1, <2>2, <2>5
    <3> QED  BY <3>1, <3>2, <3>3
  <2>7. J = {j \in DOMAIN a : Wants(a[j], t)}  BY DEF Matches, Wants
  <2>8. J \in SUBSET Nat  BY <2>1, <2>2, <2>5, <2>7
  <2> HIDE DEF J
  <2>9. CASE J = {}
    <3>1. \A u \in Sub : Wants(u, t) => ~Behind(q, s, u)  BY <2>6, <2>7, <2>9
    <3> QED  BY <2>4, <2>9, <3>1
  <2>10. CASE J # {}
    <3>1. f \in J /\ \A k \in J : f <= k  BY <2>8, <2>10, FirstIsLeast
    <3> HIDE DEF f
    <3>2. a[f] \in Sub /\ Wants(a[f], t) /\ f \in DOMAIN a
      BY <2>1, <2>5, <2>7, <3>1 DEF c
    <3>3. Behind(q, s, a[f])  BY <2>6, <3>2
    <3>4. ASSUME NEW u \in Sub, Wants(u, t), Behind(q, s, u)
          PROVE  u = a[f] \/ Behind(q, a[f], u)
      <4>1. PICK j \in DOMAIN a : a[j] = u  BY <2>6, <3>4
      <4>2. j \in J  BY <2>7, <3>4, <4>1
      <4> HIDE DEF q
      <4>5. f \in Nat /\ j \in Nat /\ i \in Nat /\ f <= j
        <5>1. i \in Nat  BY <2>1, <2>2 DEF c
        <5>2. f \in Nat /\ j \in Nat  BY <2>8, <3>1, <4>2
        <5>3. f <= j  BY <3>1, <4>2
        <5> QED  BY <5>1, <5>2, <5>3
      <4>3. j = f \/ f < j  BY <4>5
      <4>4. CASE f < j
        <5>1. i + f < i + j  BY <4>4, <4>5
        <5> QED  BY <2>5, <3>2, <4>1, <5>1 DEF Behind, c
      <4> QED  BY <4>1, <4>3, <4>4
    <3>5. FromNext(s, t) = a[f] /\ a[f] # None
      BY <2>4, <2>10, <3>2, NoneAssumption DEF f
    <3> QED  BY <2>1, <3>2, <3>3, <3>4, <3>5
  <2> QED  BY <2>9, <2>10
<1> QED  BY <1>1, <1>2
-----------------------------------------------------------------------------
LEMMA InvInit == Init => Inv
<1> SUFFICES ASSUME Init PROVE Inv  OBVIOUS
<1>1. stack \in Seq(Call) /\ DOMAIN stack = {}  BY DEF Init
<1>2. <<>> \in Seq(Sub) /\ DOMAIN <<>> = {}  OBVIOUS
<1>3. chain \in [Pubsub -> Seq(Sub)] /\ \A q \in Pubsub : DOMAIN chain[q] = {}
  BY <1>2 DEF Init
<1>4. topic = [s \in Sub |-> None] /\ pubsub = [s \in Sub |-> None]  BY DEF Init
<1>5. TypeOK  BY <1>1, <1>3, <1>4 DEF TypeOK
<1>6. ChainsExact  BY <1>3, <1>4, NoneAssumption DEF ChainsExact
<1> QED  BY <1>1, <1>5, <1>6 DEF Inv

\* Subscribing comes behind all that a running call still has to do.
LEMMA SubscribeKeepsInv ==
  ASSUME Inv, NEW x \in Sub, NEW q \in Pubsub, NEW t \in Topic, Subscribe(x, q, t)
  PROVE  Inv'
<1>1. TypeOK /\ ChainsExact /\ \A i \in DOMAIN stack : Tracked(stack[i])  BY DEF Inv
<1>2. /\ TypeOK' /\ ChainsExact'
      /\ pubsub[x] = None /\ pubsub'[x] = q /\ topic'[x] = t /\ stack' = stack
      /\ \A s \in Sub \ {x} : pubsub'[s] = pubsub[s] /\ topic'[s] = topic[s]
      /\ \A r \in Pubsub, s \in Sub, u \in Sub \ {x} : Behind(r, s, u)' <=> Behind(r, s, u)
  BY <1>1, SubscribeStep
<1>3. ASSUME NEW p \in Call, Tracked(p)  PROVE Tracked(p)'
  <2>1. p.at \in Pubsub /\ p.sub \in Sub /\ p.since \subseteq Sub /\ p.at # None
    BY NoneAssumption DEF Call
  <2>2. x \notin p.since  BY <1>2, <1>3, <2>1 DEF Tracked
  <2>3. \A s \in p.since : pubsub'[s] = p.at /\ topic'[s] = p.topic /\ s \notin Silent
    BY <1>2, <1>3, <2>1, <2>2 DEF Tracked
  <2>4. \A s \in p.since : Behind(p.at, p.sub, s)' <=> Behind(p.at, p.sub, s)
    BY <1>2, <2>1, <2>2
  <2>5. CASE p.sub = x
    <3>1. p.cut  BY <1>2, <1>3, <2>1, <2>5 DEF Tracked
    <3>2. \A s \in Sub : ~Behind(p.at, x, s)
      <4>1. ~ \E i \in DOMAIN chain[p.at] : chain[p.at][i] = x
        BY <1>1, <1>2, <2>1, InChain
      <4> QED  BY <4>1 DEF Behind
    <3> QED  BY <1>3, <2>1, <2>3, <2>4, <2>5, <3>1, <3>2 DEF Tracked, Called
  <2>6. CASE p.sub # x
    <3>1. pubsub'[p.sub] = pubsub[p.sub]  BY <1>2, <2>1, <2>6
    <3> QED  BY <1>3, <2>3, <2>4, <3>1 DEF Tracked, Called
  <2> QED  BY <2>5, <2>6
<1>4. \A i \in DOMAIN stack : stack[i] \in Call  BY <1>1 DEF TypeOK
<1> QED  BY <1>1, <1>2, <1>3, <1>4 DEF Inv

LEMMA UnsubscribeKeepsInv ==
  ASSUME Inv, NEW x \in Sub, Unsubscribe(x)
  PROVE  Inv'
<1>1. TypeOK /\ ChainsExact /\ \A i \in DOMAIN stack : Tracked(stack[i])  BY DEF Inv
<1>2. /\ TypeOK' /\ ChainsExact'
      /\ pubsub'[x] = None
      /\ \A s \in Sub \ {x} : pubsub'[s] = pubsub[s] /\ topic'[s] = topic[s]
      /\ \A r \in Pubsub, s \in Sub \ {x}, u \in Sub \ {x} :
           Behind(r, s, u)' <=> Behind(r, s, u)
      /\ stack' = [i \in DOMAIN stack |-> Noted(stack[i], x)]
  BY <1>1, UnsubscribeStep
<1>3. ASSUME NEW p \in Call, Tracked(p)
      PROVE  Tracked(Noted(p, x))'
  <2> SUFFICES ASSUME NEW n, n = Noted(p, x) PROVE Tracked(n)'  OBVIOUS
  <2>1. /\ p.at \in Pubsub /\ p.sub \in Sub /\ p.since \subseteq Sub /\ p.at # None
        /\ n.at = p.at /\ n.topic = p.topic /\ n.sub = p.sub /\ n.called = p.called
        /\ n.since = p.since \ {x} /\ n.cut = (p.cut \/ p.sub = x) /\ p.cut \in BOOLEAN
    BY NoneAssumption DEF Call, Noted
  <2>2. Called(n) = Called(p)  BY <2>1 DEF Called
  <2>3. \A s \in n.since : /\ pubsub'[s] = n.at /\ topic'[s] = n.topic /\ s \notin Silent
                           /\ s \in p.since /\ s \in Sub \ {x}
    BY <1>2, <1>3, <2>1 DEF Tracked
  <2>4. \A s \in n.since :
          \A k, m \in DOMAIN n.called : n.called[k] = s /\ n.called[m] = s => k = m
    BY <1>3, <2>1 DEF Tracked
  <2>5. CASE p.sub = x
    <3>1. n.cut /\ pubsub'[n.sub] # n.at  BY <1>2, <2>1, <2>5
    <3> QED  BY <2>3, <2>4, <3>1 DEF Tracked
  <2>6. CASE p.sub # x
    <3>1. pubsub'[n.sub] = pubsub[p.sub]  BY <1>2, <2>1, <2>6
    <3>5. n.cut = p.cut  BY <2>1, <2>6
    <3>2. \A s \in n.since : Behind(n.at, n.sub, s)' <=> Behind(p.at, p.sub, s)
      BY <1>2, <2>1, <2>3, <2>6
    <3>3. pubsub[p.sub] = p.at => \A s \in n.since : Behind(p.at, p.sub, s) => s \notin Called(n)
      BY <1>3, <2>2, <2>3 DEF Tracked
    <3>4. ~p.cut => /\ pubsub[p.sub] = p.at
                    /\ \A s \in n.since : ~Behind(p.at, p.sub, s) => s \in Called(n)
      BY <1>3, <2>2, <2>3 DEF Tracked
    <3> QED  BY <2>1, <2>3, <2>4, <3>1, <3>2, <3>3, <3>4, <3>5 DEF Tracked, Called
  <2> QED  BY <2>5, <2>6
<1>4. \A i \in DOMAIN stack : stack[i] \in Call  BY <1>1 DEF TypeOK
<1>5. \A i \in DOMAIN stack' : i \in DOMAIN stack /\ stack'[i] = Noted(stack[i], x)
  BY <1>2
<1>6. (\A i \in DOMAIN stack : Tracked(stack[i]))'
  <2> SUFFICES ASSUME NEW i \in DOMAIN stack', NEW p, p = stack[i], NEW n, n = stack'[i]
               PROVE  Tracked(stack[i])'
    OBVIOUS
  <2>1. p \in Call /\ Tracked(p) /\ n = Noted(p, x)  BY <1>1, <1>4, <1>5
  <2>2. Tracked(n)'  BY <1>3, <2>1
  <2> QED  BY <2>2 DEF Tracked, Called
<1> QED  BY <1>2, <1>6 DEF Inv

\* The chains stay: what is known of a call stays known.
LEMMA TrackedStays ==
  ASSUME NEW p, Tracked(p), UNCHANGED <<chain, topic, pubsub>>
  PROVE  Tracked(p)'
BY DEF Tracked, Called, Behind

LEMMA ChainsStay ==
  ASSUME TypeOK, ChainsExact, UNCHANGED <<chain, topic, pubsub>>, stack' \in Seq(Call)
  PROVE  TypeOK' /\ ChainsExact'
BY DEF TypeOK, ChainsExact

\* A stack whose calls are old ones and at most one that is tracked anew.
LEMMA StackKeepsInv ==
  ASSUME Inv, UNCHANGED <<chain, topic, pubsub>>, stack' \in Seq(Call), NEW n, Tracked(n),
         \A i \in DOMAIN stack' : stack'[i] = n \/ \E j \in DOMAIN stack : stack'[i] = stack[j]
  PROVE  Inv'
<1>1. TypeOK /\ ChainsExact /\ \A i \in DOMAIN stack : Tracked(stack[i])  BY DEF Inv
<1>2. (\A i \in DOMAIN stack : Tracked(stack[i]))'
  <2> SUFFICES ASSUME NEW i \in DOMAIN stack', NEW p, p = stack'[i]
               PROVE  Tracked(stack[i])'
    OBVIOUS
  <2>1. Tracked(p)  BY <1>1
  <2>2. Tracked(p)'  BY <2>1, TrackedStays
  <2> QED  BY <2>2 DEF Tracked, Called
<1> QED  BY <1>1, <1>2, ChainsStay DEF Inv

\* A call starts at the first of the chain that wants the topic.
LEMMA PublishKeepsInv ==
  ASSUME Inv, NEW q \in Pubsub, NEW t \in Topic, Publish(q, t)
  PROVE  Inv'
<1> DEFINE c == chain[q]
           J == Matches(c, t)
           s == c[First(J)]
           since == {c[j] : j \in J}
           n == Publishing(q, t, s, since)
<1>1. TypeOK /\ ChainsExact  BY DEF Inv
<1>2. J # {} /\ stack' = <<n>> \o stack /\ UNCHANGED <<chain, topic, pubsub>>
  BY DEF Publish
<1>3. /\ s \in Sub /\ Wants(s, t) /\ \E i \in DOMAIN c : c[i] = s
      /\ \A j \in J : /\ c[j] \in Sub /\ Wants(c[j], t) /\ j \in DOMAIN c
                      /\ c[j] = s \/ Behind(q, s, c[j])
  BY <1>1, <1>2, SearchFromStart
<1> HIDE DEF s, J
<1>4. pubsub[s] = q /\ \A u \in since : pubsub[u] = q /\ u \in Sub
  BY <1>1, <1>3, InChain
<1>5. \A u \in since : topic[u] = t /\ u \notin Silent /\ (u = s \/ Behind(q, s, u))
  BY <1>3 DEF Wants
<1> HIDE DEF since
<1>6. /\ n.at = q /\ n.topic = t /\ n.sub = s /\ n.called = <<s>> /\ n.since = since
      /\ n.cut = FALSE
  BY DEF Publishing
<1>7. n \in Call
  <2>1. <<s>> \in Seq(Sub) /\ since \subseteq Sub  BY <1>3, <1>4
  <2> QED  BY <1>3, <2>1 DEF Publishing, Call
<1>8. Called(n) = {s} /\ \A k, m \in DOMAIN n.called : k = m
  <2>1. DOMAIN <<s>> = {1} /\ <<s>>[1] = s  OBVIOUS
  <2> QED  BY <1>6, <2>1 DEF Called
<1> HIDE DEF n
<1>9. \A u \in since : Behind(q, s, u) => u # s  BY <1>1, <1>3, Order
<1>10. Tracked(n)  BY <1>4, <1>5, <1>6, <1>8, <1>9 DEF Tracked
<1>11. stack \in Seq(Call)  BY <1>1 DEF TypeOK
<1>12. /\ stack' \in Seq(Call)
       /\ \A i \in DOMAIN stack' : stack'[i] = n \/ \E j \in DOMAIN stack : stack'[i] = stack[j]
  BY <1>2, <1>7, <1>11, StackPush
<1> QED  BY <1>2, <1>10, <1>12, StackKeepsInv

\* And goes on to the next one behind.
LEMMA CallNextKeepsInv ==
  ASSUME Inv, CallNext
  PROVE  Inv'
<1> DEFINE p == Head(stack)
           r == FromNext(p.sub, p.topic)
           q == pubsub[p.sub]
           n == [p EXCEPT !.sub = r, !.called = Append(@, r)]
<1>1. TypeOK /\ ChainsExact /\ \A i \in DOMAIN stack : Tracked(stack[i])  BY DEF Inv
<1>2. /\ stack # <<>> /\ r # None /\ stack' = <<n>> \o Tail(stack)
      /\ UNCHANGED <<chain, topic, pubsub>>
  BY DEF CallNext
<1>3. /\ p \in Call /\ Tail(stack) \in Seq(Call) /\ Tracked(p)
      /\ \A i \in DOMAIN Tail(stack) : \E j \in DOMAIN stack : Tail(stack)[i] = stack[j]
  BY <1>1, <1>2, StackTop
<1> HIDE DEF p
<1>4. /\ p.at \in Pubsub /\ p.topic \in Topic /\ p.sub \in Sub /\ p.since \subseteq Sub
      /\ p.called \in Seq(Sub) /\ p.cut \in BOOLEAN
  BY <1>3 DEF Call
<1>5. /\ q \in Pubsub /\ r \in Sub /\ Wants(r, p.topic) /\ Behind(q, p.sub, r)
      /\ \A u \in Sub : Wants(u, p.topic) /\ Behind(q, p.sub, u) => u = r \/ Behind(q, r, u)
  BY <1>1, <1>2, <1>4, SearchFromNext
<1>6. pubsub[r] = q
  BY <1>1, <1>5, InChain DEF Behind
<1> HIDE DEF r
<1>7. /\ n.at = p.at /\ n.topic = p.topic /\ n.sub = r /\ n.called = Append(p.called, r)
      /\ n.since = p.since /\ n.cut = p.cut
  BY <1>3 DEF Call
<1>8. n \in Call
  <2>1. Append(p.called, r) \in Seq(Sub)  BY <1>4, <1>5
  <2> QED  BY <1>3, <1>5, <2>1 DEF Call
<1>9. /\ DOMAIN n.called = DOMAIN p.called \cup {Len(p.called) + 1}
      /\ Len(p.called) + 1 \notin DOMAIN p.called
      /\ n.called[Len(p.called) + 1] = r /\ \A k \in DOMAIN p.called : n.called[k] = p.called[k]
  <2>1. DOMAIN Append(p.called, r) = 1 .. Len(p.called) + 1 /\ Len(p.called) \in Nat
        /\ DOMAIN p.called = 1 .. Len(p.called)
        /\ Append(p.called, r)[Len(p.called) + 1] = r
        /\ \A k \in DOMAIN p.called : Append(p.called, r)[k] = p.called[k]
    BY <1>4, <1>5, AppendOrder
  <2>2. 1 .. Len(p.called) + 1 = (1 .. Len(p.called)) \cup {Len(p.called) + 1}  BY <2>1
  <2>3. Len(p.called) + 1 \notin 1 .. Len(p.called)  BY <2>1
  <2> HIDE DEF n
  <2> QED  BY <1>7, <2>1, <2>2, <2>3
<1> HIDE DEF n
<1>10. Called(n) = Called(p) \cup {r}  BY <1>9 DEF Called
<1>11. r \in p.since => q = p.at /\ r \notin Called(p)
  BY <1>3, <1>5, <1>6 DEF Tracked
<1>12. \A u \in p.since : Wants(u, p.topic) /\ pubsub[u] = p.at
  BY <1>3 DEF Tracked, Wants
<1>13. Tracked(n)
  <2>1. \A s \in n.since : pubsub[s] = n.at /\ topic[s] = n.topic /\ s \notin Silent
    BY <1>3, <1>7 DEF Tracked
  <2>2. ASSUME NEW s \in n.since, NEW k \in DOMAIN n.called, NEW m \in DOMAIN n.called,
               n.called[k] = s, n.called[m] = s
        PROVE  k = m
    <3>1. CASE s = r
      <4>1. \A j \in DOMAIN p.called : p.called[j] # r  BY <1>7, <1>11, <3>1 DEF Called
      <4> QED  BY <1>9, <2>2, <3>1, <4>1
    <3>2. CASE s # r
      <4>1. k \in DOMAIN p.called /\ m \in DOMAIN p.called  BY <1>9, <2>2, <3>2
      <4> QED  BY <1>3, <1>7, <1>9, <2>2, <4>1 DEF Tracked
    <3> QED  BY <3>1, <3>2
  <2>3. ASSUME pubsub[n.sub] = n.at, NEW s \in n.since, Behind(n.at, n.sub, s)
        PROVE  s \notin Called(n)
    <3>1. q = p.at /\ s \in p.since /\ s \in Sub /\ Behind(q, r, s)
      BY <1>4, <1>6, <1>7, <2>3
    <3>2. Behind(q, p.sub, s) /\ s # r  BY <1>1, <1>4, <1>5, <3>1, Order
    <3>3. s \notin Called(p)  BY <1>3, <3>1, <3>2 DEF Tracked
    <3> QED  BY <1>10, <3>2, <3>3
  <2>4. ASSUME ~n.cut  PROVE pubsub[n.sub] = n.at /\
                             \A s \in n.since : ~Behind(n.at, n.sub, s) => s \in Called(n)
    <3>1. q = p.at /\ \A s \in p.since : ~Behind(q, p.sub, s) => s \in Called(p)
      BY <1>3, <1>7, <2>4 DEF Tracked
    <3>2. ASSUME NEW s \in p.since, ~Behind(q, r, s)  PROVE s \in Called(n)
      BY <1>4, <1>5, <1>10, <1>12, <3>1, <3>2
    <3> QED  BY <1>6, <1>7, <3>1, <3>2
  <2> QED  BY <2>1, <2>2, <2>3, <2>4 DEF Tracked
<1>14. /\ stack' \in Seq(Call)
       /\ \A i \in DOMAIN stack' :
            stack'[i] = n \/ \E j \in DOMAIN Tail(stack) : stack'[i] = Tail(stack)[j]
  BY <1>2, <1>3, <1>8, StackPush
<1>15. \A i \in DOMAIN stack' : stack'[i] = n \/ \E j \in DOMAIN stack : stack'[i] = stack[j]
  BY <1>3, <1>14
<1> QED  BY <1>2, <1>13, <1>14, <1>15, StackKeepsInv

LEMMA PublishEndsKeepsInv ==
  ASSUME Inv, PublishEnds
  PROVE  Inv'
<1>1. TypeOK /\ \A i \in DOMAIN stack : Tracked(stack[i])  BY DEF Inv
<1>2. stack # <<>> /\ stack' = Tail(stack) /\ UNCHANGED <<chain, topic, pubsub>>
  BY DEF PublishEnds
<1>3. /\ Tracked(Head(stack)) /\ stack' \in Seq(Call)
      /\ \A i \in DOMAIN stack' : \E j \in DOMAIN stack : stack'[i] = stack[j]
  BY <1>1, <1>2, StackTop
<1> QED  BY <1>2, <1>3, StackKeepsInv

LEMMA InvStep == Inv /\ [Next]_vars => Inv'
<1> SUFFICES ASSUME Inv, [Next]_vars PROVE Inv'  OBVIOUS
<1>1. CASE UNCHANGED vars
  BY <1>1 DEF vars, Inv, TypeOK, ChainsExact, Tracked, Called, Behind
<1>2. CASE Next
  BY <1>2, SubscribeKeepsInv, UnsubscribeKeepsInv, PublishKeepsInv,
     CallNextKeepsInv, PublishEndsKeepsInv DEF Next
<1> QED  BY <1>1, <1>2

LEMMA InvHolds == Spec => []Inv
BY InvInit, InvStep, PTL DEF Spec
-----------------------------------------------------------------------------
\* Callbacks that subscribe and unsubscribe while the chain is walked along never
\* damage it (ft_subscriber_subscribe, ft_subscriber_unsubscribe).
THEOREM ChainsStayExact == Spec => []ChainsExact
<1>1. Inv => ChainsExact  BY DEF Inv
<1> QED  BY <1>1, InvHolds, PTL

\* One call of ft_pubsub_publish calls nobody twice who stays subscribed.
THEOREM NobodyCalledTwice == Spec => []CalledOnce
<1>1. Inv => CalledOnce
  <2> SUFFICES ASSUME Inv, NEW i \in DOMAIN stack, NEW s \in stack[i].since
               PROVE  Cardinality({k \in DOMAIN stack[i].called : stack[i].called[k] = s}) <= 1
    BY DEF CalledOnce
  <2> DEFINE K == {k \in DOMAIN stack[i].called : stack[i].called[k] = s}
  <2>1. \A k, m \in K : k = m  BY DEF Inv, Tracked
  <2>2. CASE K = {}  BY <2>2, FS_EmptySet
  <2>3. CASE K # {}
    <3>1. PICK k \in K : TRUE  BY <2>3
    <3>2. K = {k}  BY <2>1, <3>1
    <3> HIDE DEF K
    <3>3. Cardinality(K) = 1  BY <3>2, FS_Singleton
    <3> QED  BY <3>3 DEF K
  <2> QED  BY <2>2, <2>3
<1> QED  BY <1>1, InvHolds, PTL

\* When ft_pubsub_publish comes to its end it has called everyone who was subscribed
\* to the topic all the while, unless a callback cut the chain under its loop.
THEOREM EveryoneIsCalled == Spec => EveryoneCalled
<1> DEFINE Ended == Len(stack') < Len(stack) /\ ~Head(stack).cut => Missed(Head(stack)) = {}
<1>1. ASSUME Inv, PublishEnds  PROVE Ended
  <2> DEFINE p == Head(stack)
  <2> SUFFICES ASSUME ~p.cut, NEW s \in p.since PROVE s \in Called(p)
    BY DEF Missed, Called
  <2>1. TypeOK /\ ChainsExact /\ \A i \in DOMAIN stack : Tracked(stack[i])  BY <1>1 DEF Inv
  <2>2. stack # <<>> /\ FromNext(p.sub, p.topic) = None  BY <1>1 DEF PublishEnds
  <2>3. p \in Call /\ Tracked(p)  BY <2>1, <2>2, StackTop
  <2> HIDE DEF p
  <2>4. p.at \in Pubsub /\ p.sub \in Sub /\ p.topic \in Topic /\ s \in Sub
    BY <2>3 DEF Call
  <2>5. pubsub[p.sub] = p.at /\ p.at # None  BY <2>3, <2>4, NoneAssumption DEF Tracked
  <2>6. Wants(s, p.topic)  BY <2>3 DEF Tracked, Wants
  <2>7. ~Behind(p.at, p.sub, s)  BY <2>1, <2>2, <2>4, <2>5, <2>6, SearchFromNext
  <2> QED  BY <2>3, <2>7 DEF Tracked
<1>2. ASSUME Inv, [Next]_vars, ~PublishEnds  PROVE Ended
  <2>1. stack \in Seq(Call) /\ Len(stack) \in Nat  BY <1>2 DEF Inv, TypeOK
  <2>2. ~(Len(stack') < Len(stack))
    <3>1. CASE stack' = stack  BY <2>1, <3>1
    <3>2. ASSUME NEW x \in Sub, Unsubscribe(x)  PROVE Len(stack') = Len(stack)
      <4>1. stack' = [i \in DOMAIN stack |-> Noted(stack[i], x)]
        BY <1>2, <3>2, UnsubscribeStep DEF Inv
      <4> QED  BY <2>1, <4>1
    <3>3. ASSUME NEW n, NEW st \in Seq(Call), stack' = <<n>> \o st, Len(st) >= Len(stack) - 1
          PROVE  Len(stack') >= Len(stack)
      <4>1. Len(<<n>> \o st) = Len(st) + 1 /\ Len(st) \in Nat  OBVIOUS
      <4> QED  BY <2>1, <3>3, <4>1
    <3>4. CASE CallNext
      <4>1. Tail(stack) \in Seq(Call) /\ Len(Tail(stack)) = Len(stack) - 1
        BY <1>2, <3>4, StackTop DEF CallNext, Inv
      <4>2. PICK n : stack' = <<n>> \o Tail(stack)  BY <3>4 DEF CallNext
      <4>3. Len(Tail(stack)) >= Len(stack) - 1  BY <2>1, <4>1
      <4> QED  BY <2>1, <3>3, <4>1, <4>2, <4>3
    <3>5. ASSUME NEW q \in Pubsub, NEW t \in Topic, Publish(q, t)
          PROVE  Len(stack') >= Len(stack)
      <4>1. PICK n : stack' = <<n>> \o stack  BY <3>5 DEF Publish
      <4>2. Len(stack) >= Len(stack) - 1  BY <2>1
      <4> QED  BY <2>1, <3>3, <4>1, <4>2
    <3> QED
      BY <1>2, <2>1, <3>1, <3>2, <3>4, <3>5 DEF Next, vars, Subscribe
  <2> QED  BY <2>2
<1>3. Inv /\ [Next]_vars => [Ended]_vars  BY <1>1, <1>2
<1> QED  BY <1>3, InvHolds, PTL DEF Spec, EveryoneCalled
=============================================================================
