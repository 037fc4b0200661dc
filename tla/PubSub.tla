-------------------------------- MODULE PubSub --------------------------------
(***************************************************************************)
(* Publishing to the subscribers of a topic (src/pubsub.c).  The           *)
(* subscribers of a pubsub are chained through their "next" pointers, and a *)
(* callback may publish, subscribe, unsubscribe and finalise subscribers    *)
(* while one or several ft_pubsub_publish are walking along the chain.      *)
(*                                                                         *)
(* "chain" is the list the pointers form; a subscriber that is in no chain  *)
(* has a NULL next pointer.  "stack" holds the running calls of            *)
(* ft_pubsub_publish, the innermost first, each at the subscriber whose     *)
(* callback it has called.                                                 *)
(*                                                                         *)
(* An operator that is not reached from Next is the next definition with a *)
(* bug in it; the properties are known to catch it.                        *)
(***************************************************************************)
EXTENDS Integers, Sequences, FiniteSets

CONSTANTS
  Sub, Pubsub, Topic,
  Silent,       \* subscribers that have no callback
  None,         \* the NULL pointer
  MaxDepth,     \* bound: calls of ft_pubsub_publish running at once
  MaxCalls      \* bound: callbacks called by one of them

ASSUME NoneAssumption == None \notin Sub \cup Pubsub \cup Topic
ASSUME SilentAssumption == Silent \subseteq Sub
ASSUME PubSubBounds == MaxDepth \in Nat \ {0} /\ MaxCalls \in Nat \ {0}

VARIABLES
  chain,        \* the subscribers of each pubsub, in the order of the pointers
  topic,        \* the topic of each subscriber, or None
  pubsub,       \* the pubsub of each subscriber, or None
  stack         \* the running calls of ft_pubsub_publish

vars == <<chain, topic, pubsub, stack>>

\* A call of ft_pubsub_publish(at, topic) whose loop variable is "sub".  For
\* the properties: whom it has called, who has been subscribed all along, and
\* whether a subscriber has been unsubscribed while its own callback ran.
Publishing(p, t, s, since) ==
  [at |-> p, topic |-> t, sub |-> s, called |-> <<s>>, since |-> since,
   cut |-> FALSE]

-----------------------------------------------------------------------------
\* ft_subscriber_subscribe: at the end of the chain, once only.
SubscribeTwice(s, p, t) ==
  /\ chain' = [chain EXCEPT ![p] = Append(@, s)]
  /\ topic' = [topic EXCEPT ![s] = t]
  /\ pubsub' = [pubsub EXCEPT ![s] = p]
  /\ UNCHANGED stack
Subscribe(s, p, t) ==
  /\ topic[s] = None /\ pubsub[s] = None
  /\ chain' = [chain EXCEPT ![p] = Append(@, s)]
  /\ topic' = [topic EXCEPT ![s] = t]
  /\ pubsub' = [pubsub EXCEPT ![s] = p]
  /\ UNCHANGED stack

\* ft_subscriber_unsubscribe, and ft_subscriber_fini of a subscriber that is
\* still subscribed: the pointer to it is made to point behind it, and its own
\* next pointer is cleared with the rest.  One that its pubsub does not know
\* stays as it is.
Unlink(c, i) == [j \in 1 .. Len(c) - 1 |-> IF j < i THEN c[j] ELSE c[j + 1]]
Unsubscribe(s) ==
  /\ topic[s] # None /\ pubsub[s] # None
  /\ \E i \in DOMAIN chain[pubsub[s]] :
       /\ chain[pubsub[s]][i] = s
       /\ chain' = [chain EXCEPT ![pubsub[s]] = Unlink(@, i)]
  /\ topic' = [topic EXCEPT ![s] = None]
  /\ pubsub' = [pubsub EXCEPT ![s] = None]
  /\ stack' = [i \in DOMAIN stack |->
                 [stack[i] EXCEPT !.since = @ \ {s},
                                  !.cut = @ \/ stack[i].sub = s]]

\* The loop of ft_pubsub_publish along what is left of a chain calls the first
\* subscriber of the topic that has a callback.
Matches(c, t) == {j \in DOMAIN c : topic[c[j]] = t /\ c[j] \notin Silent}
First(J) == CHOOSE j \in J : \A k \in J : j <= k

Publish(p, t) ==
  LET J == Matches(chain[p], t) IN
  /\ Len(stack) < MaxDepth /\ J # {}
  /\ LET s == chain[p][First(J)] IN
     stack' = <<Publishing(p, t, s, {chain[p][j] : j \in J})>> \o stack
  /\ UNCHANGED <<chain, topic, pubsub>>

\* A callback has returned: the loop goes on from the next pointer its
\* subscriber has now.
AfterFromStart(s) == IF pubsub[s] = None THEN <<>> ELSE chain[pubsub[s]]
AfterNext(s) == IF pubsub[s] = None THEN <<>>
                ELSE LET c == chain[pubsub[s]]
                         i == CHOOSE i \in DOMAIN c : c[i] = s
                     IN  SubSeq(c, i + 2, Len(c))
After(s) == IF pubsub[s] = None THEN <<>>
            ELSE LET c == chain[pubsub[s]]
                     i == CHOOSE i \in DOMAIN c : c[i] = s
                 IN  SubSeq(c, i + 1, Len(c))
FromNext(s, t) ==
  LET c == After(s) IN
  LET J == Matches(c, t) IN
  IF J = {} THEN None ELSE c[First(J)]

CallNext ==
  LET p == Head(stack) IN
  LET s == FromNext(p.sub, p.topic) IN
  /\ stack # <<>> /\ s # None
  /\ Len(p.called) < MaxCalls
  /\ stack' = <<[p EXCEPT !.sub = s, !.called = Append(@, s)]>> \o Tail(stack)
  /\ UNCHANGED <<chain, topic, pubsub>>

PublishEnds ==
  /\ stack # <<>>
  /\ FromNext(Head(stack).sub, Head(stack).topic) = None
  /\ stack' = Tail(stack)
  /\ UNCHANGED <<chain, topic, pubsub>>

Init ==
  /\ chain = [p \in Pubsub |-> <<>>]
  /\ topic = [s \in Sub |-> None] /\ pubsub = [s \in Sub |-> None]
  /\ stack = <<>>

Next ==
  \/ \E s \in Sub, p \in Pubsub, t \in Topic : Subscribe(s, p, t)
  \/ \E s \in Sub : Unsubscribe(s)
  \/ \E p \in Pubsub, t \in Topic : Publish(p, t)
  \/ CallNext \/ PublishEnds

Spec == Init /\ [][Next]_vars
-----------------------------------------------------------------------------
\* Whatever the callbacks do to them while they are walked along, the chains
\* hold every subscriber in exactly the pubsub it points back to, once.
ChainsExact ==
  /\ \A p \in Pubsub :
       /\ \A i, j \in DOMAIN chain[p] : chain[p][i] = chain[p][j] => i = j
       /\ \A s \in Sub : (\E i \in DOMAIN chain[p] : chain[p][i] = s) <=>
                           pubsub[s] = p
  /\ \A s \in Sub : topic[s] = None <=> pubsub[s] = None

\* One call of ft_pubsub_publish calls a subscriber that stays subscribed at
\* most once, although the chain changes under it.
CalledOnce ==
  \A i \in DOMAIN stack : \A s \in stack[i].since :
    Cardinality({k \in DOMAIN stack[i].called : stack[i].called[k] = s}) <= 1

\* ft_pubsub_publish has called every subscriber that was subscribed to the topic
\* all the while when it comes to its end, unless one of those it called has
\* unsubscribed itself in its callback, which clears the pointer the loop goes
\* on from.
Missed(p) == {s \in p.since : \A k \in DOMAIN p.called : p.called[k] # s}
EveryoneCalled ==
  [][Len(stack') < Len(stack) /\ ~Head(stack).cut => Missed(Head(stack)) = {}]_vars
=============================================================================
