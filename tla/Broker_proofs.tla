---------------------------- MODULE Broker_proofs ----------------------------
(* The broker: no send to, or closing of, a closed channel, exact connection *)
(* counts, and what the event streams carry, for any number of projects,     *)
(* streams and posts.  Then the channel server composed with it: who         *)
(* listens, what its replies say, and what its listeners pass on.            *)
EXTENDS McpListener, FiniteSetTheorems, FunctionTheorems, SequenceTheorems, TLAPS

\* The part of TypeOK these proofs need.
BusTypeOK ==
    /\ pc \in [Streams -> Stage]
    /\ project \in [Streams -> Projects]
    /\ subs \in [Projects -> SUBSET Streams]
    /\ mapping \subseteq Streams
    /\ channel \in [Streams -> {"none", "open", "closed"}]

\* The handlers that are counted for project p.
Counted(p) ==
    {s \in Streams : project[s] = p /\ pc[s] \in {"counted", "streaming", "leaving"}}

\* The bus knows a stream by both maps, under the project it asked for, and only
\* from its subscription to the closing of its channel.
BusInv ==
    /\ \A s \in mapping : channel[s] = "open" /\ pc[s] = "streaming"
    /\ \A p \in Projects : \A s \in subs[p] : s \in mapping /\ project[s] = p

CountInv ==
    /\ conns \in [Projects -> Nat]
    /\ \A p \in Projects : conns[p] = Cardinality(Counted(p))

Inv == BusTypeOK /\ BusInv /\ CountInv

-----------------------------------------------------------------------------
(* Counting. *)

\* The handlers counted for a project are finitely many.
LEMMA CountedFinite == \A p : IsFiniteSet(Counted(p))
  <1>1. \A p : Counted(p) \subseteq Streams
    BY DEF Counted
  <1>. QED BY <1>1, FS_Subset, BrokerAssumption

\* While no handler moves in or out of the counted stages and no count changes,
\* the counts stay exact.
LEMMA CountKept ==
  ASSUME CountInv, UNCHANGED <<project, conns>>,
         \A s \in Streams : pc'[s] \in {"counted", "streaming", "leaving"}
                              <=> pc[s] \in {"counted", "streaming", "leaving"}
  PROVE  CountInv'
  <1>1. \A p : Counted(p)' = Counted(p)
    BY DEF Counted
  <1>. QED BY <1>1 DEF CountInv

\* A handler that is counted, or uncounted, changes its project's count by one.
LEMMA CountUp ==
  ASSUME BusTypeOK, CountInv, NEW s \in Streams, pc[s] = "snapshot",
         pc' = [pc EXCEPT ![s] = "counted"], UNCHANGED project,
         conns' = [conns EXCEPT ![project[s]] = @ + 1]
  PROVE  CountInv'
  <1>1. \A p \in Projects \ {project[s]} : Counted(p)' = Counted(p)
    BY DEF Counted, BusTypeOK
  <1>2. Counted(project[s])' = Counted(project[s]) \cup {s}
    BY DEF Counted, BusTypeOK
  <1>3. s \notin Counted(project[s])
    BY DEF Counted
  <1>4. Cardinality(Counted(project[s]) \cup {s}) = Cardinality(Counted(project[s])) + 1
    BY <1>3, CountedFinite, FS_AddElement
  <1>5. project[s] \in Projects
    BY DEF BusTypeOK
  <1>6. conns' \in [Projects -> Nat]
    BY <1>5 DEF CountInv
  <1>7. conns'[project[s]] = Cardinality(Counted(project[s])')
    BY <1>2, <1>4, <1>5 DEF CountInv
  <1>8. \A p \in Projects \ {project[s]} : conns'[p] = Cardinality(Counted(p)')
    BY <1>1 DEF CountInv
  <1>. QED BY <1>6, <1>7, <1>8 DEF CountInv

\* Uncounting a handler takes one from its project's count.
LEMMA CountDown ==
  ASSUME BusTypeOK, CountInv, NEW s \in Streams, pc[s] = "leaving",
         pc' = [pc EXCEPT ![s] = "ended"], UNCHANGED project,
         conns' = [conns EXCEPT ![project[s]] = @ - 1]
  PROVE  CountInv'
  <1>1. \A p \in Projects \ {project[s]} : Counted(p)' = Counted(p)
    BY DEF Counted, BusTypeOK
  <1>2. Counted(project[s])' = Counted(project[s]) \ {s}
    BY DEF Counted, BusTypeOK
  <1>3. s \in Counted(project[s])
    BY DEF Counted
  <1>4. /\ Cardinality(Counted(project[s]) \ {s}) = Cardinality(Counted(project[s])) - 1
        /\ Cardinality(Counted(project[s]) \ {s}) \in Nat
    BY <1>3, CountedFinite, FS_RemoveElement, FS_CardinalityType, FS_Subset
  <1>5. project[s] \in Projects
    BY DEF BusTypeOK
  <1>. QED BY <1>1, <1>2, <1>4, <1>5 DEF CountInv

-----------------------------------------------------------------------------
(* The invariant. *)

\* A new broker satisfies the invariant.
LEMMA InitInv == Init => Inv
  <1> SUFFICES ASSUME Init PROVE Inv
    OBVIOUS
  <1>1. BusTypeOK
    BY DEF Init, BusTypeOK, Stage
  <1>2. BusInv
    BY DEF Init, BusInv
  <1>3. \A p \in Projects : Counted(p) = {}
    BY DEF Init, Counted
  <1>4. CountInv
    BY <1>3, FS_EmptySet DEF Init, CountInv
  <1>. QED BY <1>1, <1>2, <1>4 DEF Inv

\* A step that leaves the bus and the handlers alone.
LEMMA QuietInv ==
  ASSUME Inv, UNCHANGED <<pc, project, subs, mapping, channel, conns>>
  PROVE  Inv'
  <1>1. CountInv'
    BY CountKept DEF Inv
  <1>. QED BY <1>1 DEF Inv, BusTypeOK, BusInv

\* Every step of an SSE handler keeps the invariant.
LEMMA StreamInv ==
  ASSUME Inv, NEW s \in Streams, StreamStep(s) \/ ClientGone(s)
  PROVE  Inv'
  <1> USE DEF storeVars, busVars
  <1>1. CASE Snapshot(s)
    <2>1. CountInv'
      BY <1>1, CountKept DEF Inv, Snapshot, BusTypeOK
    <2>. QED BY <1>1, <2>1 DEF Snapshot, Inv, BusTypeOK, BusInv, Stage
  <1>2. CASE SendInitial(s)
    <2>1. CountInv'
      BY <1>2, CountKept DEF Inv, SendInitial, BusTypeOK
    <2>. QED BY <1>2, <2>1 DEF SendInitial, Inv, BusTypeOK, BusInv, Stage
  <1>3. CASE CountConnection(s)
    <2>1. CountInv'
      BY <1>3, CountUp DEF Inv, CountConnection
    <2>. QED BY <1>3, <2>1 DEF CountConnection, Inv, BusTypeOK, BusInv, Stage
  <1>4. CASE Subscribe(s)
    <2>1. CountInv'
      BY <1>4, CountKept DEF Inv, Subscribe, BusTypeOK
    <2>. QED BY <1>4, <2>1 DEF Subscribe, Inv, BusTypeOK, BusInv, Stage
  <1>5. CASE SendEvent(s)
    BY <1>5, QuietInv DEF SendEvent
  <1>6. CASE Leave(s)
    <2>1. CountInv'
      BY <1>6, CountKept DEF Inv, Leave, BusTypeOK
    <2>2. CASE s \in mapping
      BY <1>6, <2>1, <2>2 DEF Leave, Unsubscribe, Inv, BusTypeOK, BusInv, Stage
    <2>3. CASE s \notin mapping
      BY <1>6, <2>1, <2>3 DEF Leave, Unsubscribe, Inv, BusTypeOK, BusInv, Stage
    <2>. QED BY <2>2, <2>3
  <1>7. CASE Uncount(s)
    <2>1. CountInv'
      BY <1>7, CountDown DEF Inv, Uncount
    <2>. QED BY <1>7, <2>1 DEF Uncount, Inv, BusTypeOK, BusInv, Stage
  <1>. QED BY <1>1, <1>2, <1>3, <1>4, <1>5, <1>6, <1>7 DEF StreamStep, ClientGone, ChannelClosed

\* So does every step of the broker.
LEMMA NextInv == Inv /\ [Next]_vars => Inv'
  <1> SUFFICES ASSUME Inv, [Next]_vars PROVE Inv'
    OBVIOUS
  <1> USE DEF storeVars, busVars, streamVars
  <1>1. ASSUME NEW p \in Projects, NEW k \in Kind, StorePost(p, k) PROVE Inv'
    BY <1>1, QuietInv DEF StorePost
  <1>2. ASSUME NEW post \in pending, Publish(post) PROVE Inv'
    BY <1>2, QuietInv DEF Publish
  <1>3. ASSUME NEW s \in Streams, StreamStep(s) \/ ClientGone(s) PROVE Inv'
    BY <1>3, StreamInv
  <1>4. CASE CloseAll
    <2>1. CountInv'
      BY <1>4, CountKept DEF Inv, CloseAll
    <2>. QED BY <1>4, <2>1 DEF CloseAll, Inv, BusTypeOK, BusInv
  <1>5. CASE Shutdown
    BY <1>5, QuietInv DEF Shutdown
  <1>6. CASE UNCHANGED vars
    BY <1>6, QuietInv DEF vars
  <1>. QED BY <1>1, <1>2, <1>3, <1>4, <1>5, <1>6 DEF Next

\* The invariant holds in every reachable state.
LEMMA SpecInv == Spec => []Inv
  BY InitInv, NextInv, PTL DEF Spec

-----------------------------------------------------------------------------
\* In whatever order Unsubscribe, closeAll and publish meet on a stream, only open
\* channels are sent to and closed (eventBus in types.go).
THEOREM ChannelsSafe == Spec => []NoChannelPanic
  <1>1. Inv => NoChannelPanic
    BY DEF Inv, BusInv, NoChannelPanic
  <1>. QED BY <1>1, SpecInv, PTL

\* Broker.sseConns counts the handlers between their counting and their deferred
\* uncounting, whichever way they return (handleSSE).
THEOREM CountsCorrect == Spec => []CountsAreExact
  <1>1. Inv => CountsAreExact
    BY DEF Inv, CountInv, Counted, CountsAreExact
  <1>. QED BY <1>1, SpecInv, PTL

-----------------------------------------------------------------------------
(* What a stream is sent.  The posts of the store are told apart by their ids; *)
(* of those some are pending and some published, once each; and a stream has    *)
(* got, first, artifacts of its snapshot, and then events in publishing order.  *)

Elems(q) == {q[n] : n \in 1..Len(q)}

\* No post is in the sequence twice.
Distinct(q) == \A n \in 1..Len(q) : \A m \in 1..(n - 1) : q[m] # q[n]

\* No post is stored twice; ids grow along the history of a project.
StoreInv ==
    /\ store \in [Projects -> [Kind -> Seq(Post)]]
    /\ IsFiniteSet(Posts)
    /\ \A e \in Posts : e.id <= Cardinality(Posts)
    /\ \A p \in Projects, k \in Kind : \A n \in 1..Len(store[p][k]) :
          /\ store[p][k][n].kind = k /\ store[p][k][n].project = p
          /\ \A m \in 1..(n - 1) : store[p][k][m].id < store[p][k][n].id

\* A post is published after it was stored, and once.
PublishedInv ==
    /\ pending \subseteq Posts
    /\ published \in [Projects -> Seq(Post)]
    /\ \A p \in Projects : /\ Distinct(published[p])
                          /\ Elems(published[p]) \subseteq Posts \ pending

\* Of what stream s got, the first c posts are of its snapshot; the rest, and what
\* is in its buffer, was published, in this order.
CutAt(s, c) ==
    /\ \A m \in 1..c : /\ got[s][m].kind = "artifact"
                       /\ \A n \in 1..(m - 1) : got[s][n] # got[s][m]
    /\ \A m \in (c + 1)..Len(Live(s)) :
          /\ Live(s)[m] \in Elems(published[project[s]])
          /\ \A n \in (c + 1)..(m - 1) :
                Place(published[project[s]], Live(s)[n]) < Place(published[project[s]], Live(s)[m])

\* Where the handler stands says what it has sent and has yet to send.
StageInv(s) ==
    /\ pc[s] \in {"new", "snapshot", "counted"} => buffer[s] = <<>>
    /\ pc[s] \in {"new", "counted", "streaming"} => initial[s] = <<>>
    /\ pc[s] = "new" => got[s] = <<>>
    /\ pc[s] = "snapshot" =>
          /\ CutAt(s, Len(got[s]))
          /\ \A m \in 1..Len(initial[s]) :
                initial[s][m].kind = "artifact" /\ initial[s][m] \notin Sent(s)
          /\ Distinct(initial[s])

\* An artifact a stream has not got is on its way, or was missed.
OnItsWay(s) == pending \cup missed[s] \cup Sent(s) \cup Elems(initial[s]) \cup Elems(buffer[s])

StreamTypeOK ==
    /\ initial \in [Streams -> Seq(Post)]
    /\ buffer \in [Streams -> Seq(Post)]
    /\ got \in [Streams -> Seq(Post)]
    /\ missed \in [Streams -> SUBSET Post]

\* An open channel is known to the bus by both maps.
OpenInv ==
    \A s \in Streams : channel[s] = "open" => s \in mapping /\ s \in subs[project[s]]

\* What a stream was sent and will be.
Served(s) ==
    /\ StageInv(s)
    /\ \E c \in 0..Len(got[s]) : CutAt(s, c)
    /\ pc[s] \in {"snapshot", "counted"} \/ channel[s] = "open" =>
          Artifacts(project[s]) \subseteq OnItsWay(s)

EventInv ==
    /\ phase \in {"up", "busClosed", "down"}
    /\ StoreInv /\ PublishedInv /\ StreamTypeOK /\ OpenInv
    /\ \A s \in Streams : Served(s)

-----------------------------------------------------------------------------
(* Sequences and places. *)

\* What appending adds to the elements of a sequence.
LEMMA AppendElems ==
  ASSUME NEW q \in Seq(Post), NEW e \in Post
  PROVE  /\ Append(q, e) \in Seq(Post)
         /\ Len(Append(q, e)) = Len(q) + 1
         /\ \A n \in 1..Len(q) : Append(q, e)[n] = q[n]
         /\ Append(q, e)[Len(q) + 1] = e
         /\ Elems(Append(q, e)) = Elems(q) \cup {e}
  <1>1. /\ Append(q, e) \in Seq(Post)
        /\ Len(q) \in Nat
        /\ Len(Append(q, e)) = Len(q) + 1
        /\ \A n \in 1..Len(q) : Append(q, e)[n] = q[n]
        /\ Append(q, e)[Len(q) + 1] = e
    OBVIOUS
  <1>2. Elems(Append(q, e)) \subseteq Elems(q) \cup {e}
    BY <1>1 DEF Elems
  <1>3. Elems(q) \cup {e} \subseteq Elems(Append(q, e))
    BY <1>1 DEF Elems
  <1>. QED BY <1>1, <1>2, <1>3

\* What taking its head leaves of a sequence.
LEMMA TailElems ==
  ASSUME NEW q \in Seq(Post), q # <<>>
  PROVE  /\ Head(q) \in Post /\ Tail(q) \in Seq(Post)
         /\ Len(q) \in Nat \ {0} /\ Len(Tail(q)) = Len(q) - 1
         /\ Head(q) = q[1]
         /\ \A n \in 1..Len(Tail(q)) : Tail(q)[n] = q[n + 1]
         /\ Elems(q) = {Head(q)} \cup Elems(Tail(q))
  <1>1. /\ Head(q) \in Post /\ Tail(q) \in Seq(Post)
        /\ Len(q) \in Nat \ {0} /\ Len(Tail(q)) = Len(q) - 1
        /\ Head(q) = q[1]
        /\ \A n \in 1..Len(Tail(q)) : Tail(q)[n] = q[n + 1]
    OBVIOUS
  <1>2. ASSUME NEW n \in 1..Len(q) PROVE q[n] \in {Head(q)} \cup Elems(Tail(q))
    <2>1. CASE n = 1
      BY <1>1, <2>1
    <2>2. CASE n # 1
      <3>1. n - 1 \in 1..Len(Tail(q)) /\ Tail(q)[n - 1] = q[n]
        BY <1>1, <2>2
      <3>. QED BY <3>1 DEF Elems
    <2>. QED BY <2>1, <2>2
  <1>3. ASSUME NEW n \in 1..Len(Tail(q)) PROVE Tail(q)[n] \in Elems(q)
    <2>1. n + 1 \in 1..Len(q) /\ Tail(q)[n] = q[n + 1]
      BY <1>1
    <2>. QED BY <2>1 DEF Elems
  <1>4. Head(q) \in Elems(q)
    BY <1>1 DEF Elems
  <1>5. Elems(q) = {Head(q)} \cup Elems(Tail(q))
    BY <1>2, <1>3, <1>4 DEF Elems
  <1>. QED BY <1>1, <1>5

\* In a sequence that repeats nothing every element has one place.
LEMMA PlaceOf ==
  ASSUME NEW q \in Seq(Post), Distinct(q), NEW n \in 1..Len(q)
  PROVE  Place(q, q[n]) = n
  <1>1. Len(q) \in Nat
    OBVIOUS
  <1>2. ASSUME NEW m \in 1..Len(q), q[m] = q[n] PROVE m = n
    <2>1. CASE m < n
      <3>1. m \in 1..(n - 1)
        BY <1>1, <2>1
      <3>. QED BY <3>1, <1>2 DEF Distinct
    <2>2. CASE n < m
      <3>1. n \in 1..(m - 1)
        BY <1>1, <2>2
      <3>. QED BY <3>1, <1>2 DEF Distinct
    <2>. QED BY <1>1, <2>1, <2>2
  <1>. QED BY <1>2 DEF Place

\* Appending a new element leaves the places of the others, and puts it last.
LEMMA PlacesKept ==
  ASSUME NEW q \in Seq(Post), Distinct(q), NEW e \in Post, e \notin Elems(q)
  PROVE  /\ Distinct(Append(q, e))
         /\ \A x \in Elems(q) : /\ Place(Append(q, e), x) = Place(q, x)
                                /\ Place(q, x) < Place(Append(q, e), e)
  <1>1. /\ Append(q, e) \in Seq(Post) /\ Len(q) \in Nat
        /\ Len(Append(q, e)) = Len(q) + 1
        /\ \A n \in 1..Len(q) : Append(q, e)[n] = q[n]
        /\ Append(q, e)[Len(q) + 1] = e
    BY AppendElems
  <1>2. Distinct(Append(q, e))
    <2> SUFFICES ASSUME NEW n \in 1..Len(Append(q, e)), NEW m \in 1..(n - 1)
                 PROVE  Append(q, e)[m] # Append(q, e)[n]
      BY DEF Distinct
    <2>1. m \in 1..Len(q) /\ Append(q, e)[m] = q[m]
      BY <1>1
    <2>2. CASE n \in 1..Len(q)
      BY <1>1, <2>1, <2>2 DEF Distinct
    <2>3. CASE n = Len(q) + 1
      BY <1>1, <2>1, <2>3 DEF Elems
    <2>. QED BY <1>1, <2>2, <2>3
  <1>3. Place(Append(q, e), e) = Len(q) + 1
    <2>1. Len(q) + 1 \in 1..Len(Append(q, e))
      BY <1>1
    <2>. QED BY <1>1, <1>2, <2>1, PlaceOf
  <1>4. ASSUME NEW x \in Elems(q)
        PROVE  /\ Place(Append(q, e), x) = Place(q, x)
               /\ Place(q, x) < Place(Append(q, e), e)
    <2>1. PICK n \in 1..Len(q) : q[n] = x
      BY <1>4 DEF Elems
    <2>2. Place(q, x) = n
      BY <2>1, PlaceOf
    <2>3. n \in 1..Len(Append(q, e)) /\ Append(q, e)[n] = x
      BY <1>1, <2>1
    <2>4. Place(Append(q, e), x) = n
      BY <1>1, <1>2, <2>3, PlaceOf
    <2>. QED BY <1>1, <1>3, <2>2, <2>4
  <1>. QED BY <1>2, <1>4

\* Moving the head of one sequence to the end of another keeps the two together.
LEMMA MoveHead ==
  ASSUME NEW q \in Seq(Post), NEW r \in Seq(Post), r # <<>>
  PROVE  Append(q, Head(r)) \o Tail(r) = q \o r
  <1>1. Head(r) \in Post /\ Tail(r) \in Seq(Post) /\ <<Head(r)>> \in Seq(Post)
    BY TailElems
  <1>2. r = <<Head(r)>> \o Tail(r)
    BY HeadTailProperties
  <1>3. Append(q, Head(r)) = q \o <<Head(r)>>
    BY <1>1, AppendIsConcat
  <1>4. (q \o <<Head(r)>>) \o Tail(r) = q \o (<<Head(r)>> \o Tail(r))
    BY <1>1, ConcatAssociative
  <1>. QED BY <1>2, <1>3, <1>4

\* The elements of a concatenation are those of its parts.
LEMMA ConcatElems ==
  ASSUME NEW q \in Seq(Post), NEW r \in Seq(Post)
  PROVE  /\ q \o r \in Seq(Post) /\ Len(q \o r) = Len(q) + Len(r)
         /\ Len(q) \in Nat /\ Len(r) \in Nat
         /\ Len(q \o r) \in Nat /\ Len(q) <= Len(q \o r)
         /\ \A n \in 1..Len(q) : (q \o r)[n] = q[n]
         /\ \A n \in 1..Len(r) : (q \o r)[Len(q) + n] = r[n]
  <1>1. q \o r \in Seq(Post) /\ Len(q \o r) = Len(q) + Len(r)
    OBVIOUS
  <1>2. Len(q) \in Nat /\ Len(r) \in Nat
    OBVIOUS
  <1>3. \A n \in 1..Len(q) : (q \o r)[n] = q[n]
    OBVIOUS
  <1>4. \A n \in 1..Len(r) : (q \o r)[Len(q) + n] = r[n]
    OBVIOUS
  <1>5. Len(q \o r) \in Nat /\ Len(q) <= Len(q \o r)
    BY <1>1, <1>2
  <1>. QED BY <1>1, <1>2, <1>3, <1>4, <1>5

\* What is appended to the second of two sequences is appended to both together.
LEMMA AppendConcat ==
  ASSUME NEW q \in Seq(Post), NEW r \in Seq(Post), NEW e \in Post
  PROVE  q \o Append(r, e) = Append(q \o r, e)
  <1>1. Append(r, e) = r \o <<e>> /\ q \o r \in Seq(Post) /\ <<e>> \in Seq(Post)
    BY AppendIsConcat
  <1>2. Append(q \o r, e) = (q \o r) \o <<e>>
    BY <1>1, AppendIsConcat
  <1>. QED BY <1>1, <1>2, ConcatAssociative

\* The two parts of a stream.
LEMMA LiveElems ==
  ASSUME StreamTypeOK, NEW s \in Streams
  PROVE  /\ Live(s) \in Seq(Post) /\ Len(Live(s)) = Len(got[s]) + Len(buffer[s])
         /\ Len(got[s]) \in Nat /\ Len(buffer[s]) \in Nat
         /\ Len(Live(s)) \in Nat /\ Len(got[s]) <= Len(Live(s))
         /\ \A n \in 1..Len(got[s]) : Live(s)[n] = got[s][n]
         /\ \A n \in 1..Len(buffer[s]) : Live(s)[Len(got[s]) + n] = buffer[s][n]
  <1>1. got[s] \in Seq(Post) /\ buffer[s] \in Seq(Post)
    BY DEF StreamTypeOK
  <1>. QED BY <1>1, ConcatElems, Zenon DEF Live

-----------------------------------------------------------------------------
(* What the steps keep of the streams. *)

\* The cut of a stream stays where it is while the stream gets and publishes nothing.
LEMMA CutKept ==
  ASSUME NEW s \in Streams, NEW c,
         got'[s] = got[s], buffer'[s] = buffer[s], project' = project,
         published' = published, CutAt(s, c)
  PROVE  CutAt(s, c)'
  <1>1. Live(s)' = Live(s)
    BY DEF Live
  <1>. QED BY <1>1 DEF CutAt, Place

\* Sending an event from the buffer changes no cut.
LEMMA CutSendEvent ==
  ASSUME StreamTypeOK, NEW s \in Streams, buffer[s] # <<>>,
         got'[s] = Append(got[s], Head(buffer[s])), buffer'[s] = Tail(buffer[s]),
         project' = project, published' = published,
         NEW c \in 0..Len(got[s]), CutAt(s, c)
  PROVE  CutAt(s, c)' /\ Live(s)' = Live(s) /\ Len(got[s])' = Len(got[s]) + 1
  <1>1. got[s] \in Seq(Post) /\ buffer[s] \in Seq(Post)
    BY DEF StreamTypeOK
  <1>2. /\ Head(buffer[s]) \in Post /\ Len(got[s]) \in Nat
        /\ Len(got'[s]) = Len(got[s]) + 1
        /\ \A n \in 1..Len(got[s]) : got'[s][n] = got[s][n]
    BY <1>1, TailElems, AppendElems
  <1>3. got'[s] \o buffer'[s] = got[s] \o buffer[s]
    BY <1>1, MoveHead, Zenon
  <1>4. Live(s)' = Live(s)
    BY <1>3 DEF Live
  <1>. QED BY <1>2, <1>4 DEF CutAt, Place


\* The posts of the store are posts.
LEMMA PostsTyped == Posts \subseteq Post
  BY DEF Posts, Post

\* A stream is served as before by a step that does not touch it and publishes nothing:
\* a post that is stored is pending.
LEMMA ServedKept ==
  ASSUME NEW s \in Streams, Served(s), UNCHANGED <<project, published>>,
         pc'[s] = pc[s], got'[s] = got[s], buffer'[s] = buffer[s], initial'[s] = initial[s],
         missed'[s] = missed[s], channel'[s] = "open" => channel[s] = "open",
         pending \subseteq pending',
         Artifacts(project[s])' \subseteq Artifacts(project[s]) \cup pending'
  PROVE  Served(s)'
  <1>1. \A c : CutAt(s, c) => CutAt(s, c)'
    BY CutKept
  <1>2. \A c : c \in 0..Len(got[s]) => c \in (0..Len(got[s]))'
    OBVIOUS
  <1>3. (\E c \in 0..Len(got[s]) : CutAt(s, c))'
    BY <1>1, <1>2 DEF Served
  <1>4. CutAt(s, Len(got[s])) => CutAt(s, Len(got[s]))'
    BY <1>1
  <1>5. Sent(s)' = Sent(s)
    BY DEF Sent
  <1>6. StageInv(s)'
    BY <1>4, <1>5 DEF Served, StageInv
  <1>7. OnItsWay(s) \cup pending' \subseteq OnItsWay(s)'
    BY <1>5 DEF OnItsWay
  <1>. QED BY <1>3, <1>6, <1>7 DEF Served

\* A connection whose snapshot is its project's artifacts repeats none and lacks none.
LEMMA SnapshotTaken ==
  ASSUME StoreInv, NEW s \in Streams, project[s] \in Projects,
         pc'[s] = "snapshot", got'[s] = <<>>, buffer'[s] = <<>>,
         initial'[s] = store[project[s]]["artifact"],
         UNCHANGED <<project, store, published>>
  PROVE  Served(s)'
  <1>2. /\ store[project[s]]["artifact"] \in Seq(Post)
        /\ \A n \in 1..Len(initial'[s]) : initial'[s][n].kind = "artifact"
    BY DEF StoreInv, Kind
  <1>3. Distinct(initial'[s])
    <2>1. ASSUME NEW n \in 1..Len(initial'[s]), NEW m \in 1..(n - 1)
          PROVE  initial'[s][m] # initial'[s][n]
      <3>1. /\ n \in Nat /\ m \in 1..Len(initial'[s])
            /\ initial'[s][n] \in Post /\ initial'[s][m] \in Post
        BY <1>2
      <3>2. initial'[s][m].id < initial'[s][n].id
        BY DEF StoreInv, Kind
      <3>. QED BY <3>1, <3>2 DEF Post
    <2>. QED BY <2>1 DEF Distinct
  <1>4. CutAt(s, Len(got[s]))' /\ Len(got'[s]) = 0
    BY DEF CutAt, Live
  <1>5. Artifacts(project[s])' \subseteq OnItsWay(s)'
    BY DEF Artifacts, OnItsWay, Elems
  <1>6. StageInv(s)'
    BY <1>2, <1>3, <1>4 DEF StageInv, Sent
  <1>7. (\E c \in 0..Len(got[s]) : CutAt(s, c))'
    BY <1>4
  <1>. QED BY <1>5, <1>6, <1>7 DEF Served

\* The handler takes it when it begins.
LEMMA SnapshotServed ==
  ASSUME StoreInv, StreamTypeOK, NEW s \in Streams, project[s] \in Projects, Served(s), Snapshot(s),
         pc \in [Streams -> Stage]
  PROVE  Served(s)'
  <1>1. /\ pc'[s] = "snapshot" /\ got' = got /\ buffer' = buffer /\ got[s] = <<>> /\ buffer[s] = <<>>
        /\ initial'[s] = store[project[s]]["artifact"]
        /\ UNCHANGED <<project, store, published>>
    BY DEF Snapshot, storeVars, busVars, Served, StageInv, StreamTypeOK
  <1>. QED BY <1>1, SnapshotTaken

\* An artifact of the snapshot is sent behind those sent before, once.
LEMMA SendInitialServed ==
  ASSUME StreamTypeOK, NEW s \in Streams, Served(s), SendInitial(s), pc \in [Streams -> Stage]
  PROVE  Served(s)'
  <1> DEFINE e == Head(initial[s])
  <1>1. /\ pc[s] = "snapshot" /\ initial[s] # <<>> /\ buffer[s] = <<>>
        /\ CutAt(s, Len(got[s])) /\ Distinct(initial[s])
        /\ \A m \in 1..Len(initial[s]) :
              initial[s][m].kind = "artifact" /\ initial[s][m] \notin Sent(s)
        /\ UNCHANGED <<project, published, buffer, store, pending, missed, channel>>
    BY DEF SendInitial, Served, StageInv, storeVars, busVars
  <1>2. initial[s] \in Seq(Post) /\ got[s] \in Seq(Post) /\ Len(got[s]) \in Nat
    BY DEF StreamTypeOK
  <1>3. CASE pc' = [pc EXCEPT ![s] = "ended"] /\ UNCHANGED <<got, initial>>
    <2>1. pc'[s] = "ended"
      BY <1>3
    <2>2. StageInv(s)'
      BY <2>1 DEF StageInv
    <2>3. CutAt(s, Len(got[s]))'
      BY <1>1, <1>3, CutKept
    <2>4. (\E c \in 0..Len(got[s]) : CutAt(s, c))'
      BY <1>2, <1>3, <2>3
    <2>5. channel'[s] = "open" => Artifacts(project[s])' \subseteq OnItsWay(s)'
      BY <1>1, <1>3 DEF Served, Artifacts, OnItsWay, Sent
    <2>. QED BY <2>1, <2>2, <2>4, <2>5 DEF Served
  <1>4. CASE got' = [got EXCEPT ![s] = Append(@, e)] /\ initial' = [initial EXCEPT ![s] = Tail(@)]
             /\ UNCHANGED pc
    <2>1. got'[s] = Append(got[s], e) /\ initial'[s] = Tail(initial[s]) /\ pc'[s] = "snapshot"
      BY <1>1, <1>4 DEF StreamTypeOK
    <2>2. /\ e \in Post /\ Tail(initial[s]) \in Seq(Post)
          /\ Len(initial[s]) \in Nat \ {0} /\ Len(Tail(initial[s])) = Len(initial[s]) - 1
          /\ e = initial[s][1]
          /\ \A n \in 1..Len(Tail(initial[s])) : Tail(initial[s])[n] = initial[s][n + 1]
          /\ Elems(initial[s]) = {e} \cup Elems(Tail(initial[s]))
      BY <1>1, <1>2, TailElems
    <2> HIDE DEF e
    <2>3. /\ Len(got'[s]) = Len(got[s]) + 1
          /\ \A n \in 1..Len(got[s]) : got'[s][n] = got[s][n]
          /\ got'[s][Len(got[s]) + 1] = e
          /\ Elems(got'[s]) = Elems(got[s]) \cup {e}
      BY <1>2, <2>1, <2>2, AppendElems
    <2>4. Sent(s)' = Sent(s) \cup {e}
      BY <2>3 DEF Sent, Elems
    <2>5. e.kind = "artifact" /\ e \notin Sent(s)
      BY <1>1, <2>2
    <2>6. ASSUME NEW m \in 1..Len(got'[s])
          PROVE  /\ got'[s][m].kind = "artifact"
                 /\ \A n \in 1..(m - 1) : got'[s][n] # got'[s][m]
      <3>1. CASE m \in 1..Len(got[s])
        <4>1. \A n \in 1..(m - 1) : n \in 1..Len(got[s])
          BY <1>2, <3>1
        <4>. QED BY <1>1, <2>3, <3>1, <4>1 DEF CutAt
      <3>2. CASE m = Len(got[s]) + 1
        <4>1. \A n \in 1..(m - 1) : n \in 1..Len(got[s]) /\ got[s][n] \in Sent(s)
          BY <1>2, <3>2 DEF Sent
        <4>. QED BY <2>3, <2>5, <3>2, <4>1
      <3>. QED BY <1>2, <2>3, <3>1, <3>2
    <2>7. Len(Live(s)') = Len(got'[s])
      <3>1. got'[s] \in Seq(Post)
        BY <1>2, <2>1, <2>2
      <3>. QED BY <1>1, <3>1, ConcatEmptySeq DEF Live
    <2>8. CutAt(s, Len(got[s]))'
      <3>1. (Len(got'[s]) + 1)..Len(Live(s)') = {}
        BY <1>2, <2>3, <2>7
      <3>. QED BY <2>6, <3>1, Zenon DEF CutAt
    <2>9. Distinct(Tail(initial[s]))
      <3>1. ASSUME NEW n \in 1..Len(Tail(initial[s])), NEW m \in 1..(n - 1)
            PROVE  Tail(initial[s])[m] # Tail(initial[s])[n]
        <4>1. /\ m \in 1..Len(Tail(initial[s]))
              /\ n + 1 \in 1..Len(initial[s]) /\ m + 1 \in 1..((n + 1) - 1)
          BY <2>2
        <4>2. initial[s][m + 1] # initial[s][n + 1]
          BY <1>1, <4>1 DEF Distinct
        <4>. QED BY <2>2, <4>1, <4>2
      <3>. QED BY <3>1 DEF Distinct
    <2>10. ASSUME NEW m \in 1..Len(Tail(initial[s]))
           PROVE  Tail(initial[s])[m].kind = "artifact" /\ Tail(initial[s])[m] \notin Sent(s)'
      <3>1. m + 1 \in 1..Len(initial[s]) /\ 1 \in 1..((m + 1) - 1)
        BY <2>2
      <3>2. initial[s][1] # initial[s][m + 1]
        BY <1>1, <3>1 DEF Distinct
      <3>. QED BY <1>1, <2>2, <2>4, <3>1, <3>2
    <2>11. StageInv(s)'
      BY <1>1, <2>1, <2>8, <2>9, <2>10 DEF StageInv
    <2>12. (\E c \in 0..Len(got[s]) : CutAt(s, c))'
      BY <1>2, <2>3, <2>8
    <2>13. OnItsWay(s)' = OnItsWay(s)
      BY <1>1, <2>1, <2>2, <2>4 DEF OnItsWay
    <2>14. Artifacts(project[s])' \subseteq OnItsWay(s)'
      BY <1>1, <2>13 DEF Served, Artifacts
    <2>. QED BY <2>11, <2>12, <2>14 DEF Served
  <1>. QED BY <1>3, <1>4 DEF SendInitial

\* The first event of the buffer is sent behind what was sent before.
LEMMA SendEventServed ==
  ASSUME StreamTypeOK, NEW s \in Streams, Served(s), SendEvent(s)
  PROVE  Served(s)'
  <1>1. /\ pc[s] = "streaming" /\ buffer[s] # <<>>
        /\ got'[s] = Append(got[s], Head(buffer[s])) /\ buffer'[s] = Tail(buffer[s])
        /\ UNCHANGED <<project, published, initial, store, pending, missed, channel, pc>>
    BY DEF SendEvent, StreamTypeOK, storeVars
  <1>2. PICK c \in 0..Len(got[s]) : CutAt(s, c)
    BY DEF Served
  <1>3. CutAt(s, c)' /\ Len(got[s])' = Len(got[s]) + 1
    BY <1>1, <1>2, CutSendEvent
  <1>4. got[s] \in Seq(Post) /\ buffer[s] \in Seq(Post) /\ Len(got[s]) \in Nat
    BY DEF StreamTypeOK
  <1>5. (\E k \in 0..Len(got[s]) : CutAt(s, k))'
    <2>1. c \in (0..Len(got[s]))'
      BY <1>3, <1>4
    <2>. QED BY <1>3, <2>1
  <1>6. /\ Head(buffer[s]) \in Post
        /\ Elems(buffer[s]) = {Head(buffer[s])} \cup Elems(buffer'[s])
    BY <1>1, <1>4, TailElems
  <1>7. Elems(got'[s]) = Elems(got[s]) \cup {Head(buffer[s])}
    BY <1>1, <1>4, <1>6, AppendElems
  <1>8. OnItsWay(s)' = OnItsWay(s)
    BY <1>1, <1>6, <1>7 DEF OnItsWay, Sent, Elems
  <1>9. channel'[s] = "open" => Artifacts(project[s])' \subseteq OnItsWay(s)'
    BY <1>1, <1>8 DEF Served, Artifacts
  <1>10. StageInv(s)'
    BY <1>1 DEF Served, StageInv
  <1>. QED BY <1>1, <1>5, <1>9, <1>10 DEF Served

\* Counting, subscribing and leaving send nothing.
LEMMA StageMoved ==
  ASSUME NEW s \in Streams, Served(s), UNCHANGED <<project, published, store, pending>>,
         got'[s] = got[s], buffer'[s] = buffer[s], initial'[s] = initial[s],
         missed'[s] = missed[s],
         \/ /\ pc[s] = "snapshot" /\ initial[s] = <<>> /\ pc'[s] = "counted"
            /\ channel'[s] = channel[s]
         \/ pc[s] = "counted" /\ pc'[s] = "streaming"
         \/ pc'[s] = "leaving" /\ (channel'[s] = "open" => channel[s] = "open")
         \/ pc'[s] = "ended" /\ channel'[s] = channel[s]
  PROVE  Served(s)'
  <1>1. \A c : CutAt(s, c) => CutAt(s, c)'
    BY CutKept
  <1>2. (\E c \in 0..Len(got[s]) : CutAt(s, c))'
    BY <1>1 DEF Served
  <1>3. StageInv(s)'
    BY DEF Served, StageInv
  <1>4. OnItsWay(s)' = OnItsWay(s) /\ Artifacts(project[s])' = Artifacts(project[s])
    BY DEF OnItsWay, Sent, Artifacts
  <1>. QED BY <1>2, <1>3, <1>4 DEF Served

\* A published post goes to the end of a stream's buffer, or nowhere near it.
LEMMA PublishServed ==
  ASSUME EventInv, BusTypeOK, BusInv, NEW post \in pending, Publish(post),
         NEW s \in Streams
  PROVE  Served(s)'
  <1> DEFINE p == post.project
             room == {t \in subs[p] : Len(buffer[t]) < BufferSize}
  <1>1. /\ post \in Post /\ p \in Projects /\ Distinct(published[p])
        /\ published[p] \in Seq(Post) /\ post \notin Elems(published[p])
        /\ project[s] \in Projects
    <2>1. post \in Post /\ post \in pending
      BY PostsTyped DEF EventInv, PublishedInv
    <2>2. post.project \in Projects
      BY <2>1 DEF Post
    <2>. QED BY <2>1, <2>2 DEF EventInv, PublishedInv, BusTypeOK
  <1>2. /\ UNCHANGED <<project, store, channel, pc, initial, got>>
        /\ pending' = pending \ {post}
        /\ published'[p] = Append(published[p], post)
        /\ \A q \in Projects \ {p} : published'[q] = published[q]
        /\ buffer'[s] = IF s \in room THEN Append(buffer[s], post) ELSE buffer[s]
    BY <1>1 DEF Publish, streamVars, EventInv, PublishedInv
  <1>3. /\ missed[s] \subseteq missed'[s]
        /\ pc[s] \in {"snapshot", "counted"} /\ project[s] = p => post \in missed'[s]
        /\ s \in subs[p] \ room => post \in missed'[s]
    BY DEF Publish
  <1>4. s \in room => project[s] = p /\ pc[s] = "streaming"
    BY <1>1 DEF BusInv
  <1>5. got[s] \in Seq(Post) /\ buffer[s] \in Seq(Post)
    BY DEF EventInv, StreamTypeOK
  <1>6. PICK c \in 0..Len(got[s]) : CutAt(s, c)
    BY DEF EventInv, Served
  <1> DEFINE here == published[project[s]]
             next == published'[project[s]]
  <1>7. /\ Elems(here) \subseteq Elems(next)
        /\ \A x \in Elems(here) : Place(next, x) = Place(here, x)
    <2>1. CASE project[s] = p
      <3>1. /\ next = Append(here, post) /\ here \in Seq(Post) /\ Distinct(here)
            /\ post \notin Elems(here)
        BY <1>1, <1>2, <2>1
      <3> HIDE DEF here, next, p
      <3>. QED BY <1>1, <3>1, AppendElems, PlacesKept
    <2>2. CASE project[s] # p
      BY <1>1, <1>2, <2>2
    <2>. QED BY <2>1, <2>2
  <1>8. CutAt(s, c)'
    <2>1. ASSUME s \notin room PROVE CutAt(s, c)'
      <3>1. Live(s)' = Live(s)
        BY <1>2, <2>1 DEF Live
      <3> HIDE DEF here, next
      <3>2. \A m \in (c + 1)..Len(Live(s)) : Live(s)[m] \in Elems(here)
        BY <1>6 DEF CutAt, here
      <3>3. ASSUME NEW m \in (c + 1)..Len(Live(s))
            PROVE  /\ Live(s)[m] \in Elems(next)
                   /\ \A n \in (c + 1)..(m - 1) : Place(next, Live(s)[n]) < Place(next, Live(s)[m])
        <4>1. \A n \in (c + 1)..(m - 1) : n \in (c + 1)..Len(Live(s))
          BY <1>6, <1>5, LiveElems DEF EventInv
        <4>2. \A n \in (c + 1)..(m - 1) : Place(here, Live(s)[n]) < Place(here, Live(s)[m])
          BY <1>6 DEF CutAt, here
        <4>. QED BY <1>7, <3>2, <4>1, <4>2
      <3>. QED BY <1>2, <1>6, <3>1, <3>3 DEF CutAt, next
    <2>2. ASSUME s \in room PROVE CutAt(s, c)'
      <3>1. project[s] = p /\ next = Append(here, post) /\ buffer'[s] = Append(buffer[s], post)
        BY <1>2, <1>4, <2>2
      <3>2. /\ here \in Seq(Post) /\ Distinct(here) /\ post \notin Elems(here)
            /\ post \in Elems(next)
        BY <1>1, <3>1, AppendElems
      <3>3. \A x \in Elems(here) : Place(next, x) = Place(here, x) /\ Place(here, x) < Place(next, post)
        BY <1>1, <3>1, <3>2, PlacesKept
      <3>4. Live(s)' = Append(Live(s), post)
        <4>1. Live(s)' = got[s] \o Append(buffer[s], post)
          BY <1>2, <3>1 DEF Live
        <4>. QED BY <1>1, <1>5, <4>1, AppendConcat, Zenon DEF Live
      <3>5. Live(s) \in Seq(Post) /\ Len(Live(s)) \in Nat /\ Len(got[s]) \in Nat
            /\ Len(got[s]) <= Len(Live(s))
        BY LiveElems, Zenon DEF EventInv
      <3>6. /\ Len(Live(s)') = Len(Live(s)) + 1
            /\ \A n \in 1..Len(Live(s)) : Live(s)'[n] = Live(s)[n]
            /\ Live(s)'[Len(Live(s)) + 1] = post
        BY <1>1, <3>4, <3>5, AppendElems
      <3> HIDE DEF here, next
      <3>7. \A m \in (c + 1)..Len(Live(s)) : Live(s)[m] \in Elems(here)
        BY <1>6 DEF CutAt, here
      <3>8. ASSUME NEW m \in (c + 1)..Len(Live(s)')
            PROVE  /\ Live(s)'[m] \in Elems(next)
                   /\ \A n \in (c + 1)..(m - 1) :
                         Place(next, Live(s)'[n]) < Place(next, Live(s)'[m])
        <4>1. CASE m \in (c + 1)..Len(Live(s))
          <5>1. \A n \in (c + 1)..(m - 1) : n \in (c + 1)..Len(Live(s))
            BY <3>5, <4>1
          <5>2. \A n \in (c + 1)..(m - 1) : Place(here, Live(s)[n]) < Place(here, Live(s)[m])
            BY <1>6, <4>1 DEF CutAt, here
          <5>3. \A n \in (c + 1)..Len(Live(s)) : Live(s)'[n] = Live(s)[n]
            BY <1>6, <3>5, <3>6
          <5>. QED BY <1>7, <3>7, <4>1, <5>1, <5>2, <5>3
        <4>2. CASE m = Len(Live(s)) + 1
          <5>1. \A n \in (c + 1)..(m - 1) :
                  n \in (c + 1)..Len(Live(s)) /\ Live(s)'[n] = Live(s)[n]
            BY <1>6, <3>5, <3>6, <4>2
          <5>. QED BY <3>2, <3>3, <3>6, <3>7, <4>2, <5>1
        <4>. QED BY <1>6, <3>5, <3>6, <4>1, <4>2
      <3>9. ASSUME NEW m \in 1..c
            PROVE  /\ got'[s][m].kind = "artifact"
                   /\ \A n \in 1..(m - 1) : got'[s][n] # got'[s][m]
        BY <1>2, <1>6 DEF CutAt
      <3>. QED BY <1>2, <3>8, <3>9, Zenon DEF CutAt, next
    <2>. QED BY <2>1, <2>2
  <1>9. (\E k \in 0..Len(got[s]) : CutAt(s, k))'
    BY <1>2, <1>6, <1>8
  <1>10. StageInv(s)'
    <2>1. pc[s] = "snapshot" => CutAt(s, Len(got[s]))'
      <3>1. ASSUME pc[s] = "snapshot" PROVE CutAt(s, Len(got[s]))'
        <4>1. /\ CutAt(s, Len(got[s])) /\ buffer'[s] = <<>> /\ buffer[s] = <<>>
          BY <1>2, <1>4, <3>1 DEF EventInv, Served, StageInv
        <4>2. Live(s)' = got[s] /\ got'[s] = got[s]
          BY <1>2, <1>5, <4>1, ConcatEmptySeq DEF Live
        <4>3. (Len(got[s]) + 1)..Len(got[s]) = {}
          BY <1>5
        <4>. QED BY <4>1, <4>2, <4>3 DEF CutAt
      <3>. QED BY <3>1
    <2>2. Sent(s)' = Sent(s)
      BY <1>2 DEF Sent
    <2>. QED BY <1>2, <1>4, <2>1, <2>2 DEF EventInv, Served, StageInv
  <1>11. ASSUME pc'[s] \in {"snapshot", "counted"} \/ channel'[s] = "open"
         PROVE  Artifacts(project[s])' \subseteq OnItsWay(s)'
    <2>1. Artifacts(project[s])' = Artifacts(project[s]) /\ Sent(s)' = Sent(s) /\ initial' = initial
      BY <1>2 DEF Artifacts, Sent
    <2>2. Artifacts(project[s]) \subseteq OnItsWay(s)
      BY <1>2, <1>11 DEF EventInv, Served
    <2>3. Elems(buffer[s]) \subseteq Elems(buffer'[s])
          /\ (s \in room => post \in Elems(buffer'[s]))
      BY <1>1, <1>2, <1>5, AppendElems
    <2>4. OnItsWay(s) \ {post} \subseteq OnItsWay(s)'
      BY <1>2, <1>3, <2>1, <2>3 DEF OnItsWay
    <2>5. ASSUME post \in Artifacts(project[s]) PROVE post \in OnItsWay(s)'
      <3>1. p = project[s]
        <4>1. PICK n \in 1..Len(store[project[s]]["artifact"]) :
                store[project[s]]["artifact"][n] = post
          BY <2>5 DEF Artifacts
        <4>2. project[s] \in Projects /\ "artifact" \in Kind
          BY <1>1 DEF Kind
        <4>3. store[project[s]]["artifact"][n].project = project[s]
          BY <4>2 DEF EventInv, StoreInv
        <4>. QED BY <4>1, <4>3
      <3>2. channel[s] = "open" => s \in subs[p]
        BY <3>1 DEF EventInv, OpenInv
      <3>. QED BY <1>2, <1>3, <1>11, <2>3, <3>1, <3>2 DEF OnItsWay
    <2>. QED BY <2>1, <2>2, <2>4, <2>5
  <1>. QED BY <1>9, <1>10, <1>11 DEF Served

-----------------------------------------------------------------------------
(* The rest of the invariant, and its steps. *)

\* A post that is stored has an id of its own.
LEMMA StorePostInv ==
  ASSUME EventInv, NEW p \in Projects, NEW k \in Kind, StorePost(p, k)
  PROVE  /\ StoreInv' /\ PublishedInv' /\ pending \subseteq pending'
         /\ \A q \in Projects : Artifacts(q)' \subseteq Artifacts(q) \cup pending'
  <1> DEFINE post == [id |-> Cardinality(Posts) + 1, kind |-> k, project |-> p]
  <1>1. /\ StoreInv /\ PublishedInv /\ Cardinality(Posts) < MaxPosts
        /\ store' = [store EXCEPT ![p][k] = Append(@, post)]
        /\ pending' = pending \cup {post} /\ published' = published
    BY DEF StorePost, EventInv
  <1>2. Cardinality(Posts) \in Nat
    BY <1>1, FS_CardinalityType DEF StoreInv
  <1>3. post \in Post /\ post \notin Posts /\ post.id = Cardinality(Posts) + 1
        /\ post.kind = k /\ post.project = p
    BY <1>1, <1>2, BrokerAssumption DEF Post, StoreInv
  <1> HIDE DEF post
  <1>4. /\ store'[p][k] = Append(store[p][k], post) /\ store[p][k] \in Seq(Post)
        /\ \A q \in Projects, h \in Kind : <<q, h>> # <<p, k>> => store'[q][h] = store[q][h]
        /\ store' \in [Projects -> [Kind -> Seq(Post)]]
    BY <1>1, <1>3 DEF StoreInv
  <1>5. /\ Len(store[p][k]) \in Nat /\ Len(store'[p][k]) = Len(store[p][k]) + 1
        /\ \A n \in 1..Len(store[p][k]) : store'[p][k][n] = store[p][k][n]
        /\ store'[p][k][Len(store[p][k]) + 1] = post
        /\ Elems(store'[p][k]) = Elems(store[p][k]) \cup {post}
    BY <1>3, <1>4, AppendElems
  <1>6. \A e : e \in Posts <=> \E q \in Projects, h \in Kind : e \in Elems(store[q][h])
    <2>1. \A e : e \in Posts <=> e \in Post /\ \E q \in Projects, h \in Kind :
                    \E n \in 1..Len(store[q][h]) : store[q][h][n] = e
      BY DEF Posts, Post
    <2>2. ASSUME NEW q \in Projects, NEW h \in Kind, NEW n \in 1..Len(store[q][h])
          PROVE  store[q][h][n] \in Post
      BY <1>1 DEF StoreInv
    <2>. QED BY <2>1, <2>2 DEF Elems
  <1>7. \A e : e \in Posts' <=> \E q \in Projects, h \in Kind : e \in Elems(store'[q][h])
    <2>1. \A e : e \in Posts' <=> e \in Post /\ \E q \in Projects, h \in Kind :
                    \E n \in 1..Len(store'[q][h]) : store'[q][h][n] = e
      BY DEF Posts, Post
    <2>2. ASSUME NEW q \in Projects, NEW h \in Kind, NEW n \in 1..Len(store'[q][h])
          PROVE  store'[q][h][n] \in Post
      BY <1>4
    <2>. QED BY <2>1, <2>2 DEF Elems
  <1>8. Posts' = Posts \cup {post}
    <2>1. \A q \in Projects, h \in Kind :
            /\ Elems(store[q][h]) \subseteq Elems(store'[q][h])
            /\ Elems(store'[q][h]) \subseteq Elems(store[q][h]) \cup {post}
      BY <1>4, <1>5
    <2>2. post \in Posts'
      <3>1. post \in Elems(store'[p][k])
        BY <1>5
      <3>. QED BY <1>7, <3>1, Zenon
    <2>3. Posts \subseteq Posts'
      BY <1>6, <1>7, <2>1
    <2>4. Posts' \subseteq Posts \cup {post}
      BY <1>6, <1>7, <2>1
    <2>. QED BY <2>2, <2>3, <2>4
  <1>9. IsFiniteSet(Posts') /\ Cardinality(Posts') = Cardinality(Posts) + 1
    BY <1>1, <1>3, <1>8, FS_AddElement DEF StoreInv
  <1>15. ASSUME NEW e \in Posts PROVE e.id \in Nat /\ e.id < Cardinality(Posts) + 1
    <2>1. e \in Post /\ e.id <= Cardinality(Posts)
      BY <1>1, PostsTyped DEF StoreInv
    <2>2. e.id \in Nat
      BY <2>1, BrokerAssumption DEF Post
    <2>. QED BY <1>2, <2>1, <2>2
  <1>10. \A e \in Posts' : e.id <= Cardinality(Posts')
    BY <1>2, <1>3, <1>8, <1>9, <1>15
  <1>11. ASSUME NEW q \in Projects, NEW h \in Kind, NEW n \in 1..Len(store'[q][h])
         PROVE  /\ store'[q][h][n].kind = h /\ store'[q][h][n].project = q
                /\ \A m \in 1..(n - 1) : store'[q][h][m].id < store'[q][h][n].id
    <2>1. CASE q = p /\ h = k /\ n = Len(store[p][k]) + 1
      <3>1. \A m \in 1..(n - 1) : m \in 1..Len(store[p][k]) /\ store'[p][k][m] = store[p][k][m]
        BY <1>5, <2>1
      <3>2. Elems(store[p][k]) \subseteq Posts
        BY <1>6, Zenon
      <3>3. ASSUME NEW m \in 1..(n - 1) PROVE store[p][k][m].id < Cardinality(Posts) + 1
        <4>1. store[p][k][m] \in Posts
          BY <3>1, <3>2 DEF Elems
        <4>. QED BY <1>15, <4>1
      <3>. QED BY <1>3, <1>5, <2>1, <3>1, <3>3
    <2>2. CASE q = p /\ h = k /\ n # Len(store[p][k]) + 1
      <3>1. n \in 1..Len(store[p][k]) /\ \A m \in 1..(n - 1) : m \in 1..Len(store[p][k])
        BY <1>5, <2>2
      <3>. QED BY <1>1, <1>5, <2>2, <3>1 DEF StoreInv
    <2>3. CASE <<q, h>> # <<p, k>>
      <3>1. store'[q][h] = store[q][h]
        BY <1>4, <2>3
      <3>2. \A i \in 1..Len(store[q][h]) :
              /\ store[q][h][i].kind = h /\ store[q][h][i].project = q
              /\ \A m \in 1..(i - 1) : store[q][h][m].id < store[q][h][i].id
        BY <1>1 DEF StoreInv
      <3>. QED BY <3>1, <3>2
    <2>. QED BY <2>1, <2>2, <2>3
  <1>12. StoreInv'
    BY <1>4, <1>9, <1>10, <1>11 DEF StoreInv
  <1>13. PublishedInv'
    BY <1>1, <1>3, <1>8 DEF PublishedInv
  <1>14. ASSUME NEW q \in Projects
         PROVE  Artifacts(q)' \subseteq Artifacts(q) \cup pending'
    <2>1. Artifacts(q) = Elems(store[q]["artifact"]) /\ Artifacts(q)' = Elems(store'[q]["artifact"])
      BY DEF Artifacts, Elems
    <2>2. "artifact" \in Kind
      BY DEF Kind
    <2>. QED BY <1>1, <1>4, <1>5, <2>1, <2>2
  <1>. QED BY <1>1, <1>12, <1>13, <1>14

\* A post that is published leaves pending for the sequence of its project.
LEMMA PublishInv ==
  ASSUME EventInv, NEW post \in pending, Publish(post)
  PROVE  StoreInv' /\ PublishedInv'
  <1>1. /\ StoreInv /\ PublishedInv /\ store' = store /\ pending' = pending \ {post}
        /\ published' = [published EXCEPT ![post.project] = Append(@, post)]
    BY DEF Publish, EventInv
  <1>2. post \in Posts /\ post \in Post /\ post.project \in Projects
    BY <1>1, PostsTyped DEF PublishedInv, Post
  <1>3. Posts' = Posts
    BY <1>1 DEF Posts
  <1>4. StoreInv'
    BY <1>1, <1>3 DEF StoreInv
  <1>5. ASSUME NEW p \in Projects
        PROVE  /\ Distinct(published'[p]) /\ Elems(published'[p]) \subseteq Posts \ pending'
    <2>1. CASE p = post.project
      <3>1. /\ published'[p] = Append(published[p], post) /\ published[p] \in Seq(Post)
            /\ Distinct(published[p]) /\ post \notin Elems(published[p])
            /\ Elems(published[p]) \subseteq Posts \ pending
        BY <1>1, <2>1 DEF PublishedInv
      <3>2. Elems(published'[p]) = Elems(published[p]) \cup {post}
        BY <1>2, <3>1, AppendElems
      <3>3. Distinct(published'[p])
        BY <1>2, <3>1, PlacesKept
      <3>. QED BY <1>1, <1>2, <3>1, <3>2, <3>3
    <2>2. CASE p # post.project
      BY <1>1, <2>2 DEF PublishedInv
    <2>. QED BY <2>1, <2>2
  <1>6. published' \in [Projects -> Seq(Post)]
    BY <1>1, <1>2 DEF PublishedInv
  <1>7. pending' \subseteq Posts'
    BY <1>1, <1>3 DEF PublishedInv
  <1>. QED BY <1>3, <1>4, <1>5, <1>6, <1>7 DEF PublishedInv

\* A new broker has promised nothing.
LEMMA InitEvents == Init => EventInv
  <1> SUFFICES ASSUME Init PROVE EventInv
    OBVIOUS
  <1>1. Posts = {} /\ IsFiniteSet(Posts)
    <2>1. Posts = {}
      BY DEF Init, Posts
    <2>. QED BY <2>1, FS_EmptySet
  <1>2. StoreInv
    BY <1>1 DEF Init, StoreInv
  <1>3. PublishedInv
    BY DEF Init, PublishedInv, Distinct, Elems
  <1>4. StreamTypeOK /\ OpenInv
    BY DEF Init, StreamTypeOK, OpenInv
  <1>5. ASSUME NEW s \in Streams PROVE Served(s)
    <2>1. StageInv(s)
      BY DEF Init, StageInv
    <2>2. Len(Live(s)) = 0
      BY ConcatEmptySeq DEF Init, Live
    <2>3. CutAt(s, 0) /\ Len(got[s]) = 0
      BY <2>2 DEF Init, CutAt
    <2>4. pc[s] = "new" /\ channel[s] = "none"
      BY DEF Init
    <2>. QED BY <2>1, <2>3, <2>4 DEF Served
  <1>. QED BY <1>2, <1>3, <1>4, <1>5 DEF Init, EventInv

\* A step that neither stores nor publishes leaves the posts as they are.
LEMMA PostsKept ==
  ASSUME StoreInv, PublishedInv, UNCHANGED <<store, pending, published>>
  PROVE  StoreInv' /\ PublishedInv'
  <1>1. Posts' = Posts
    BY DEF Posts
  <1>. QED BY <1>1 DEF StoreInv, PublishedInv

\* What a handler does is about its own stream.
LEMMA StreamEvents ==
  ASSUME Inv, EventInv, NEW s \in Streams, StreamStep(s) \/ ClientGone(s)
  PROVE  EventInv'
  <1> USE DEF storeVars, busVars
  <1>1. /\ StoreInv /\ PublishedInv /\ StreamTypeOK /\ OpenInv /\ BusTypeOK /\ BusInv
        /\ Served(s) /\ project[s] \in Projects
    BY DEF EventInv, Inv, BusTypeOK
  <1>2. UNCHANGED <<phase, store, pending, published, project, missed>>
    <2>1. CASE Leave(s)
      BY <2>1 DEF Leave
    <2>2. CASE ~Leave(s)
      BY <2>2 DEF StreamStep, ClientGone, ChannelClosed, Snapshot, SendInitial, CountConnection,
                  Subscribe, SendEvent, Uncount
    <2>. QED BY <2>1, <2>2
  <1>3. /\ StreamTypeOK' /\ OpenInv' /\ Served(s)'
        /\ \A t \in Streams \ {s} :
              /\ pc'[t] = pc[t] /\ got'[t] = got[t] /\ buffer'[t] = buffer[t]
              /\ initial'[t] = initial[t] /\ channel'[t] = channel[t]
    <2>1. CASE Snapshot(s)
      <3>1. Served(s)'
        BY <1>1, <2>1, SnapshotServed DEF BusTypeOK
      <3>2. StreamTypeOK' /\ OpenInv'
        BY <1>1, <2>1 DEF Snapshot, StreamTypeOK, OpenInv, StoreInv, Kind
      <3>. QED BY <1>1, <2>1, <3>1, <3>2 DEF Snapshot, BusTypeOK, StreamTypeOK
    <2>2. CASE SendInitial(s)
      <3>1. Served(s)'
        BY <1>1, <2>2, SendInitialServed DEF BusTypeOK
      <3>2. initial[s] # <<>> => Head(initial[s]) \in Post /\ Tail(initial[s]) \in Seq(Post)
        BY <1>1, TailElems DEF StreamTypeOK
      <3>3. StreamTypeOK'
        <4>1. got[s] \in Seq(Post) /\ initial[s] # <<>>
          BY <1>1, <2>2 DEF SendInitial, StreamTypeOK
        <4>2. Append(got[s], Head(initial[s])) \in Seq(Post)
          BY <3>2, <4>1, AppendElems
        <4>3. got' \in [Streams -> Seq(Post)] /\ initial' \in [Streams -> Seq(Post)]
          BY <1>1, <2>2, <3>2, <4>1, <4>2 DEF SendInitial, StreamTypeOK
        <4>. QED BY <1>1, <2>2, <4>3 DEF SendInitial, StreamTypeOK
      <3>4. OpenInv'
        BY <1>1, <2>2 DEF SendInitial, OpenInv
      <3>. QED BY <1>1, <2>2, <3>1, <3>3, <3>4 DEF SendInitial, BusTypeOK, StreamTypeOK
    <2>3. CASE CountConnection(s)
      <3>1. pc'[s] = "counted" /\ UNCHANGED <<initial, got, buffer, channel, subs, mapping>>
        BY <1>1, <2>3 DEF CountConnection, BusTypeOK
      <3>2. Served(s)'
        BY <1>1, <1>2, <2>3, <3>1, StageMoved DEF CountConnection
      <3>. QED BY <1>1, <1>2, <2>3, <3>1, <3>2
             DEF CountConnection, BusTypeOK, StreamTypeOK, OpenInv
    <2>4. CASE Subscribe(s)
      <3>1. pc[s] = "counted" /\ pc'[s] = "streaming" /\ UNCHANGED <<initial, got, buffer>>
        BY <1>1, <2>4 DEF Subscribe, BusTypeOK
      <3>2. Served(s)'
        BY <1>1, <1>2, <3>1, StageMoved
      <3>3. OpenInv'
        BY <1>1, <2>4 DEF Subscribe, OpenInv, BusTypeOK
      <3>. QED BY <1>1, <1>2, <2>4, <3>1, <3>2, <3>3 DEF Subscribe, BusTypeOK, StreamTypeOK
    <2>5. CASE SendEvent(s)
      <3>1. Served(s)'
        BY <1>1, <2>5, SendEventServed
      <3>2. buffer[s] # <<>> => Head(buffer[s]) \in Post /\ Tail(buffer[s]) \in Seq(Post)
        BY <1>1, TailElems DEF StreamTypeOK
      <3>3. StreamTypeOK'
        BY <1>1, <2>5, <3>2 DEF SendEvent, StreamTypeOK
      <3>4. OpenInv'
        BY <1>1, <2>5 DEF SendEvent, OpenInv
      <3>. QED BY <1>1, <2>5, <3>1, <3>3, <3>4 DEF SendEvent, BusTypeOK, StreamTypeOK
    <2>6. CASE Leave(s)
      <3>1. /\ pc'[s] = "leaving" /\ UNCHANGED <<initial, got, buffer>>
            /\ \A t \in Streams \ {s} : pc'[t] = pc[t] /\ channel'[t] = channel[t]
            /\ channel'[s] = "open" => channel[s] = "open"
        BY <1>1, <2>6 DEF Leave, Unsubscribe, BusTypeOK
      <3>2. Served(s)'
        BY <1>1, <1>2, <3>1, StageMoved
      <3>3. OpenInv'
        BY <1>1, <2>6 DEF Leave, Unsubscribe, OpenInv, BusTypeOK
      <3>. QED BY <1>1, <1>2, <3>1, <3>2, <3>3 DEF StreamTypeOK
    <2>7. CASE Uncount(s)
      <3>1. pc'[s] = "ended" /\ UNCHANGED <<initial, got, buffer, channel, subs, mapping>>
        BY <1>1, <2>7 DEF Uncount, BusTypeOK
      <3>2. Served(s)'
        BY <1>1, <1>2, <3>1, StageMoved
      <3>. QED BY <1>1, <1>2, <2>7, <3>1, <3>2 DEF Uncount, BusTypeOK, StreamTypeOK, OpenInv
    <2>. QED BY <2>1, <2>2, <2>3, <2>4, <2>5, <2>6, <2>7 DEF StreamStep, ClientGone, ChannelClosed
  <1>4. ASSUME NEW t \in Streams \ {s} PROVE Served(t)'
    <2>1. Served(t) /\ Artifacts(project[t])' = Artifacts(project[t])
      BY <1>2 DEF EventInv, Artifacts
    <2>. QED BY <1>2, <1>3, <2>1, ServedKept
  <1>5. StoreInv' /\ PublishedInv'
    BY <1>1, <1>2, PostsKept
  <1>. QED BY <1>2, <1>3, <1>4, <1>5 DEF EventInv

\* A step that leaves streams, bus and publications as they are serves them as before.
LEMMA QuietEvents ==
  ASSUME EventInv, UNCHANGED <<project, published, pc, got, buffer, initial, missed>>,
         \A s \in Streams : channel'[s] = "open" => channel[s] = "open",
         pending \subseteq pending',
         \A s \in Streams : Artifacts(project[s])' \subseteq Artifacts(project[s]) \cup pending'
  PROVE  StreamTypeOK' /\ \A s \in Streams : Served(s)'
  <1>1. StreamTypeOK'
    BY DEF EventInv, StreamTypeOK
  <1>2. ASSUME NEW s \in Streams PROVE Served(s)'
    <2>1. Served(s)
      BY DEF EventInv
    <2>. QED BY <2>1, ServedKept
  <1>. QED BY <1>1, <1>2

\* Every step of the broker keeps its promises.
LEMMA NextEvents == Inv /\ EventInv /\ [Next]_vars => EventInv'
  <1> SUFFICES ASSUME Inv, EventInv, [Next]_vars PROVE EventInv'
    OBVIOUS
  <1> USE DEF storeVars, busVars, streamVars
  <1>1. ASSUME NEW p \in Projects, NEW k \in Kind, StorePost(p, k) PROVE EventInv'
    <2>1. StoreInv' /\ PublishedInv' /\ pending \subseteq pending'
          /\ \A q \in Projects : Artifacts(q)' \subseteq Artifacts(q) \cup pending'
      BY <1>1, StorePostInv
    <2>2. UNCHANGED <<phase, published, busVars, streamVars, missed>>
      BY <1>1 DEF StorePost
    <2>3. \A s \in Streams : Artifacts(project[s])' \subseteq Artifacts(project[s]) \cup pending'
      BY <2>1, <2>2 DEF Inv, BusTypeOK, Artifacts
    <2>4. StreamTypeOK' /\ \A s \in Streams : Served(s)'
      BY <2>1, <2>2, <2>3, QuietEvents
    <2>5. OpenInv'
      BY <2>2 DEF EventInv, OpenInv
    <2>. QED BY <2>1, <2>2, <2>4, <2>5 DEF EventInv
  <1>2. ASSUME NEW post \in pending, Publish(post) PROVE EventInv'
    <2>1. StoreInv' /\ PublishedInv' /\ \A s \in Streams : Served(s)'
      BY <1>2, PublishInv, PublishServed DEF Inv
    <2>2. post \in Post
      BY PostsTyped DEF EventInv, PublishedInv
    <2>3. \A s \in Streams : buffer[s] \in Seq(Post) /\ Append(buffer[s], post) \in Seq(Post)
      BY <2>2, AppendElems DEF EventInv, StreamTypeOK
    <2>4. StreamTypeOK'
      BY <1>2, <2>2, <2>3 DEF Publish, EventInv, StreamTypeOK
    <2>5. OpenInv' /\ phase' = phase
      BY <1>2 DEF Publish, EventInv, OpenInv
    <2>. QED BY <2>1, <2>4, <2>5 DEF EventInv
  <1>3. ASSUME NEW s \in Streams, StreamStep(s) \/ ClientGone(s) PROVE EventInv'
    BY <1>3, StreamEvents
  <1>4. CASE CloseAll \/ Shutdown \/ UNCHANGED vars
    <2>1. /\ UNCHANGED <<store, pending, published, pc, project, initial, got, buffer, missed>>
          /\ \A s \in Streams : channel'[s] = "open" => channel[s] = "open"
          /\ phase' \in {"up", "busClosed", "down"}
      BY <1>4 DEF CloseAll, Shutdown, vars, EventInv, Inv, BusTypeOK
    <2>2. \A s \in Streams : Artifacts(project[s])' = Artifacts(project[s])
      BY <2>1 DEF Artifacts
    <2>3. StoreInv' /\ PublishedInv' /\ StreamTypeOK' /\ \A s \in Streams : Served(s)'
      BY <2>1, <2>2, PostsKept, QuietEvents DEF EventInv
    <2>4. OpenInv'
      BY <1>4 DEF CloseAll, Shutdown, vars, EventInv, OpenInv
    <2>. QED BY <2>1, <2>3, <2>4 DEF EventInv
  <1>. QED BY <1>1, <1>2, <1>3, <1>4 DEF Next

\* The promises hold in every reachable state.
LEMMA SpecEvents == Spec => []EventInv
  BY InitEvents, NextEvents, SpecInv, PTL DEF Spec

-----------------------------------------------------------------------------
(* What the promises come to. *)

\* Behind the cut of a stream no event is there twice.
LEMMA BehindCut ==
  ASSUME PublishedInv, StreamTypeOK, NEW s \in Streams, project[s] \in Projects,
         NEW c \in 0..Len(got[s]), CutAt(s, c),
         NEW m \in (c + 1)..Len(Live(s)), NEW n \in (c + 1)..Len(Live(s)), m < n
  PROVE  /\ Place(published[project[s]], Live(s)[m]) < Place(published[project[s]], Live(s)[n])
         /\ Live(s)[m] # Live(s)[n]
  <1> DEFINE q == published[project[s]]
  <1>1. Len(Live(s)) \in Nat /\ Len(got[s]) \in Nat
    BY LiveElems
  <1>2. m \in (c + 1)..(n - 1)
    BY <1>1
  <1>3. Place(q, Live(s)[m]) < Place(q, Live(s)[n])
    BY <1>2 DEF CutAt
  <1>4. q \in Seq(Post) /\ Distinct(q)
    BY DEF PublishedInv
  <1>5. PICK k \in 1..Len(q) : q[k] = Live(s)[m]
    BY DEF CutAt, Elems
  <1>6. Place(q, Live(s)[m]) = k /\ k \in Nat
    BY <1>4, <1>5, PlaceOf
  <1>. QED BY <1>3, <1>6

\* A set without two members.
LEMMA OneAtMost ==
  ASSUME NEW S, \A m, n \in S : m = n
  PROVE  IsFiniteSet(S) /\ Cardinality(S) \in {0, 1} /\ (S = {} => Cardinality(S) = 0)
  <1>1. CASE S = {}
    BY <1>1, FS_EmptySet
  <1>2. ASSUME NEW m \in S PROVE IsFiniteSet({m}) /\ Cardinality({m}) = 1 /\ S = {m}
    <2>1. S = {m}
      OBVIOUS
    <2>. QED BY <2>1, FS_Singleton
  <1>. QED BY <1>1, <1>2

\* Of one event a stream got no more than two before and behind its cut.
LEMMA TwiceAtMost == EventInv /\ BusTypeOK => AtMostTwice
  <1> SUFFICES ASSUME EventInv, BusTypeOK, NEW s \in Streams, NEW e \in Sent(s)
               PROVE  Cardinality({n \in 1..Len(got[s]) : got[s][n] = e}) <=
                          (IF e.kind = "artifact" THEN 2 ELSE 1)
    BY DEF AtMostTwice
  <1> DEFINE at == {n \in 1..Len(got[s]) : got[s][n] = e}
  <1>1. PICK c \in 0..Len(got[s]) : CutAt(s, c)
    BY DEF EventInv, Served
  <1>2. /\ Len(got[s]) \in Nat /\ Len(Live(s)) \in Nat /\ Len(got[s]) <= Len(Live(s))
        /\ \A n \in 1..Len(got[s]) : Live(s)[n] = got[s][n]
    BY LiveElems DEF EventInv
  <1>3. /\ PublishedInv /\ StreamTypeOK /\ project[s] \in Projects
    BY DEF EventInv, BusTypeOK
  <1>4. ASSUME NEW m \in at \cap (1..c), NEW n \in at \cap (1..c) PROVE m = n
    <2>1. CASE m < n
      <3>1. m \in 1..(n - 1)
        BY <1>2, <2>1
      <3>. QED BY <1>1, <3>1 DEF CutAt
    <2>2. CASE n < m
      <3>1. n \in 1..(m - 1)
        BY <1>2, <2>2
      <3>. QED BY <1>1, <3>1 DEF CutAt
    <2>. QED BY <1>2, <2>1, <2>2
  <1>5. ASSUME NEW m \in at \ (1..c), NEW n \in at \ (1..c) PROVE m = n
    <2>1. /\ m \in (c + 1)..Len(Live(s)) /\ n \in (c + 1)..Len(Live(s))
          /\ Live(s)[m] = e /\ Live(s)[n] = e
      BY <1>1, <1>2
    <2>2. ~(m < n) /\ ~(n < m)
      BY <1>1, <1>3, <2>1, BehindCut
    <2>. QED BY <1>2, <2>2
  <1>6. at \cap (1..c) # {} => e.kind = "artifact"
    BY <1>1 DEF CutAt
  <1> HIDE DEF at
  <1>7. at = (at \cap (1..c)) \cup (at \ (1..c))
    OBVIOUS
  <1>8. /\ IsFiniteSet(at \cap (1..c)) /\ Cardinality(at \cap (1..c)) \in {0, 1}
        /\ at \cap (1..c) = {} => Cardinality(at \cap (1..c)) = 0
    BY <1>4, OneAtMost
  <1>9. IsFiniteSet(at \ (1..c)) /\ Cardinality(at \ (1..c)) \in {0, 1}
    BY <1>5, OneAtMost
  <1>10. (at \cap (1..c)) \cap (at \ (1..c)) = {}
    OBVIOUS
  <1>11. Cardinality(at) = Cardinality(at \cap (1..c)) + Cardinality(at \ (1..c))
                             - Cardinality({})
    BY <1>7, <1>8, <1>9, <1>10, FS_Union
  <1>. QED BY <1>6, <1>8, <1>9, <1>11, FS_EmptySet DEF at

\* Messages are behind the cut, where the order is that of publishing.
LEMMA InOrder == EventInv /\ BusTypeOK => MessagesInOrder
  <1> SUFFICES ASSUME EventInv, BusTypeOK, NEW s \in Streams,
                      NEW m \in 1..Len(Live(s)), NEW n \in 1..Len(Live(s)), m < n,
                      Live(s)[m].kind = "message", Live(s)[n].kind = "message"
               PROVE  Place(published[project[s]], Live(s)[m]) <
                          Place(published[project[s]], Live(s)[n])
    BY DEF MessagesInOrder
  <1>1. PICK c \in 0..Len(got[s]) : CutAt(s, c)
    BY DEF EventInv, Served
  <1>2. /\ Len(got[s]) \in Nat /\ Len(Live(s)) \in Nat /\ Len(got[s]) <= Len(Live(s))
        /\ \A k \in 1..Len(got[s]) : Live(s)[k] = got[s][k]
    BY LiveElems DEF EventInv
  <1>3. \A k \in 1..c : Live(s)[k].kind = "artifact"
    BY <1>1, <1>2 DEF CutAt
  <1>4. m \in (c + 1)..Len(Live(s)) /\ n \in (c + 1)..Len(Live(s))
    BY <1>1, <1>2, <1>3
  <1>. QED BY <1>1, <1>4, BehindCut DEF EventInv, BusTypeOK

\* When nothing is on its way, what a stream has not got it missed.
LEMMA LostInGap == EventInv => LostOnlyInGap
  <1> SUFFICES ASSUME EventInv, NEW s \in Streams, UpToDate(s)
               PROVE  Artifacts(project[s]) \subseteq Sent(s) \cup missed[s]
    BY DEF LostOnlyInGap
  <1>1. /\ pending = {} /\ buffer[s] = <<>> /\ initial[s] = <<>>
        /\ Artifacts(project[s]) \subseteq OnItsWay(s)
    BY DEF UpToDate, EventInv, Served, StageInv
  <1>. QED BY <1>1 DEF OnItsWay, Elems

\* What the proofs keep is what the runs check.
LEMMA InvDelivers == Inv /\ EventInv => EventsDelivered
  <1> SUFFICES ASSUME Inv, EventInv PROVE EventsDelivered
    OBVIOUS
  <1>1. pending \subseteq Post
    BY PostsTyped DEF EventInv, PublishedInv
  <1>2. TypeOK
    BY <1>1 DEF Inv, BusTypeOK, CountInv, EventInv, StoreInv, PublishedInv, StreamTypeOK, TypeOK
  <1>. QED BY <1>2, TwiceAtMost, InOrder, LostInGap DEF Inv, EventsDelivered

\* An SSE stream gets the events of its project in publishing order, an artifact at most
\* twice and a message at most once, and lacks, with nothing on its way, only what was
\* published between snapshot and subscription or met a full buffer (handleSSE,
\* eventBus.publish), for any number of projects, streams and posts and any buffer size.
THEOREM EventsAreDelivered == Spec => []EventsDelivered
  BY SpecInv, SpecEvents, InvDelivers, PTL

-----------------------------------------------------------------------------
(* The channel server on the broker. *)

\* The streams a goroutine may hold, the events it may have in hand, and what it is.
Stream == Streams \cup {"none"}
Held == Post \cup {NoPost}
Listener == [project : Projects, at : {"dialing", "reading", "writing", "backoff", "gone"},
             cancelled : BOOLEAN, stream : Stream, next : Nat \ {0}, held : Held]

\* The types of the channel server's variables.
ListenType ==
    /\ run \in {"new", "up", "down"}
    /\ contexts \in [Projects -> 0..MaxListeners]
    /\ listeners \in Seq(Listener) /\ Len(listeners) <= MaxListeners
    /\ believed \in [Projects -> {"unknown", "yes", "no"}]
    /\ late \in [Indices -> Nat]

\* sseContexts holds the goroutines that were not cancelled, under their projects.
Owned ==
    /\ \A p \in Projects : contexts[p] # 0 =>
          /\ contexts[p] \in DOMAIN listeners /\ listeners[contexts[p]].project = p
          /\ ~listeners[contexts[p]].cancelled
    /\ \A g \in DOMAIN listeners : ~listeners[g].cancelled =>
          contexts[listeners[g].project] = g /\ At(g) # "gone"

\* A goroutine that reads or writes has a stream of its project, one that writes has an
\* event in hand.
HandInv ==
    \A g \in DOMAIN listeners :
       /\ At(g) = "writing" <=> listeners[g].held # NoPost
       /\ At(g) \in {"reading", "writing"} =>
             listeners[g].stream \in Streams /\ project[listeners[g].stream] = listeners[g].project

\* Before Run nothing was started and nothing told, and the own project stays subscribed.
ToldInv ==
    /\ RepliesTrue
    /\ run = "up" => contexts[Own] # 0
    /\ run = "new" => listeners = <<>> /\ \A p \in Projects : believed[p] = "unknown"

\* A goroutine that passed an event on after its cancellation has none in hand any more,
\* and reads none.
LateInv ==
    \A g \in Indices :
       /\ late[g] <= 1
       /\ late[g] # 0 => g \in DOMAIN listeners /\ listeners[g].cancelled /\ At(g) # "writing"

ListenInv == ListenType /\ Owned /\ HandInv /\ ToldInv /\ LateInv

-----------------------------------------------------------------------------
(* Every step of the composition is one of the broker, or a connection made anew. *)

\* Publishing, the stages of the handlers and the posts are steps of Broker as they stand;
\* the other steps of goroutines and tools leave its variables alone.
LEMMA McpStep ==
  ASSUME [McpNext]_allVars
  PROVE  [Next]_vars \/ \E g \in DOMAIN listeners : Dial(g)
  <1> USE DEF vars
  <1>1. CASE Run \/ StdinClosed \/ CallListSubscriptions
    BY <1>1 DEF Run, StdinClosed, CallListSubscriptions
  <1>2. ASSUME NEW p \in Projects, CallSubscribeProject(p) \/ CallUnsubscribeProject(p)
        PROVE  [Next]_vars
    BY <1>2 DEF CallSubscribeProject, CallUnsubscribeProject
  <1>3. ASSUME NEW p \in Projects, NEW k \in Kind, NEW isBig \in {FALSE, BigPosts},
               CallPost(p, k, isBig) \/ OtherPost(p, k, isBig)
        PROVE  [Next]_vars
    BY <1>3 DEF CallPost, OtherPost, Next
  <1>4. ASSUME NEW g \in DOMAIN listeners, Listen(g), ~Dial(g) PROVE [Next]_vars
    BY <1>4 DEF Listen, DialFails, ReadEvent, WriteNotification, StreamEnds, ConnectionBreaks,
                Retry, Stop
  <1>5. ASSUME NEW s \in Streams, Handler(s) PROVE [Next]_vars
    BY <1>5 DEF Handler, Next, StreamStep
  <1>6. CASE PublishAny
    BY <1>6 DEF PublishAny, Next
  <1>7. CASE (CloseAll \/ Shutdown) /\ UNCHANGED mcpVars
    BY <1>7 DEF Next
  <1>8. CASE UNCHANGED allVars
    BY <1>8 DEF allVars
  <1>. QED BY <1>1, <1>2, <1>3, <1>4, <1>5, <1>6, <1>7, <1>8 DEF McpNext

\* A connection made anew begins as the first one did and keeps what the broker promises.
LEMMA DialKeeps ==
  ASSUME Inv, EventInv, NEW g \in DOMAIN listeners, Dial(g)
  PROVE  Inv' /\ EventInv'
  <1>1. PICK s \in Streams :
          /\ pc[s] \in {"new", "ended"} /\ pc' = [pc EXCEPT ![s] = "snapshot"]
          /\ initial' = [initial EXCEPT ![s] = store[project[s]]["artifact"]]
          /\ got' = [got EXCEPT ![s] = <<>>]
          /\ channel' = [channel EXCEPT ![s] = "none"]
          /\ buffer' = [buffer EXCEPT ![s] = <<>>]
          /\ missed' = [missed EXCEPT ![s] = {}]
    BY DEF Dial, Retained
  <1>2. UNCHANGED <<phase, store, pending, published, subs, mapping, project, conns>>
    BY DEF Dial, storeVars
  <1>3. /\ pc \in [Streams -> Stage] /\ project[s] \in Projects
        /\ channel \in [Streams -> {"none", "open", "closed"}] /\ StreamTypeOK /\ StoreInv
        /\ s \notin mapping
    BY <1>1 DEF Inv, BusTypeOK, BusInv, EventInv
  <1>4. /\ pc'[s] = "snapshot" /\ got'[s] = <<>> /\ buffer'[s] = <<>> /\ channel'[s] = "none"
        /\ initial'[s] = store[project[s]]["artifact"]
    BY <1>1, <1>3 DEF StreamTypeOK
  <1>5. ASSUME NEW t \in Streams \ {s}
        PROVE  /\ pc'[t] = pc[t] /\ got'[t] = got[t] /\ buffer'[t] = buffer[t]
               /\ initial'[t] = initial[t] /\ channel'[t] = channel[t] /\ missed'[t] = missed[t]
    BY <1>1, <1>3 DEF StreamTypeOK
  <1>6. Inv'
    <2>1. BusTypeOK'
      BY <1>1, <1>2, <1>3 DEF Inv, BusTypeOK, Stage
    <2>2. BusInv'
      BY <1>2, <1>3, <1>5 DEF Inv, BusTypeOK, BusInv
    <2>3. CountInv'
      BY <1>1, <1>2, <1>4, <1>5, CountKept DEF Inv
    <2>. QED BY <2>1, <2>2, <2>3 DEF Inv
  <1>7. StreamTypeOK'
    <2>1. store[project[s]]["artifact"] \in Seq(Post)
      BY <1>3 DEF StoreInv, Kind
    <2>. QED BY <1>1, <1>3, <2>1 DEF StreamTypeOK
  <1>8. StoreInv' /\ PublishedInv'
    BY <1>2, PostsKept DEF EventInv
  <1>9. OpenInv'
    BY <1>2, <1>4, <1>5 DEF EventInv, OpenInv
  <1>10. ASSUME NEW t \in Streams PROVE Served(t)'
    <2>1. CASE t = s
      BY <1>2, <1>3, <1>4, <2>1, SnapshotTaken
    <2>2. CASE t # s
      <3>1. Served(t) /\ Artifacts(project[t])' = Artifacts(project[t])
        BY <1>2 DEF EventInv, Artifacts
      <3>. QED BY <1>2, <1>5, <2>2, <3>1, ServedKept
    <2>. QED BY <2>1, <2>2
  <1>. QED BY <1>2, <1>6, <1>7, <1>8, <1>9, <1>10 DEF EventInv

\* What is proved of the broker alone holds while the channel server runs on it.
LEMMA McpKeeps == Inv /\ EventInv /\ [McpNext]_allVars => (Inv /\ EventInv)'
  BY McpStep, DialKeeps, NextInv, NextEvents

-----------------------------------------------------------------------------
(* The subscriptions and what is told of them. *)

\* Goroutines are numbered within the bound.
LEMMA ListenIndices ==
  ASSUME ListenerAssumption, ListenInv, NEW g \in DOMAIN listeners
  PROVE  g \in Indices
  <1>1. MaxListeners \in Nat
    BY DEF ListenerAssumption
  <1>. QED BY <1>1 DEF ListenInv, ListenType, Indices

\* No event in hand is told apart from every post.
LEMMA HeldAndStream ==
  /\ \A s \in Streams : s \in Stream
  /\ "none" \in Stream /\ NoPost \in Held
  /\ \A e \in Post : e \in Held /\ e # NoPost
  BY DEF Stream, Held, NoPost, Post, Kind

\* What a goroutine's record is after a connection ...
LEMMA Reading ==
  ASSUME NEW l \in Listener, NEW s \in Streams
  PROVE  LET m == [l EXCEPT !.at = "reading", !.stream = s, !.next = 1]
         IN  /\ m \in Listener /\ m.project = l.project /\ m.at = "reading"
             /\ m.cancelled = l.cancelled /\ m.held = l.held /\ m.stream = s
  <1> DEFINE r == [l EXCEPT !.at = "reading", !.stream = s]
             m == [l EXCEPT !.at = "reading", !.stream = s, !.next = 1]
  <1>1. r \in Listener
    BY HeldAndStream DEF Listener
  <1>2. m = [r EXCEPT !.next = 1]
    BY DEF Listener
  <1>3. m \in Listener
    <2> HIDE DEF r, m
    <2>. QED BY <1>1, <1>2 DEF Listener
  <1>. QED BY <1>3 DEF Listener

\* ... and with an event in hand.
LEMMA Writing ==
  ASSUME NEW l \in Listener, NEW e \in Post
  PROVE  LET m == [l EXCEPT !.at = "writing", !.held = e, !.next = @ + 1]
         IN  /\ m \in Listener /\ m.project = l.project /\ m.at = "writing"
             /\ m.cancelled = l.cancelled /\ m.held = e /\ m.stream = l.stream
  <1> DEFINE r == [l EXCEPT !.at = "writing", !.held = e]
             m == [l EXCEPT !.at = "writing", !.held = e, !.next = @ + 1]
  <1>1. r \in Listener
    BY HeldAndStream DEF Listener
  <1>2. m = [r EXCEPT !.next = @ + 1]
    BY DEF Listener
  <1>3. m \in Listener
    <2> HIDE DEF r, m
    <2>. QED BY <1>1, <1>2 DEF Listener
  <1>. QED BY <1>3 DEF Listener

\* A goroutine starts uncancelled, with nothing in hand.
LEMMA FreshListener ==
  ASSUME NEW p \in Projects
  PROVE  /\ Fresh(p) \in Listener /\ Fresh(p).project = p /\ Fresh(p).at = "dialing"
         /\ ~Fresh(p).cancelled /\ Fresh(p).held = NoPost
  BY HeldAndStream DEF Fresh, Listener

\* The projects of Run are finitely many, within the bound, and can be numbered.
LEMMA ProjectsListed ==
  ASSUME ListenerAssumption
  PROVE  /\ SseProjects \subseteq Projects
         /\ Cardinality(SseProjects) \in Nat /\ Cardinality(SseProjects) <= MaxListeners
         /\ StartOrder \in Bijection(1..Cardinality(SseProjects), SseProjects)
  <1> DEFINE T == Projects \cup {""}
             L == 1..Len(ListenProjects)
  <1>0. ListenProjects \in [L -> T] /\ Len(ListenProjects) \in Nat /\ DOMAIN ListenProjects = L
    <2>1. ListenProjects \in Seq(T)
      BY DEF ListenerAssumption
    <2>. QED BY <2>1, LenProperties, Zenon
  <1>1. SseProjects \subseteq Projects
    <2>1. Range(ListenProjects) \subseteq T
      BY <1>0, Fun_RangeProperties, Zenon
    <2>. QED BY <2>1 DEF ListenerAssumption, SseProjects
  <1>2. IsFiniteSet(SseProjects)
    <2>1. IsFiniteSet(L)
      <3>1. Len(ListenProjects) \in Nat
        BY <1>0, Zenon
      <3>2. 1 \in Int /\ Len(ListenProjects) \in Int
        BY <3>1
      <3>. QED BY <3>2, FS_Interval, Zenon
    <2>2. IsFiniteSet(Range(ListenProjects))
      <3>1. ListenProjects \in Surjection(L, Range(ListenProjects))
        BY <1>0, Fun_RangeProperties, Zenon
      <3>. QED BY <2>1, <3>1, FS_Surjection, Zenon
    <2>3. IsFiniteSet(Range(ListenProjects) \ {""})
      BY <2>2, FS_Subset
    <2>4. SseProjects = (Range(ListenProjects) \ {""}) \cup {Own}
      BY DEF SseProjects
    <2>. QED BY <2>3, <2>4, FS_AddElement
  <1>3. /\ Cardinality(SseProjects) \in Nat
        /\ ExistsBijection(1..Cardinality(SseProjects), SseProjects)
    BY <1>2, FS_CardinalityType
  <1>4. Cardinality(SseProjects) <= MaxListeners
    BY DEF ListenerAssumption, SseProjects
  <1>. QED BY <1>1, <1>3, <1>4 DEF StartOrder, ExistsBijection

\* Run starts one goroutine for each project and keeps its context there.
LEMMA RunListens ==
  ASSUME ListenerAssumption, ListenInv, Run
  PROVE  ListenInv'
  <1> DEFINE N == Cardinality(SseProjects)
  <1>1. /\ listeners' = [n \in 1..N |-> Fresh(StartOrder[n])]
        /\ run' = "up"
        /\ UNCHANGED <<believed, late, project>>
        /\ listeners = <<>> /\ \A p \in Projects : believed[p] = "unknown"
    BY DEF Run, agentVars, vars, streamVars, ListenInv, ToldInv
  <1>2. /\ N \in Nat /\ N <= MaxListeners /\ MaxListeners \in Nat
        /\ StartOrder \in [1..N -> SseProjects] /\ SseProjects \subseteq Projects
        /\ DOMAIN StartOrder = 1..N
        /\ \A m, n \in 1..N : StartOrder[m] = StartOrder[n] => m = n
        /\ \A p \in SseProjects : \E n \in 1..N : StartOrder[n] = p
    <2>1. /\ StartOrder \in [1..N -> SseProjects]
          /\ \A m, n \in 1..N : StartOrder[m] = StartOrder[n] => m = n
          /\ \A p \in SseProjects : \E n \in 1..N : StartOrder[n] = p
      BY ProjectsListed DEF Bijection, Injection, Surjection, IsInjective
    <2>. QED BY <2>1, ProjectsListed DEF ListenerAssumption
  <1> HIDE DEF N
  <1>3. \A p \in SseProjects : contexts'[p] \in 1..N /\ StartOrder[contexts'[p]] = p
    <2>1. \A p \in SseProjects : contexts'[p] = CHOOSE n \in DOMAIN StartOrder : StartOrder[n] = p
      BY <1>2 DEF Run
    <2>. QED BY <1>2, <2>1
  <1>4. contexts' \in [Projects -> 0..MaxListeners]
        /\ \A p \in Projects \ SseProjects : contexts'[p] = 0
    <2>1. /\ contexts' = [p \in Projects |-> contexts'[p]]
          /\ \A p \in Projects \ SseProjects : contexts'[p] = 0
      BY DEF Run
    <2>2. \A p \in Projects : contexts'[p] \in 0..MaxListeners
      BY <1>2, <1>3, <2>1
    <2>. QED BY <2>1, <2>2
  <1>5. \A n \in 1..N : listeners'[n] = Fresh(StartOrder[n]) /\ StartOrder[n] \in Projects
                         /\ listeners'[n] \in Listener
    BY <1>1, <1>2, FreshListener
  <1>6. listeners' \in Seq(Listener) /\ Len(listeners') = N /\ DOMAIN listeners' = 1..N
    BY <1>1, <1>2, <1>5
  <1>7. ASSUME NEW n \in 1..N
        PROVE  /\ listeners'[n].project = StartOrder[n] /\ listeners'[n].at = "dialing"
               /\ ~listeners'[n].cancelled /\ listeners'[n].held = NoPost
    <2>1. listeners'[n] = Fresh(StartOrder[n])
      BY <1>5
    <2>. QED BY <1>5, <2>1, FreshListener, Zenon
  <1>8. ListenType'
    BY <1>1, <1>2, <1>4, <1>6 DEF ListenInv, ListenType
  <1>9. Owned'
    BY <1>2, <1>3, <1>4, <1>6, <1>7 DEF Owned, At
  <1>10. HandInv' /\ ToldInv'
    <2>1. Own \in SseProjects
      BY DEF SseProjects
    <2>2. contexts'[Own] # 0
      BY <1>2, <1>3, <2>1
    <2>3. HandInv'
      BY <1>1, <1>6, <1>7 DEF HandInv, At
    <2>. QED BY <1>1, <2>2, <2>3 DEF ToldInv, RepliesTrue
  <1>11. LateInv'
    BY <1>1 DEF ListenInv, ListenType, LateInv
  <1>. QED BY <1>8, <1>9, <1>10, <1>11 DEF ListenInv

\* One goroutine moves; it keeps its project and its context, and ends only cancelled.
LEMMA OneListens ==
  ASSUME ListenInv, NEW g \in DOMAIN listeners, NEW l \in Listener,
         listeners' = [listeners EXCEPT ![g] = l],
         l.project = listeners[g].project, l.cancelled = listeners[g].cancelled,
         l.at = "gone" => l.cancelled,
         l.at = "writing" <=> l.held # NoPost,
         l.at \in {"reading", "writing"} => l.stream \in Streams /\ project[l.stream] = l.project,
         UNCHANGED <<run, contexts, believed, project>>,
         late' \in [Indices -> Nat],
         \A x \in Indices : late'[x] # late[x] =>
             x = g /\ late'[x] = 1 /\ l.cancelled /\ l.at # "writing",
         late[g] # 0 => l.at # "writing"
  PROVE  ListenInv'
  <1>1. /\ listeners \in Seq(Listener) /\ DOMAIN listeners' = DOMAIN listeners
        /\ listeners' \in Seq(Listener) /\ Len(listeners') = Len(listeners)
        /\ listeners'[g] = l
        /\ \A x \in DOMAIN listeners \ {g} : listeners'[x] = listeners[x]
    BY DEF ListenInv, ListenType
  <1>2. ListenType'
    BY <1>1 DEF ListenInv, ListenType
  <1>3. Owned'
    BY <1>1 DEF ListenInv, Owned, At
  <1>4. HandInv'
    BY <1>1 DEF ListenInv, HandInv, At
  <1>5. ToldInv'
    BY <1>1 DEF ListenInv, ToldInv, RepliesTrue
  <1>6. LateInv'
    BY <1>1 DEF ListenInv, ListenType, LateInv, At
  <1>. QED BY <1>2, <1>3, <1>4, <1>5, <1>6 DEF ListenInv

\* Nothing changes of who listens when goroutines, contexts and replies stay.
LEMMA ListenKept ==
  ASSUME ListenInv, UNCHANGED <<listenerVars, late, believed, project>>
  PROVE  ListenInv'
  BY DEF listenerVars, ListenInv, ListenType, Owned, HandInv, ToldInv, RepliesTrue, LateInv, At

\* A goroutine that only changes its place, with no event in hand.
LEMMA GotoListens ==
  ASSUME ListenInv, NEW g \in DOMAIN listeners, NEW at \in {"dialing", "backoff", "gone"},
         At(g) # "writing", at = "gone" => listeners[g].cancelled, Goto(g, at),
         UNCHANGED <<run, contexts, believed, late, project>>
  PROVE  ListenInv'
  <1> DEFINE l == [listeners[g] EXCEPT !.at = at]
  <1>1. listeners[g] \in Listener
    BY DEF ListenInv, ListenType
  <1>2. /\ l \in Listener /\ l.project = listeners[g].project
        /\ l.cancelled = listeners[g].cancelled /\ l.at = at /\ l.held = listeners[g].held
    BY <1>1 DEF Listener
  <1>3. listeners' = [listeners EXCEPT ![g] = l]
    BY DEF Goto
  <1>4. l.held = NoPost
    BY <1>2 DEF ListenInv, HandInv, At
  <1>5. late' \in [Indices -> Nat]
    BY DEF ListenInv, ListenType
  <1>. QED BY <1>2, <1>3, <1>4, <1>5, OneListens

\* Goroutines listen to known projects.
LEMMA ListenerProjects ==
  ASSUME ListenInv
  PROVE  \A g \in DOMAIN listeners : listeners[g].project \in Projects
  <1>1. ASSUME NEW g \in DOMAIN listeners PROVE listeners[g] \in Listener
    BY DEF ListenInv, ListenType
  <1>. QED BY <1>1 DEF Listener

\* A tool changes the subscriptions, and its reply says what they are then.
LEMMA ToolsListen ==
  ASSUME ListenInv, ListenerAssumption, NEW p \in Projects,
         CallSubscribeProject(p) \/ CallUnsubscribeProject(p)
  PROVE  ListenInv'
  <1>1. /\ listeners \in Seq(Listener) /\ Len(listeners) \in Nat /\ DOMAIN listeners = 1..Len(listeners)
        /\ MaxListeners \in Nat /\ Own \in Projects
        /\ contexts \in [Projects -> 0..MaxListeners]
        /\ believed \in [Projects -> {"unknown", "yes", "no"}]
    <2>1. MaxListeners \in Nat /\ Own \in Projects
      BY DEF ListenerAssumption
    <2>. QED BY <2>1 DEF ListenInv, ListenType
  <1>2. /\ run = "up" /\ UNCHANGED <<run, late, project>>
        /\ \E b \in {"yes", "no"} : believed' = [believed EXCEPT ![p] = b]
    BY DEF CallSubscribeProject, CallUnsubscribeProject, ReplyUnsubscribe, vars, streamVars
  <1>3. CASE UNCHANGED <<contexts, listeners>> /\ believed'[p] = "yes" /\ contexts[p] # 0
    <2>1. ListenType' /\ Owned' /\ HandInv' /\ LateInv'
      BY <1>2, <1>3 DEF ListenInv, ListenType, Owned, HandInv, LateInv, At
    <2>2. ToldInv'
      BY <1>1, <1>2, <1>3 DEF ListenInv, ToldInv, RepliesTrue
    <2>. QED BY <2>1, <2>2 DEF ListenInv
  <1>4. CASE UNCHANGED <<contexts, listeners>> /\ believed'[p] = "no" /\ contexts[p] = 0
    <2>1. ListenType' /\ Owned' /\ HandInv' /\ LateInv'
      BY <1>2, <1>4 DEF ListenInv, ListenType, Owned, HandInv, LateInv, At
    <2>2. ToldInv'
      BY <1>1, <1>2, <1>4 DEF ListenInv, ToldInv, RepliesTrue
    <2>. QED BY <2>1, <2>2 DEF ListenInv
  <1>5. CASE /\ contexts[p] = 0 /\ Len(listeners) < MaxListeners /\ believed'[p] = "yes"
             /\ listeners' = Append(listeners, Fresh(p))
             /\ contexts' = [contexts EXCEPT ![p] = Len(listeners')]
    <2> DEFINE new == Len(listeners) + 1
    <2>1. /\ Fresh(p) \in Listener /\ Fresh(p).project = p /\ Fresh(p).at = "dialing"
          /\ ~Fresh(p).cancelled /\ Fresh(p).held = NoPost
      BY FreshListener
    <2>2. /\ listeners' \in Seq(Listener) /\ Len(listeners') = new /\ DOMAIN listeners' = 1..new
          /\ listeners'[new] = Fresh(p) /\ new \in 1..MaxListeners
          /\ \A g \in DOMAIN listeners : g \in DOMAIN listeners' /\ listeners'[g] = listeners[g]
          /\ \A g \in DOMAIN listeners' : g = new \/ g \in DOMAIN listeners
      BY <1>1, <1>5, <2>1
    <2> HIDE DEF new
    <2>3. contexts' = [contexts EXCEPT ![p] = new]
      BY <1>5, <2>2
    <2>4. ListenType'
      BY <1>1, <1>2, <2>2, <2>3 DEF ListenInv, ListenType
    <2>5. \A g \in DOMAIN listeners : listeners[g].project \in Projects
      BY ListenerProjects
    <2>6. Owned'
      <3>1. ASSUME NEW q \in Projects, contexts'[q] # 0
            PROVE  /\ contexts'[q] \in DOMAIN listeners' /\ listeners'[contexts'[q]].project = q
                   /\ ~listeners'[contexts'[q]].cancelled
        <4>1. CASE q = p
          BY <1>1, <2>1, <2>2, <2>3, <4>1
        <4>2. CASE q # p
          BY <1>1, <2>2, <2>3, <3>1, <4>2 DEF ListenInv, Owned
        <4>. QED BY <4>1, <4>2
      <3>2. ASSUME NEW g \in DOMAIN listeners', ~listeners'[g].cancelled
            PROVE  contexts'[listeners'[g].project] = g /\ listeners'[g].at # "gone"
        <4>1. CASE g = new
          BY <1>1, <2>1, <2>2, <2>3, <4>1
        <4>2. CASE g \in DOMAIN listeners
          <5>1. /\ contexts[listeners[g].project] = g /\ listeners[g].at # "gone"
                /\ listeners[g].project \in Projects
            BY <2>2, <2>5, <3>2, <4>2 DEF ListenInv, Owned, At
          <5>2. listeners[g].project # p
            BY <1>1, <1>5, <4>2, <5>1
          <5>. QED BY <1>1, <2>2, <2>3, <4>2, <5>1, <5>2
        <4>. QED BY <2>2, <4>1, <4>2
      <3>. QED BY <3>1, <3>2 DEF Owned, At
    <2>7. HandInv'
      BY <1>2, <2>1, <2>2 DEF ListenInv, HandInv, At
    <2>8. ToldInv'
      <3>1. \A q \in Projects \ {p} : believed'[q] = believed[q] /\ contexts'[q] = contexts[q]
        BY <1>1, <1>2, <2>3
      <3>2. believed'[p] = "yes" /\ contexts'[p] # 0
        BY <1>1, <1>5, <2>2, <2>3
      <3>3. contexts'[Own] # 0
        BY <1>1, <1>2, <3>1, <3>2 DEF ListenInv, ToldInv
      <3>. QED BY <1>2, <3>3, <3>1, <3>2 DEF ListenInv, ToldInv, RepliesTrue
    <2>9. LateInv'
      BY <1>2, <2>2 DEF ListenInv, LateInv, At
    <2>. QED BY <2>4, <2>6, <2>7, <2>8, <2>9 DEF ListenInv
  <1>6. CASE /\ contexts[p] # 0 /\ p # Own /\ believed'[p] = "no"
             /\ contexts' = [contexts EXCEPT ![p] = 0]
             /\ listeners' = [listeners EXCEPT ![contexts[p]].cancelled = TRUE]
    <2> DEFINE g == contexts[p]
               l == [listeners[g] EXCEPT !.cancelled = TRUE]
    <2>1. g \in DOMAIN listeners /\ listeners[g].project = p /\ listeners[g] \in Listener
      BY <1>1, <1>6 DEF ListenInv, Owned
    <2>2. /\ l \in Listener /\ l.project = p /\ l.cancelled = TRUE /\ l.at = listeners[g].at
          /\ l.held = listeners[g].held /\ l.stream = listeners[g].stream
      BY <2>1 DEF Listener
    <2>3. listeners' = [listeners EXCEPT ![g] = l]
      BY <1>6
    <2> HIDE DEF g, l
    <2>4. /\ listeners' \in Seq(Listener) /\ Len(listeners') = Len(listeners)
          /\ DOMAIN listeners' = DOMAIN listeners /\ listeners'[g] = l
          /\ \A x \in DOMAIN listeners \ {g} : listeners'[x] = listeners[x]
      BY <1>1, <2>1, <2>2, <2>3
    <2>5. ListenType'
      BY <1>1, <1>2, <1>6, <2>4 DEF ListenInv, ListenType
    <2>6. \A x \in DOMAIN listeners : listeners[x].project \in Projects
      BY ListenerProjects
    <2>7. Owned'
      <3>1. ASSUME NEW q \in Projects, contexts'[q] # 0
            PROVE  /\ contexts'[q] \in DOMAIN listeners' /\ listeners'[contexts'[q]].project = q
                   /\ ~listeners'[contexts'[q]].cancelled
        <4>1. q # p /\ contexts'[q] = contexts[q]
          BY <1>1, <1>6, <3>1
        <4>2. contexts[q] \in DOMAIN listeners /\ listeners[contexts[q]].project = q
              /\ ~listeners[contexts[q]].cancelled
          BY <3>1, <4>1 DEF ListenInv, Owned
        <4>3. contexts[q] # g
          BY <2>1, <4>1, <4>2
        <4>. QED BY <2>4, <4>1, <4>2, <4>3
      <3>2. ASSUME NEW x \in DOMAIN listeners', ~listeners'[x].cancelled
            PROVE  contexts'[listeners'[x].project] = x /\ listeners'[x].at # "gone"
        <4>1. x # g /\ listeners'[x] = listeners[x] /\ x \in DOMAIN listeners
          BY <2>2, <2>4, <3>2
        <4>2. contexts[listeners[x].project] = x /\ listeners[x].at # "gone"
          BY <3>2, <4>1 DEF ListenInv, Owned, At
        <4>3. listeners[x].project # p
          BY <4>1, <4>2 DEF g
        <4>. QED BY <1>1, <1>6, <2>6, <4>1, <4>2, <4>3
      <3>. QED BY <3>1, <3>2 DEF Owned, At
    <2>8. HandInv'
      BY <1>2, <2>1, <2>2, <2>4 DEF ListenInv, HandInv, At
    <2>9. ToldInv'
      <3>1. \A q \in Projects \ {p} : believed'[q] = believed[q] /\ contexts'[q] = contexts[q]
        BY <1>1, <1>2, <1>6
      <3>2. believed'[p] = "no" /\ contexts'[p] = 0
        BY <1>1, <1>6
      <3>3. contexts'[Own] # 0
        BY <1>1, <1>2, <1>6, <3>1 DEF ListenInv, ToldInv
      <3>. QED BY <1>2, <3>3, <3>1, <3>2 DEF ListenInv, ToldInv, RepliesTrue
    <2>10. LateInv'
      BY <1>2, <2>1, <2>2, <2>4 DEF ListenInv, LateInv, At
    <2>. QED BY <2>5, <2>7, <2>8, <2>9, <2>10 DEF ListenInv
  <1>7. CASE CallSubscribeProject(p)
    BY <1>1, <1>3, <1>5, <1>7 DEF CallSubscribeProject
  <1>8. CASE CallUnsubscribeProject(p)
    <2>1. p = Own => contexts[p] # 0
      BY <1>2 DEF ListenInv, ToldInv
    <2>. QED BY <1>1, <1>3, <1>4, <1>6, <1>8, <2>1
          DEF CallUnsubscribeProject, CancelListener, ReplyUnsubscribe
  <1>. QED BY <1>7, <1>8

\* What a listener reads next is of its stream.
LEMMA NextIsPost ==
  ASSUME ListenInv, StreamTypeOK, NEW g \in DOMAIN listeners, At(g) = "reading",
         listeners[g].next <= Len(got[listeners[g].stream])
  PROVE  /\ listeners[g] \in Listener /\ listeners[g].stream \in Streams
         /\ listeners[g].next \in 1..Len(got[listeners[g].stream])
         /\ got[listeners[g].stream][listeners[g].next] \in Post
  <1>1. listeners[g] \in Listener /\ listeners[g].stream \in Streams
    BY DEF ListenInv, ListenType, HandInv
  <1>2. got[listeners[g].stream] \in Seq(Post) /\ listeners[g].next \in Nat \ {0}
    BY <1>1 DEF StreamTypeOK, Listener
  <1>3. listeners[g].next \in 1..Len(got[listeners[g].stream])
    BY <1>2
  <1>. QED BY <1>1, <1>2, <1>3

\* One that is not cancelled passes on what it reads, unless it is of this server.
LEMMA PassOnListens ==
  ASSUME ListenerAssumption, ListenInv, StreamTypeOK, NEW g \in DOMAIN listeners,
         At(g) = "reading", ~listeners[g].cancelled, NEW e \in Post, PassOn(g, e),
         UNCHANGED <<run, contexts, believed, late, project>>
  PROVE  ListenInv'
  <1>1. /\ listeners[g] \in Listener /\ listeners[g].stream \in Streams
        /\ project[listeners[g].stream] = listeners[g].project
        /\ listeners[g].held = NoPost /\ listeners[g].next \in Nat \ {0}
    <2>1. listeners[g] \in Listener
      BY DEF ListenInv, ListenType
    <2>. QED BY <2>1 DEF ListenInv, HandInv, Listener, At
  <1>2. late' \in [Indices -> Nat]
    BY DEF ListenInv, ListenType
  <1>3. g \in Indices => late[g] = 0
    BY DEF ListenInv, ListenType, LateInv
  <1>4. CASE listeners' = [listeners EXCEPT ![g].next = @ + 1]
    <2> DEFINE l == [listeners[g] EXCEPT !.next = @ + 1]
    <2>1. /\ l \in Listener /\ l.project = listeners[g].project /\ l.at = "reading"
          /\ l.cancelled = listeners[g].cancelled /\ l.held = NoPost
          /\ l.stream = listeners[g].stream
      BY <1>1 DEF Listener, At
    <2>2. listeners' = [listeners EXCEPT ![g] = l]
      BY <1>4
    <2>. QED BY <1>1, <1>2, <2>1, <2>2, OneListens
  <1>5. CASE listeners' = [listeners EXCEPT ![g].at = "writing", ![g].held = e, ![g].next = @ + 1]
    <2> DEFINE l == [listeners[g] EXCEPT !.at = "writing", !.held = e, !.next = @ + 1]
    <2>1. /\ l \in Listener /\ l.project = listeners[g].project /\ l.at = "writing"
          /\ l.cancelled = listeners[g].cancelled /\ l.held = e
          /\ l.stream = listeners[g].stream
      BY <1>1, Writing
    <2>2. listeners' = [listeners EXCEPT ![g] = l]
      BY <1>5
    <2>3. l.held # NoPost
      BY <2>1, HeldAndStream
    <2>4. g \in Indices
      BY ListenIndices
    <2>. QED BY <1>1, <1>2, <1>3, <2>1, <2>2, <2>3, <2>4, OneListens
  <1>. QED BY <1>4, <1>5 DEF PassOn

\* What goroutines do.
LEMMA GoroutinesListen ==
  ASSUME ListenerAssumption, ListenInv, StreamTypeOK, NEW g \in DOMAIN listeners, Listen(g)
  PROVE  ListenInv'
  <1> USE DEF vars, streamVars, agentVars
  <1>0. /\ UNCHANGED <<run, contexts, believed, project>> 
        /\ WriteNotification(g) \/ UNCHANGED late
    BY DEF Listen, Dial, DialFails, ReadEvent, WriteNotification, StreamEnds, ConnectionBreaks,
           Retry, Stop
  <1>1. listeners[g] \in Listener /\ g \in Indices /\ late \in [Indices -> Nat]
    BY ListenIndices DEF ListenInv, ListenType
  <1>2. CASE Dial(g)
    <2>1. PICK s \in Streams :
            /\ project[s] = listeners[g].project
            /\ listeners' = [listeners EXCEPT ![g].at = "reading", ![g].stream = s, ![g].next = 1]
      BY <1>2 DEF Dial
    <2> DEFINE l == [listeners[g] EXCEPT !.at = "reading", !.stream = s, !.next = 1]
    <2>2. /\ l \in Listener /\ l.project = listeners[g].project /\ l.at = "reading"
          /\ l.cancelled = listeners[g].cancelled /\ l.held = listeners[g].held
          /\ l.stream = s
      BY <1>1, Reading
    <2>3. listeners' = [listeners EXCEPT ![g] = l]
      BY <2>1
    <2>4. listeners[g].held = NoPost /\ late' = late
      BY <1>2 DEF ListenInv, HandInv, Dial
    <2> HIDE DEF l
    <2>5. late' \in [Indices -> Nat]
      BY <1>1, <2>4
    <2>6. l.stream \in Streams /\ project[l.stream] = l.project
      BY <2>1, <2>2
    <2>. QED BY <1>0, <1>1, <2>2, <2>3, <2>4, <2>5, <2>6, OneListens
  <1>3. CASE DialFails(g) \/ StreamEnds(g) \/ ConnectionBreaks(g) \/ Retry(g) \/ Stop(g)
    <2>1. PICK at \in {"dialing", "backoff", "gone"} :
            Goto(g, at) /\ At(g) # "writing" /\ (at = "gone" => listeners[g].cancelled)
      BY <1>3 DEF DialFails, StreamEnds, ConnectionBreaks, Retry, Stop
    <2>2. late' = late
      BY <1>3 DEF DialFails, StreamEnds, ConnectionBreaks, Retry, Stop
    <2>. QED BY <1>0, <2>1, <2>2, GotoListens
  <1>4. CASE ReadEvent(g)
    <2> DEFINE e == got[listeners[g].stream][listeners[g].next]
    <2>1. At(g) = "reading" /\ e \in Post /\ late' = late
      BY <1>4, NextIsPost DEF ReadEvent
    <2>2. \/ Goto(g, "backoff")
          \/ listeners[g].cancelled /\ Goto(g, "gone")
          \/ ~listeners[g].cancelled /\ PassOn(g, e)
      BY <1>4 DEF ReadEvent
    <2> HIDE DEF e
    <2>3. CASE Goto(g, "backoff")
      BY <1>0, <2>1, <2>3, GotoListens
    <2>4. CASE listeners[g].cancelled /\ Goto(g, "gone")
      BY <1>0, <2>1, <2>4, GotoListens
    <2>5. CASE ~listeners[g].cancelled /\ PassOn(g, e)
      BY <1>0, <2>1, <2>5, PassOnListens
    <2>. QED BY <2>2, <2>3, <2>4, <2>5
  <1>5. CASE WriteNotification(g)
    <2>1. /\ At(g) = "writing"
          /\ late' = IF listeners[g].cancelled THEN [late EXCEPT ![g] = @ + 1] ELSE late
          /\ listeners' = [listeners EXCEPT ![g].at = "reading", ![g].held = NoPost]
      BY <1>5 DEF WriteNotification
    <2> DEFINE l == [listeners[g] EXCEPT !.at = "reading", !.held = NoPost]
    <2>2. /\ l \in Listener /\ l.project = listeners[g].project /\ l.at = "reading"
          /\ l.cancelled = listeners[g].cancelled /\ l.held = NoPost
          /\ l.stream = listeners[g].stream
      BY <1>1, HeldAndStream DEF Listener
    <2>3. listeners' = [listeners EXCEPT ![g] = l]
      BY <2>1
    <2>4. late[g] = 0 /\ listeners[g].cancelled \in BOOLEAN
          /\ l.stream \in Streams /\ project[l.stream] = l.project
      BY <1>1, <2>1, <2>2 DEF ListenInv, ListenType, LateInv, HandInv, Listener
    <2> HIDE DEF l
    <2>5. late' \in [Indices -> Nat]
      BY <1>1, <2>1
    <2>6. \A x \in Indices : late'[x] # late[x] => x = g /\ late'[x] = 1 /\ l.cancelled
      BY <1>1, <2>1, <2>2, <2>4
    <2>. QED BY <1>0, <2>2, <2>3, <2>4, <2>5, <2>6, OneListens
  <1>. QED BY <1>2, <1>3, <1>4, <1>5 DEF Listen

\* Every step keeps the subscriptions in order.
LEMMA ListenStep ==
  ASSUME ListenerAssumption, StreamTypeOK, ListenInv, [McpNext]_allVars
  PROVE  ListenInv'
  <1> USE DEF vars, streamVars, agentVars, listenerVars, mcpVars
  <1>1. CASE Run
    BY <1>1, RunListens
  <1>2. CASE StdinClosed
    <2>1. /\ contexts' = [p \in Projects |-> 0] /\ run' = "down"
          /\ listeners' = [g \in DOMAIN listeners |->
                [listeners[g] EXCEPT !.at = "gone", !.cancelled = TRUE, !.held = NoPost]]
          /\ UNCHANGED <<late, believed, project>>
      BY <1>2 DEF StdinClosed
    <2>2. ASSUME NEW g \in DOMAIN listeners
          PROVE  /\ listeners'[g] \in Listener /\ listeners'[g].project = listeners[g].project
                 /\ listeners'[g].at = "gone" /\ listeners'[g].cancelled = TRUE
                 /\ listeners'[g].held = NoPost
      <3>1. listeners[g] \in Listener
        BY DEF ListenInv, ListenType
      <3>2. listeners'[g] = [listeners[g] EXCEPT !.at = "gone", !.cancelled = TRUE, !.held = NoPost]
        BY <2>1
      <3>. QED BY <3>1, <3>2, HeldAndStream DEF Listener
    <2>3. DOMAIN listeners = 1..Len(listeners) /\ Len(listeners) \in Nat
          /\ listeners \in Seq(Listener)
      BY DEF ListenInv, ListenType
    <2>4. /\ listeners' \in Seq(Listener) /\ Len(listeners') = Len(listeners)
          /\ DOMAIN listeners' = DOMAIN listeners
      <3> DEFINE N == Len(listeners)
      <3>1. N \in Nat /\ DOMAIN listeners = 1..N /\ \A g \in 1..N : listeners'[g] \in Listener
        BY <2>2, <2>3
      <3>2. listeners' = [g \in 1..N |->
                [listeners[g] EXCEPT !.at = "gone", !.cancelled = TRUE, !.held = NoPost]]
        BY <2>1, <3>1
      <3> HIDE DEF N
      <3>3. listeners' \in [1..N -> Listener]
        BY <3>1, <3>2
      <3>4. listeners' \in Seq(Listener) /\ Len(listeners') = N /\ DOMAIN listeners' = 1..N
        BY <3>1, <3>3
      <3>. QED BY <3>1, <3>4 DEF N
    <2>10. MaxListeners \in Nat
      BY DEF ListenerAssumption
    <2>5. ListenType'
      <3>1. contexts' \in [Projects -> 0..MaxListeners] /\ run' = "down"
            /\ UNCHANGED <<late, believed>>
        <4>1. contexts' = [p \in Projects |-> 0] /\ run' = "down" /\ UNCHANGED <<late, believed>>
          BY <1>2 DEF StdinClosed
        <4>. QED BY <2>10, <4>1
      <3>. QED BY <2>4, <3>1 DEF ListenInv, ListenType, ListenerAssumption
    <2>6. Owned' /\ HandInv'
      BY <2>1, <2>2, <2>4 DEF Owned, HandInv, At
    <2>7. ToldInv'
      BY <2>1 DEF ToldInv, RepliesTrue
    <2>8. LateInv'
      BY <2>1, <2>2, <2>4 DEF ListenInv, LateInv, At
    <2>. QED BY <2>5, <2>6, <2>7, <2>8 DEF ListenInv
  <1>3. CASE CallListSubscriptions
    <2>1. /\ believed' = [p \in Projects |-> IF contexts[p] # 0 THEN "yes" ELSE "no"]
          /\ run = "up" /\ UNCHANGED <<run, contexts, listeners, late, project>>
      BY <1>3 DEF CallListSubscriptions
    <2>2. ListenType' /\ Owned' /\ HandInv' /\ LateInv'
      BY <2>1 DEF ListenInv, ListenType, Owned, HandInv, LateInv, At
    <2>3. ToldInv'
      BY <2>1 DEF ListenInv, ToldInv, RepliesTrue
    <2>. QED BY <2>2, <2>3 DEF ListenInv
  <1>4. ASSUME NEW p \in Projects, CallSubscribeProject(p) \/ CallUnsubscribeProject(p)
        PROVE  ListenInv'
    BY <1>4, ToolsListen
  <1>5. ASSUME NEW p \in Projects, NEW k \in Kind, NEW isBig \in {FALSE, BigPosts},
               CallPost(p, k, isBig) \/ OtherPost(p, k, isBig)
        PROVE  ListenInv'
    BY <1>5, ListenKept DEF CallPost, OtherPost, StorePost
  <1>6. ASSUME NEW g \in DOMAIN listeners, Listen(g) PROVE ListenInv'
    BY <1>6, GoroutinesListen
  <1>7. ASSUME NEW s \in Streams, Handler(s) PROVE ListenInv'
    <2>1. UNCHANGED <<run, contexts, listeners, late, believed, project>>
      BY <1>7 DEF Handler, SendInitial, CountConnection, Subscribe, SendEvent, ChannelClosed,
                  Uncount, ClientGone, Leave
    <2>. QED BY <2>1, ListenKept
  <1>8. CASE PublishAny \/ ((CloseAll \/ Shutdown) /\ UNCHANGED mcpVars) \/ UNCHANGED allVars
    <2>1. UNCHANGED <<run, contexts, listeners, late, believed, project>>
      BY <1>8 DEF PublishAny, Publish, CloseAll, Shutdown, allVars
    <2>. QED BY <2>1, ListenKept
  <1>. QED BY <1>1, <1>2, <1>3, <1>4, <1>5, <1>6, <1>7, <1>8 DEF McpNext

\* At the start of the composition nobody listens.
LEMMA ListenInit ==
  ASSUME ListenerAssumption, McpInit
  PROVE  Inv /\ EventInv /\ ListenInv
  <1>1. Inv /\ EventInv
    BY InitInv, InitEvents DEF McpInit
  <1>2. ListenInv
    <2>1. MaxListeners \in Nat
      BY DEF ListenerAssumption
    <2>. QED BY <2>1 DEF McpInit, ListenInv, ListenType, Owned, HandInv, ToldInv, RepliesTrue,
                         LateInv, Indices
  <1>. QED BY <1>1, <1>2

-----------------------------------------------------------------------------
(* What the listeners pass on. *)

\* What the streams carry was posted, and is published under its own project.
PostsInv ==
    /\ \A s \in Streams : /\ Elems(initial[s]) \subseteq Posts
                          /\ Elems(got[s]) \subseteq Posts
                          /\ Elems(buffer[s]) \subseteq Posts
    /\ \A p \in Projects : \A e \in Elems(published[p]) : e.project = p

\* What is shown, heard or in hand was posted, by others.
EchoInv ==
    /\ \A x \in shown : x[2] \in Posts /\ x[2].id \notin mine
    /\ heard \in [Indices -> Seq(Post)]
    /\ \A g \in Indices : \A e \in Elems(heard[g]) : e \in Posts /\ e.id \notin mine
    /\ \A g \in DOMAIN listeners : At(g) = "writing" =>
          listeners[g].held \in Posts /\ listeners[g].held.id \notin mine

\* The first place of its stream a listener has yet to pass on.
From(g) == IF At(g) = "writing" THEN listeners[g].next - 1 ELSE listeners[g].next

\* What it has heard is ordered, and published in its project.
HeardInv(g) ==
    /\ \A m, n \in 1..Len(heard[g]) : m < n => Before(heard[g][m], heard[g][n])
    /\ Elems(heard[g]) # {} =>
          g \in DOMAIN listeners /\ Elems(heard[g]) \subseteq Elems(published[listeners[g].project])

\* And comes before every message its stream has for it.
AheadInv(g) ==
    At(g) \in {"reading", "writing"} =>
        LET s == listeners[g].stream
        IN  /\ listeners[g].next \in 1..(Len(got[s]) + 1)
            /\ At(g) = "writing" => From(g) \in 1..Len(got[s]) /\ listeners[g].held = got[s][From(g)]
            /\ \A n \in From(g)..Len(Live(s)) : Live(s)[n].kind = "message" =>
                  \A d \in Elems(heard[g]) : Before(d, Live(s)[n])

HeardAllInv ==
    /\ \A g \in Indices : HeardInv(g)
    /\ \A g \in DOMAIN listeners : AheadInv(g)

\* Posts are finitely many and numbered from one without gaps above.
LEMMA PostsFinite ==
  ASSUME StoreInv
  PROVE  Cardinality(Posts) \in Nat /\ \A e \in Posts : e \in Post /\ e.id <= Cardinality(Posts)
  BY PostsTyped, FS_CardinalityType DEF StoreInv

\* Posts are only added, and the one that is added has the next id.
LEMMA PostsAdded ==
  ASSUME EventInv, NEW p \in Projects, NEW k \in Kind, StorePost(p, k)
  PROVE  Posts \subseteq Posts'
  <1>1. /\ store \in [Projects -> [Kind -> Seq(Post)]] /\ Cardinality(Posts) \in Nat
        /\ Cardinality(Posts) < MaxPosts
    BY PostsFinite DEF EventInv, StoreInv, StorePost
  <1> DEFINE post == [id |-> Cardinality(Posts) + 1, kind |-> k, project |-> p]
  <1>2. post \in Post
    BY <1>1, BrokerAssumption DEF Post
  <1>3. store' = [store EXCEPT ![p][k] = Append(@, post)]
    BY DEF StorePost
  <1> HIDE DEF post
  <1>4. ASSUME NEW q \in Projects, NEW j \in Kind, NEW n \in 1..Len(store[q][j])
        PROVE  n \in 1..Len(store'[q][j]) /\ store'[q][j][n] = store[q][j][n]
    <2>1. store[q][j] \in Seq(Post) /\ store[p][k] \in Seq(Post)
      BY <1>1
    <2>2. /\ Len(Append(store[p][k], post)) = Len(store[p][k]) + 1
          /\ \A i \in 1..Len(store[p][k]) : Append(store[p][k], post)[i] = store[p][k][i]
          /\ Len(store[p][k]) \in Nat
      BY <1>2, <2>1, AppendElems
    <2>3. CASE q = p /\ j = k
      <3>1. store'[q][j] = Append(store[p][k], post)
        BY <1>1, <1>3, <2>3
      <3>. QED BY <2>2, <2>3, <3>1
    <2>4. CASE ~(q = p /\ j = k)
      <3>1. store'[q][j] = store[q][j]
        BY <1>1, <1>3, <2>4
      <3>. QED BY <3>1
    <2>. QED BY <2>3, <2>4
  <1>5. ASSUME NEW e \in Posts PROVE e \in Posts'
    <2>1. PICK q \in Projects, j \in Kind : \E n \in 1..Len(store[q][j]) : store[q][j][n] = e
      BY DEF Posts
    <2>2. PICK n \in 1..Len(store[q][j]) : store[q][j][n] = e
      BY <2>1
    <2>3. n \in 1..Len(store'[q][j]) /\ store'[q][j][n] = e
      BY <1>4, <2>2
    <2>4. e \in [id : 1..MaxPosts, kind : Kind, project : Projects]
      BY DEF Posts
    <2>. QED BY <2>3, <2>4 DEF Posts
  <1>. QED BY <1>5

\* Posts are the same or grow by those of this server or of another.
LEMMA PostsGrow ==
  ASSUME EventInv, [McpNext]_allVars
  PROVE  Posts \subseteq Posts'
  <1> USE DEF storeVars, vars
  <1>1. ASSUME NEW p \in Projects, NEW k \in Kind, StorePost(p, k) PROVE Posts \subseteq Posts'
    BY <1>1, PostsAdded
  <1>2. CASE UNCHANGED store
    <2>1. Posts' = Posts
      BY <1>2 DEF Posts
    <2>. QED BY <2>1
  <1>3. ASSUME NEW g \in DOMAIN listeners, Dial(g) PROVE UNCHANGED store
    BY <1>3 DEF Dial
  <1>4. ASSUME NEW s \in Streams, StreamStep(s) \/ ClientGone(s) PROVE UNCHANGED store
    BY <1>4 DEF StreamStep, ClientGone, ChannelClosed, Leave, Snapshot, SendInitial,
                CountConnection, Subscribe, SendEvent, Uncount
  <1>5. CASE (\E post \in pending : Publish(post)) \/ CloseAll \/ Shutdown \/ UNCHANGED vars
    BY <1>2, <1>5 DEF Publish, CloseAll, Shutdown
  <1>. QED BY <1>1, <1>2, <1>3, <1>4, <1>5, McpStep DEF Next

\* The artifacts of a project are posts.
LEMMA ArtifactsPosted ==
  ASSUME StoreInv, NEW p \in Projects
  PROVE  Elems(store[p]["artifact"]) \subseteq Posts
  <1>1. /\ store[p]["artifact"] \in Seq(Post) /\ "artifact" \in Kind
    BY DEF StoreInv, Kind
  <1>2. ASSUME NEW n \in 1..Len(store[p]["artifact"]) PROVE store[p]["artifact"][n] \in Posts
    <2>1. store[p]["artifact"][n] \in Post
      BY <1>1
    <2>. QED BY <1>1, <2>1 DEF Posts, Post
  <1>. QED BY <1>2 DEF Elems

\* Every step keeps streams and publications to what was posted.
LEMMA PostsInvStep ==
  ASSUME Inv, EventInv, PostsInv, [McpNext]_allVars
  PROVE  PostsInv'
  <1> USE DEF storeVars, busVars, streamVars, vars
  <1>0. /\ Posts \subseteq Posts' /\ StreamTypeOK /\ StoreInv /\ PublishedInv
        /\ project \in [Streams -> Projects]
    BY PostsGrow DEF EventInv, Inv, BusTypeOK
  <1>1. ASSUME UNCHANGED <<initial, got, buffer, published>> PROVE PostsInv'
    BY <1>0, <1>1 DEF PostsInv
  <1>3. ASSUME NEW s \in Streams, StreamStep(s) \/ ClientGone(s) PROVE PostsInv'
    <2>1. UNCHANGED published
      BY <1>3 DEF StreamStep, ClientGone, ChannelClosed, Leave, Snapshot, SendInitial,
                CountConnection, Subscribe, SendEvent, Uncount
    <2>2. CASE Snapshot(s)
      <3>1. Elems(store[project[s]]["artifact"]) \subseteq Posts
        BY <1>0, ArtifactsPosted
      <3>. QED BY <1>0, <2>1, <2>2, <3>1 DEF Snapshot, PostsInv, StreamTypeOK
    <2>3. CASE SendInitial(s)
      <3>1. initial[s] \in Seq(Post) /\ got[s] \in Seq(Post) /\ initial[s] # <<>>
        BY <1>0, <2>3 DEF SendInitial, StreamTypeOK
      <3>2. /\ Elems(initial[s]) = {Head(initial[s])} \cup Elems(Tail(initial[s]))
            /\ Elems(Append(got[s], Head(initial[s]))) = Elems(got[s]) \cup {Head(initial[s])}
        BY <3>1, TailElems, AppendElems
      <3>. QED BY <1>0, <2>1, <2>3, <3>2 DEF SendInitial, PostsInv, StreamTypeOK
    <2>4. CASE SendEvent(s)
      <3>1. buffer[s] \in Seq(Post) /\ got[s] \in Seq(Post) /\ buffer[s] # <<>>
        BY <1>0, <2>4 DEF SendEvent, StreamTypeOK
      <3>2. /\ Elems(buffer[s]) = {Head(buffer[s])} \cup Elems(Tail(buffer[s]))
            /\ Elems(Append(got[s], Head(buffer[s]))) = Elems(got[s]) \cup {Head(buffer[s])}
        BY <3>1, TailElems, AppendElems
      <3>. QED BY <1>0, <2>1, <2>4, <3>2 DEF SendEvent, PostsInv, StreamTypeOK
    <2>5. CASE CountConnection(s) \/ Subscribe(s) \/ Leave(s) \/ Uncount(s)
      BY <1>1, <2>5 DEF CountConnection, Subscribe, Leave, Uncount
    <2>. QED BY <1>3, <2>2, <2>3, <2>4, <2>5 DEF StreamStep, ClientGone, ChannelClosed
  <1>4. ASSUME NEW g \in DOMAIN listeners, Dial(g) PROVE PostsInv'
    <2>1. PICK s \in Streams :
            /\ initial' = [initial EXCEPT ![s] = store[project[s]]["artifact"]]
            /\ got' = [got EXCEPT ![s] = <<>>]
            /\ buffer' = [buffer EXCEPT ![s] = <<>>]
      BY <1>4 DEF Dial, Retained
    <2>2. UNCHANGED published
      BY <1>4 DEF Dial
    <2>3. Elems(store[project[s]]["artifact"]) \subseteq Posts
      BY <1>0, ArtifactsPosted
    <2>4. Elems(<<>>) = {}
      BY DEF Elems
    <2>. QED BY <1>0, <2>1, <2>2, <2>3, <2>4 DEF PostsInv, StreamTypeOK
  <1>5. ASSUME NEW post \in pending, Publish(post) PROVE PostsInv'
    <2>1. post \in Posts /\ post \in Post /\ post.project \in Projects
      BY <1>0, PostsTyped DEF PublishedInv, Post
    <2>2. ASSUME NEW s \in Streams PROVE Elems(buffer'[s]) \subseteq Posts
      <3>1. buffer'[s] \in {buffer[s], Append(buffer[s], post)}
        BY <1>0, <1>5 DEF Publish, StreamTypeOK
      <3>2. Elems(Append(buffer[s], post)) = Elems(buffer[s]) \cup {post}
        BY <1>0, <2>1, AppendElems DEF StreamTypeOK
      <3>. QED BY <2>1, <3>1, <3>2 DEF PostsInv
    <2>3. ASSUME NEW p \in Projects, NEW e \in Elems(published'[p]) PROVE e.project = p
      <3>1. CASE p = post.project
        <4>1. published'[p] = Append(published[p], post) /\ published[p] \in Seq(Post)
          BY <1>0, <1>5, <2>1, <3>1 DEF Publish, PublishedInv
        <4>2. e \in Elems(published[p]) \cup {post}
          BY <2>1, <2>3, <4>1, AppendElems
        <4>. QED BY <3>1, <4>2 DEF PostsInv
      <3>2. CASE p # post.project
        <4>1. published'[p] = published[p]
          BY <1>0, <1>5, <2>1, <3>2 DEF Publish, PublishedInv
        <4>. QED BY <2>3, <4>1 DEF PostsInv
      <3>. QED BY <3>1, <3>2
    <2>4. UNCHANGED <<initial, got>>
      BY <1>5 DEF Publish
    <2>. QED BY <1>0, <2>2, <2>3, <2>4 DEF PostsInv
  <1>6. ASSUME NEW p \in Projects, NEW k \in Kind, StorePost(p, k) PROVE PostsInv'
    BY <1>1, <1>6 DEF StorePost
  <1>7. CASE CloseAll \/ Shutdown \/ UNCHANGED vars
    BY <1>1, <1>7 DEF CloseAll, Shutdown
  <1>. QED BY <1>3, <1>4, <1>5, <1>6, <1>7, McpStep DEF Next

\* What was passed on or is in hand stays what others posted, while nothing is passed on or
\* taken in hand.
LEMMA EchoKept ==
  ASSUME EchoInv, UNCHANGED <<shown, heard>>, Posts \subseteq Posts',
         \A g \in DOMAIN listeners' : listeners'[g].at = "writing" =>
             /\ g \in DOMAIN listeners /\ At(g) = "writing"
             /\ listeners'[g].held = listeners[g].held,
         \A e \in Posts : e.id \in mine' => e.id \in mine
  PROVE  EchoInv'
  BY DEF EchoInv, At

\* Every step keeps what is shown, heard and in hand to posts of others.
LEMMA EchoStep ==
  ASSUME ListenerAssumption, Inv, EventInv, ListenInv, PostsInv, EchoInv, [McpNext]_allVars
  PROVE  EchoInv'
  <1> USE DEF agentVars, listenerVars, mcpVars
  <1>0. /\ Posts \subseteq Posts' /\ StreamTypeOK /\ StoreInv
        /\ \A g \in DOMAIN listeners : listeners[g] \in Listener
        /\ listeners \in Seq(Listener)
    BY PostsGrow DEF EventInv, ListenInv, ListenType
  <1>1. CASE Run
    <2>1. \A g \in DOMAIN listeners' : listeners'[g].at = "dialing"
      <3>1. listeners' = [n \in 1..Cardinality(SseProjects) |-> Fresh(StartOrder[n])]
        BY <1>1 DEF Run
      <3>. QED BY <3>1 DEF Fresh
    <2>. QED BY <1>0, <1>1, <2>1, EchoKept DEF Run
  <1>2. CASE StdinClosed
    <2>1. \A g \in DOMAIN listeners' : listeners'[g].at = "gone"
      <3>1. /\ DOMAIN listeners' = DOMAIN listeners
            /\ \A g \in DOMAIN listeners : listeners'[g] =
                  [listeners[g] EXCEPT !.at = "gone", !.cancelled = TRUE, !.held = NoPost]
        BY <1>2 DEF StdinClosed
      <3>2. ASSUME NEW l \in Listener
            PROVE  [l EXCEPT !.at = "gone", !.cancelled = TRUE, !.held = NoPost].at = "gone"
        BY DEF Listener
      <3>3. ASSUME NEW g \in DOMAIN listeners PROVE listeners'[g].at = "gone"
        BY <1>0, <3>1, <3>2, Zenon
      <3>. QED BY <3>1, <3>3
    <2>. QED BY <1>0, <1>2, <2>1, EchoKept DEF StdinClosed
  <1>3. ASSUME NEW p \in Projects, CallSubscribeProject(p) \/ CallUnsubscribeProject(p)
        PROVE  EchoInv'
    <2>1. UNCHANGED <<shown, heard, mine>>
      BY <1>3 DEF CallSubscribeProject, CallUnsubscribeProject
    <2>2. CASE listeners' = Append(listeners, Fresh(p))
      <3>1. Fresh(p) \in Listener /\ Fresh(p).at = "dialing"
        BY FreshListener
      <3>2. ASSUME NEW g \in DOMAIN listeners', listeners'[g].at = "writing"
            PROVE  g \in DOMAIN listeners /\ listeners'[g] = listeners[g]
        BY <1>0, <2>2, <3>1, <3>2
      <3>. QED BY <1>0, <2>1, <3>2, EchoKept DEF At
    <2>3. CASE listeners' = [listeners EXCEPT ![contexts[p]].cancelled = TRUE]
      <3>1. ASSUME NEW g \in DOMAIN listeners'
            PROVE  /\ g \in DOMAIN listeners /\ listeners'[g].at = listeners[g].at
                   /\ listeners'[g].held = listeners[g].held
        BY <1>0, <2>3 DEF Listener
      <3>. QED BY <1>0, <2>1, <3>1, EchoKept DEF At
    <2>4. CASE listeners' = listeners
      BY <1>0, <2>1, <2>4, EchoKept DEF At
    <2>. QED BY <1>3, <2>2, <2>3, <2>4
          DEF CallSubscribeProject, CallUnsubscribeProject, CancelListener
  <1>4. ASSUME NEW p \in Projects, NEW k \in Kind, NEW isBig \in {FALSE, BigPosts},
               CallPost(p, k, isBig) \/ OtherPost(p, k, isBig)
        PROVE  EchoInv'
    <2>1. UNCHANGED <<shown, heard, listeners>> /\ mine' \subseteq mine \cup {Cardinality(Posts) + 1}
      BY <1>4 DEF CallPost, OtherPost
    <2>2. \A e \in Posts : e.id # Cardinality(Posts) + 1
      <3>1. \A e \in Posts : e.id \in Nat
        BY PostsTyped DEF Post
      <3>. QED BY <1>0, <3>1, PostsFinite
    <2>. QED BY <1>0, <2>1, <2>2, EchoKept DEF At
  <1>5. ASSUME NEW g \in DOMAIN listeners, Listen(g) PROVE EchoInv'
    <2>1. CASE Dial(g)
      <3>1. UNCHANGED <<shown, heard, mine>>
            /\ \E s \in Streams : listeners' =
                  [listeners EXCEPT ![g].at = "reading", ![g].stream = s, ![g].next = 1]
        BY <2>1 DEF Dial
      <3>2. \A x \in DOMAIN listeners' :
               /\ x \in DOMAIN listeners
               /\ (x = g /\ listeners'[x].at = "reading") \/ listeners'[x] = listeners[x]
        BY <1>0, <3>1 DEF Listener
      <3>. QED BY <1>0, <3>1, <3>2, EchoKept DEF At
    <2>2. ASSUME NEW at \in {"dialing", "backoff", "gone"}, Goto(g, at), UNCHANGED <<shown, heard, mine>>
          PROVE  EchoInv'
      <3>1. \A x \in DOMAIN listeners' :
               /\ x \in DOMAIN listeners
               /\ (x = g /\ listeners'[x].at = at) \/ listeners'[x] = listeners[x]
        BY <1>0, <2>2 DEF Goto, Listener
      <3>. QED BY <1>0, <2>2, <3>1, EchoKept DEF At
    <2>3. CASE DialFails(g) \/ StreamEnds(g) \/ ConnectionBreaks(g) \/ Retry(g) \/ Stop(g)
      BY <2>2, <2>3 DEF DialFails, StreamEnds, ConnectionBreaks, Retry, Stop
    <2>4. CASE ReadEvent(g)
      <3> DEFINE s == listeners[g].stream
                 e == got[s][listeners[g].next]
      <3>1. /\ UNCHANGED <<shown, heard, mine>> /\ At(g) = "reading"
            /\ Goto(g, "backoff") \/ Goto(g, "gone") \/ PassOn(g, e)
        BY <2>4 DEF ReadEvent
      <3>2. e \in Posts
        <4>1. s \in Streams /\ listeners[g].next \in 1..Len(got[s])
          <5>1. At(g) = "reading" /\ listeners[g].next <= Len(got[listeners[g].stream])
            BY <2>4 DEF ReadEvent
          <5>. QED BY <1>0, <5>1, NextIsPost
        <4>. QED BY <4>1 DEF PostsInv, Elems
      <3> HIDE DEF e
      <3>3. CASE Goto(g, "backoff") \/ Goto(g, "gone")
        BY <2>2, <3>1, <3>3
      <3>4. CASE PassOn(g, e)
        <4>1. \A x \in DOMAIN listeners' :
                  x \in DOMAIN listeners /\
                  \/ listeners'[x] = listeners[x]
                  \/ x = g /\ listeners'[x].at = "reading"
                  \/ x = g /\ listeners'[x].held = e /\ e.id \notin mine
          <5>1. CASE listeners' = [listeners EXCEPT ![g].next = @ + 1]
            BY <1>0, <3>1, <5>1 DEF Listener, At
          <5>2. CASE /\ listeners' = [listeners EXCEPT ![g].at = "writing", ![g].held = e,
                                                      ![g].next = @ + 1]
                     /\ e.id \notin mine
            <6>1. listeners'[g] = [listeners[g] EXCEPT !.at = "writing", !.held = e, !.next = @ + 1]
              BY <1>0, <5>2
            <6>2. listeners'[g].held = e
              <7>1. e \in Post /\ listeners[g] \in Listener
                BY <1>0, <3>2, PostsTyped
              <7>2. [listeners[g] EXCEPT !.at = "writing", !.held = e, !.next = @ + 1].held = e
                BY <7>1 DEF Listener
              <7>. QED BY <6>1, <7>2, Zenon
            <6>3. \A x \in DOMAIN listeners' :
                     x \in DOMAIN listeners /\ (x # g => listeners'[x] = listeners[x])
              BY <5>2
            <6>. QED BY <5>2, <6>2, <6>3
          <5>. QED BY <3>4, <5>1, <5>2 DEF PassOn, IsSelfEcho
        <4>. QED BY <1>0, <3>1, <3>2, <4>1 DEF EchoInv, At
      <3>. QED BY <3>1, <3>3, <3>4
    <2>5. CASE WriteNotification(g)
      <3> DEFINE e == listeners[g].held
      <3>1. /\ heard' = IF e.kind = "message" THEN [heard EXCEPT ![g] = Append(@, e)] ELSE heard
            /\ shown' = IF e.kind = "artifact" THEN shown \cup {<<g, e>>} ELSE shown
            /\ mine' = mine
            /\ listeners' = [listeners EXCEPT ![g].at = "reading", ![g].held = NoPost]
        BY <2>5 DEF WriteNotification
      <3>2. e \in Posts /\ e \in Post /\ e.id \notin mine /\ g \in Indices
        BY <2>5, PostsTyped, ListenIndices DEF WriteNotification, EchoInv
      <3>3. \A x \in DOMAIN listeners' :
                 /\ x \in DOMAIN listeners
                 /\ (x = g /\ listeners'[x].at = "reading") \/ listeners'[x] = listeners[x]
        BY <1>0, <3>1 DEF Listener
      <3> HIDE DEF e
      <3>4. \A x \in shown' : x[2] \in Posts' /\ x[2].id \notin mine'
        BY <1>0, <3>1, <3>2 DEF EchoInv
      <3>5. heard[g] \in Seq(Post) /\ heard \in [Indices -> Seq(Post)]
        BY <3>2 DEF EchoInv
      <3>6. /\ Append(heard[g], e) \in Seq(Post)
            /\ Elems(Append(heard[g], e)) = Elems(heard[g]) \cup {e}
        BY <3>2, <3>5, AppendElems
      <3>7. heard' \in [Indices -> Seq(Post)]
        BY <3>1, <3>5, <3>6
      <3>8. \A x \in Indices : Elems(heard'[x]) \subseteq Elems(heard[x]) \cup {e}
        BY <3>1, <3>5, <3>6
      <3>9. \A x \in Indices : \A d \in Elems(heard'[x]) : d \in Posts' /\ d.id \notin mine'
        BY <1>0, <3>1, <3>2, <3>8 DEF EchoInv
      <3>10. \A x \in DOMAIN listeners' : listeners'[x].at = "writing" =>
                listeners'[x].held \in Posts' /\ listeners'[x].held.id \notin mine'
        BY <1>0, <3>1, <3>3 DEF EchoInv, At
      <3>. QED BY <3>4, <3>7, <3>9, <3>10 DEF EchoInv, At
    <2>. QED BY <1>5, <2>1, <2>3, <2>4, <2>5 DEF Listen
  <1>6. CASE \/ CallListSubscriptions \/ PublishAny
             \/ (\E s \in Streams : Handler(s))
             \/ ((CloseAll \/ Shutdown) /\ UNCHANGED mcpVars) \/ UNCHANGED allVars
    <2>1. UNCHANGED <<shown, heard, mine, listeners>>
      BY <1>6 DEF CallListSubscriptions, PublishAny, Handler, allVars
    <2>. QED BY <1>0, <2>1, EchoKept DEF At
  <1>. QED BY <1>1, <1>2, <1>3, <1>4, <1>5, <1>6 DEF McpNext

-----------------------------------------------------------------------------
(* The order of what they pass on. *)

\* A project's publications grow by one that was not there.
Grows ==
    \/ UNCHANGED published
    \/ \E e \in Post : /\ e \notin Elems(published[e.project])
                       /\ published' = [published EXCEPT ![e.project] = Append(@, e)]

\* What a connected stream carries stays where it is, and what joins it is an artifact or
\* the last message published.
Moves(s) ==
    /\ \A n \in 1..Len(got[s]) : n \in 1..Len(got'[s]) /\ got'[s][n] = got[s][n]
    /\ \/ Live(s)' = Live(s)
       \/ \E e \in Post :
            /\ Live(s)' = Append(Live(s), e)
            /\ e.kind = "message" =>
                  \A d \in Elems(published[project[s]]) : d.project = project[s] => Before(d, e)'

\* Publications keep their places when they grow.
LEMMA GrownElems ==
  ASSUME PublishedInv, Grows, NEW p \in Projects
  PROVE  /\ Elems(published[p]) \subseteq Elems(published'[p])
         /\ DOMAIN published[p] \subseteq DOMAIN published'[p]
         /\ \A n \in DOMAIN published[p] : published'[p][n] = published[p][n]
  <1>1. published[p] \in Seq(Post) /\ published \in [Projects -> Seq(Post)]
    BY DEF PublishedInv
  <1>2. CASE published'[p] = published[p]
    BY <1>2
  <1>3. CASE \E e \in Post : published'[p] = Append(published[p], e)
    <2>1. PICK e \in Post : published'[p] = Append(published[p], e)
      BY <1>3
    <2>. QED BY <1>1, <2>1, AppendElems
  <1>4. published'[p] = published[p] \/ \E e \in Post : published'[p] = Append(published[p], e)
    BY <1>1 DEF Grows, Post
  <1>. QED BY <1>2, <1>3, <1>4

\* What was published before stays so.
LEMMA BeforeKept ==
  ASSUME PublishedInv, Grows, NEW d \in Post, NEW e, Before(d, e)
  PROVE  Before(d, e)'
  <1>1. d.project \in Projects
    BY DEF Post
  <1>. QED BY <1>1, GrownElems DEF Before

\* What is published last comes after all of its project.
LEMMA BeforeLast ==
  ASSUME PublishedInv, NEW e \in Post, published' = [published EXCEPT ![e.project] = Append(@, e)],
         NEW d \in Elems(published[e.project]), d.project = e.project
  PROVE  Before(d, e)'
  <1> DEFINE q == published[e.project]
  <1>1. q \in Seq(Post) /\ e.project \in Projects /\ published \in [Projects -> Seq(Post)]
    BY DEF PublishedInv, Post
  <1>2. published'[e.project] = Append(q, e)
    BY <1>1
  <1> HIDE DEF q
  <1>3. PICK n \in 1..Len(q) : q[n] = d
    BY DEF Elems, q
  <1>4. /\ Len(q) \in Nat /\ Len(Append(q, e)) = Len(q) + 1
        /\ Append(q, e)[n] = d /\ Append(q, e)[Len(q) + 1] = e
        /\ DOMAIN Append(q, e) = 1..(Len(q) + 1)
    BY <1>1, <1>3, AppendElems
  <1>5. n \in DOMAIN Append(q, e) /\ Len(q) + 1 \in DOMAIN Append(q, e) /\ n < Len(q) + 1
    BY <1>4
  <1>. QED BY <1>2, <1>4, <1>5 DEF Before

\* Of two messages of a stream the first was published before the second.
LEMMA LiveBefore ==
  ASSUME Inv, EventInv, PostsInv, NEW s \in Streams, NEW m \in 1..Len(Live(s)),
         Live(s)[m].kind = "message"
  PROVE  /\ Live(s)[m] \in Elems(published[project[s]]) /\ Live(s)[m].project = project[s]
         /\ \A n \in 1..Len(Live(s)) : m < n /\ Live(s)[n].kind = "message" =>
               Before(Live(s)[m], Live(s)[n])
  <1> DEFINE q == published[project[s]]
  <1>1. /\ project[s] \in Projects /\ q \in Seq(Post) /\ Distinct(q)
    BY DEF Inv, BusTypeOK, EventInv, PublishedInv
  <1>2. PICK c \in 0..Len(got[s]) : CutAt(s, c)
    BY DEF EventInv, Served
  <1>3. /\ Len(got[s]) \in Nat /\ Len(Live(s)) \in Nat /\ Len(got[s]) <= Len(Live(s))
        /\ \A k \in 1..Len(got[s]) : Live(s)[k] = got[s][k]
    BY LiveElems DEF EventInv
  <1>4. \A k \in 1..c : Live(s)[k].kind = "artifact"
    BY <1>2, <1>3 DEF CutAt
  <1>5. ASSUME NEW k \in 1..Len(Live(s)), Live(s)[k].kind = "message"
        PROVE  Live(s)[k] \in Elems(q) /\ k \in (c + 1)..Len(Live(s))
    <2>1. k \in (c + 1)..Len(Live(s))
      BY <1>3, <1>4, <1>5
    <2>. QED BY <1>2, <2>1 DEF CutAt
  <1>6. Live(s)[m] \in Elems(q) /\ Live(s)[m].project = project[s]
    BY <1>1, <1>5 DEF PostsInv
  <1>7. ASSUME NEW n \in 1..Len(Live(s)), m < n, Live(s)[n].kind = "message"
        PROVE  Before(Live(s)[m], Live(s)[n])
    <2>1. Place(q, Live(s)[m]) < Place(q, Live(s)[n])
      BY <1>7, InOrder DEF MessagesInOrder, Inv
    <2>2. PICK i \in 1..Len(q) : q[i] = Live(s)[m]
      BY <1>6 DEF Elems
    <2>3. PICK j \in 1..Len(q) : q[j] = Live(s)[n]
      BY <1>5, <1>7 DEF Elems
    <2>4. Place(q, Live(s)[m]) = i /\ Place(q, Live(s)[n]) = j
      BY <1>1, <2>2, <2>3, PlaceOf
    <2>5. i \in DOMAIN q /\ j \in DOMAIN q
      BY <1>1
    <2>. QED BY <1>6, <2>1, <2>2, <2>3, <2>4, <2>5 DEF Before
  <1>. QED BY <1>6, <1>7

\* What was heard stays in order while no more is heard.
LEMMA HeardKept ==
  ASSUME EchoInv, PublishedInv, Grows, NEW g \in Indices, HeardInv(g), heard'[g] = heard[g],
         \A x \in DOMAIN listeners : listeners[x].project \in Projects,
         g \in DOMAIN listeners => g \in DOMAIN listeners' /\ listeners'[g].project = listeners[g].project
  PROVE  HeardInv(g)'
  <1>1. heard[g] \in Seq(Post)
    BY DEF EchoInv
  <1>2. ASSUME NEW m \in 1..Len(heard[g]), NEW n \in 1..Len(heard[g]), m < n
        PROVE  Before(heard[g][m], heard[g][n])'
    <2>1. Before(heard[g][m], heard[g][n]) /\ heard[g][m] \in Post
      BY <1>1, <1>2 DEF HeardInv
    <2>2. heard'[g][m] = heard[g][m] /\ heard'[g][n] = heard[g][n]
      OBVIOUS
    <2>3. \A e : Before(heard[g][m], e) => \E i, j \in DOMAIN published'[heard[g][m].project] :
              i < j /\ published'[heard[g][m].project][i] = heard[g][m] /\ published'[heard[g][m].project][j] = e
      BY <2>1, BeforeKept DEF Before
    <2>. QED BY <2>1, <2>2, <2>3 DEF Before
  <1>3. Elems(heard'[g]) = Elems(heard[g])
    BY DEF Elems
  <1>4. Elems(heard[g]) # {} => /\ g \in DOMAIN listeners'
                                /\ Elems(heard[g]) \subseteq Elems(published'[listeners'[g].project])
    BY GrownElems DEF HeardInv
  <1>. QED BY <1>2, <1>3, <1>4 DEF HeardInv

\* A listener that is where it was is ahead of what it heard as before.
LEMMA AheadKept ==
  ASSUME EchoInv, PublishedInv, PostsInv, StreamTypeOK, StreamTypeOK', Grows,
         NEW g \in Indices, g \in DOMAIN listeners, HeardInv(g), AheadInv(g),
         heard'[g] = heard[g], listeners[g].next \in Nat \ {0},
         listeners'[g].at = listeners[g].at, listeners'[g].next = listeners[g].next,
         listeners'[g].held = listeners[g].held, listeners'[g].stream = listeners[g].stream,
         At(g) \in {"reading", "writing"} =>
             /\ listeners[g].stream \in Streams /\ Moves(listeners[g].stream)
             /\ project[listeners[g].stream] = listeners[g].project
             /\ listeners[g].project \in Projects
  PROVE  AheadInv(g)'
  <1> SUFFICES ASSUME At(g) \in {"reading", "writing"} PROVE AheadInv(g)'
    BY DEF AheadInv, At
  <1>0. PICK s \in Streams, p \in Projects :
          s = listeners[g].stream /\ p = listeners[g].project
    OBVIOUS
  <1>1. Moves(s) /\ project[s] = p /\ heard[g] \in Seq(Post)
    BY <1>0 DEF EchoInv
  <1>2. /\ listeners[g].next \in 1..(Len(got[s]) + 1)
        /\ At(g) = "writing" => From(g) \in 1..Len(got[s]) /\ listeners[g].held = got[s][From(g)]
        /\ \A n \in From(g)..Len(Live(s)) : Live(s)[n].kind = "message" =>
               \A d \in Elems(heard[g]) : Before(d, Live(s)[n])
    BY <1>0 DEF AheadInv
  <1>3. PICK f \in Nat : f = From(g) /\ f = From(g)' /\ f # 0
    <2>1. From(g) \in Nat \ {0} /\ From(g)' = From(g)
      BY <1>2 DEF From, At
    <2>. QED BY <2>1
  <1>4. Len(got[s]) \in Nat /\ Len(got'[s]) \in Nat /\ Len(Live(s)) \in Nat /\ Live(s) \in Seq(Post)
    BY LiveElems DEF StreamTypeOK
  <1>5. /\ Len(got[s]) <= Len(got'[s])
        /\ \A n \in 1..Len(got[s]) : n \in 1..Len(got'[s]) /\ got'[s][n] = got[s][n]
    <2>1. \A n \in 1..Len(got[s]) : n \in 1..Len(got'[s]) /\ got'[s][n] = got[s][n]
      BY <1>1 DEF Moves
    <2>2. Len(got[s]) = 0 \/ Len(got[s]) \in 1..Len(got[s])
      BY <1>4
    <2>. QED BY <1>4, <2>1, <2>2
  <1>6. ASSUME NEW d \in Elems(heard[g])
        PROVE  d \in Post /\ d \in Elems(published[p]) /\ d.project = p
    <2>1. d \in Post /\ d \in Elems(published[p])
      <3>1. d \in Posts
        BY DEF EchoInv
      <3>2. Elems(heard[g]) \subseteq Elems(published[p])
        BY <1>0, <1>6 DEF HeardInv
      <3>. QED BY <3>1, <3>2, PostsTyped
    <2>. QED BY <2>1 DEF PostsInv
  <1>7. ASSUME NEW n \in f..Len(Live(s)'), NEW e, e = Live(s)'[n], e.kind = "message",
               NEW d \in Elems(heard[g])
        PROVE  Before(d, e)'
    <2>1. CASE n \in f..Len(Live(s)) /\ Live(s)'[n] = Live(s)[n]
      <3>1. Before(d, e)
        BY <1>2, <1>3, <1>7, <2>1
      <3>. QED BY <1>6, <3>1, BeforeKept
    <2>2. CASE Live(s)' = Live(s)
      BY <1>7, <2>1, <2>2
    <2>3. ASSUME NEW x \in Post, Live(s)' = Append(Live(s), x),
                 x.kind = "message" =>
                    \A y \in Elems(published[project[s]]) : y.project = project[s] => Before(y, x)'
          PROVE  Before(d, e)'
      <3>1. /\ Len(Live(s)') = Len(Live(s)) + 1 /\ Live(s)'[Len(Live(s)) + 1] = x
            /\ \A i \in 1..Len(Live(s)) : Live(s)'[i] = Live(s)[i]
        BY <1>4, <2>3, AppendElems
      <3>2. CASE n = Len(Live(s)) + 1
        BY <1>1, <1>6, <1>7, <2>3, <3>1, <3>2
      <3>3. CASE n # Len(Live(s)) + 1
        <4>1. n \in f..Len(Live(s)) /\ n \in 1..Len(Live(s))
          BY <1>3, <1>4, <1>7, <3>1, <3>3
        <4>. QED BY <2>1, <3>1, <4>1
      <3>. QED BY <3>2, <3>3
    <2>. QED BY <1>1, <2>2, <2>3 DEF Moves
  <1>8. /\ listeners'[g].stream = s /\ Elems(heard'[g]) = Elems(heard[g])
    BY <1>0 DEF Elems
  <1>9. listeners'[g].next \in 1..(Len(got'[s]) + 1)
    BY <1>2, <1>4, <1>5
  <1>10. At(g)' = "writing" => f \in 1..Len(got'[s]) /\ listeners'[g].held = got'[s][f]
    BY <1>2, <1>3, <1>5 DEF At
  <1>. QED BY <1>3, <1>7, <1>8, <1>9, <1>10 DEF AheadInv

\* A stream that carries the same has moved nowhere.
LEMMA StillMoves ==
  ASSUME NEW s \in Streams, got'[s] = got[s], buffer'[s] = buffer[s]
  PROVE  Moves(s)
  <1>1. Live(s)' = Live(s)
    BY DEF Live
  <1>. QED BY <1>1 DEF Moves

\* Every step of the broker publishes one post at most and moves the streams forward.
LEMMA NextMoves ==
  ASSUME Inv, EventInv, PostsInv, [Next]_vars
  PROVE  Grows /\ \A s \in Streams : Moves(s)
  <1> USE DEF storeVars, busVars, streamVars, vars
  <1>0. /\ StreamTypeOK /\ StoreInv /\ PublishedInv /\ project \in [Streams -> Projects]
        /\ subs \in [Projects -> SUBSET Streams]
    BY DEF EventInv, Inv, BusTypeOK
  <1>1. ASSUME UNCHANGED <<got, buffer, published>> PROVE Grows /\ \A s \in Streams : Moves(s)
    BY <1>1, StillMoves DEF Grows
  <1>2. ASSUME NEW s \in Streams, StreamStep(s) \/ ClientGone(s)
        PROVE  Grows /\ \A t \in Streams : Moves(t)
    <2>1. CASE Snapshot(s) \/ CountConnection(s) \/ Subscribe(s) \/ Leave(s) \/ Uncount(s)
      BY <1>1, <2>1 DEF Snapshot, CountConnection, Subscribe, Leave, Uncount
    <2>2. CASE SendInitial(s)
      <3>1. /\ pc[s] = "snapshot" /\ initial[s] # <<>>
            /\ got' = got \/ got' = [got EXCEPT ![s] = Append(@, Head(initial[s]))]
            /\ UNCHANGED <<buffer, published>>
        BY <2>2 DEF SendInitial
      <3>2. /\ buffer[s] = <<>> /\ Head(initial[s]).kind = "artifact"
            /\ Head(initial[s]) \in Post /\ got[s] \in Seq(Post)
        <4>1. /\ buffer[s] = <<>> /\ \A m \in 1..Len(initial[s]) : initial[s][m].kind = "artifact"
          BY <3>1 DEF EventInv, Served, StageInv
        <4>2. initial[s] \in Seq(Post) /\ got[s] \in Seq(Post)
          BY <1>0 DEF StreamTypeOK
        <4>3. Head(initial[s]) = initial[s][1] /\ 1 \in 1..Len(initial[s]) /\ Head(initial[s]) \in Post
          BY <3>1, <4>2
        <4>. QED BY <4>1, <4>2, <4>3
      <3> DEFINE e == Head(initial[s])
      <3>3. CASE got'[s] = Append(got[s], e)
        <4>1. Live(s) = got[s]
          BY <3>2, ConcatEmptySeq DEF Live
        <4>2. got'[s] \in Seq(Post) /\ buffer'[s] = <<>>
          BY <3>1, <3>2, <3>3, AppendElems
        <4>3. Live(s)' = Append(got[s], e)
          BY <3>3, <4>2, ConcatEmptySeq DEF Live
        <4>4. \A n \in 1..Len(got[s]) : n \in 1..Len(got'[s]) /\ got'[s][n] = got[s][n]
          BY <3>2, <3>3, AppendElems
        <4> HIDE DEF e
        <4>5. e \in Post /\ e.kind # "message"
          BY <3>2 DEF e
        <4>6. Moves(s)
          BY <4>1, <4>3, <4>4, <4>5 DEF Moves
        <4>7. \A t \in Streams \ {s} : got'[t] = got[t] /\ buffer'[t] = buffer[t]
          BY <1>0, <3>1 DEF StreamTypeOK
        <4>. QED BY <3>1, <4>6, <4>7, StillMoves DEF Grows
      <3>4. CASE got' = got
        BY <1>1, <3>1, <3>4
      <3>. QED BY <1>0, <3>1, <3>3, <3>4 DEF StreamTypeOK
    <2>3. CASE SendEvent(s)
      <3>1. /\ buffer[s] # <<>> /\ got' = [got EXCEPT ![s] = Append(@, Head(buffer[s]))]
            /\ buffer' = [buffer EXCEPT ![s] = Tail(@)] /\ published' = published
        BY <2>3 DEF SendEvent
      <3>2. got[s] \in Seq(Post) /\ buffer[s] \in Seq(Post)
        BY <1>0 DEF StreamTypeOK
      <3>3. got'[s] = Append(got[s], Head(buffer[s])) /\ buffer'[s] = Tail(buffer[s])
        BY <1>0, <3>1 DEF StreamTypeOK
      <3>4. Head(buffer[s]) \in Post
        BY <3>1, <3>2, TailElems
      <3>5. Live(s)' = Live(s)
        <4>1. Append(got[s], Head(buffer[s])) \o Tail(buffer[s]) = got[s] \o buffer[s]
          BY <3>1, <3>2, MoveHead, Zenon
        <4>. QED BY <3>3, <4>1 DEF Live
      <3>6. \A n \in 1..Len(got[s]) : n \in 1..Len(got'[s]) /\ got'[s][n] = got[s][n]
        BY <3>2, <3>3, <3>4, AppendElems
      <3>7. Moves(s)
        BY <3>5, <3>6 DEF Moves
      <3>8. \A t \in Streams \ {s} : Moves(t)
        BY <1>0, <3>1, StillMoves DEF StreamTypeOK
      <3>. QED BY <3>1, <3>7, <3>8 DEF Grows
    <2>. QED BY <1>2, <2>1, <2>2, <2>3 DEF StreamStep, ClientGone, ChannelClosed
  <1>3. ASSUME NEW post \in pending, Publish(post)
        PROVE  Grows /\ \A s \in Streams : Moves(s)
    <2>1. /\ post \in Post /\ post.project \in Projects /\ post \notin Elems(published[post.project])
          /\ published' = [published EXCEPT ![post.project] = Append(@, post)] /\ got' = got
      BY <1>0, <1>3, PostsTyped DEF Publish, PublishedInv, Post
    <2>2. ASSUME NEW s \in Streams PROVE Moves(s)
      <3>1. got[s] \in Seq(Post) /\ buffer[s] \in Seq(Post)
        BY <1>0 DEF StreamTypeOK
      <3>2. CASE buffer'[s] = buffer[s]
        BY <2>1, <3>2, StillMoves
      <3>3. CASE buffer'[s] = Append(buffer[s], post) /\ s \in subs[post.project]
        <4>1. project[s] = post.project
          BY <2>1, <3>3 DEF Inv, BusInv
        <4>2. Live(s)' = Append(Live(s), post)
          <5>1. got[s] \o Append(buffer[s], post) = Append(got[s] \o buffer[s], post)
            BY <2>1, <3>1, AppendConcat, Zenon
          <5>. QED BY <2>1, <3>3, <5>1 DEF Live
        <4>3. \A d \in Elems(published[project[s]]) : d.project = project[s] => Before(d, post)'
          BY <1>0, <2>1, <4>1, BeforeLast
        <4>. QED BY <2>1, <4>2, <4>3 DEF Moves
      <3>4. \/ buffer'[s] = buffer[s]
            \/ buffer'[s] = Append(buffer[s], post) /\ s \in subs[post.project]
        BY <1>3 DEF Publish
      <3>. QED BY <3>2, <3>3, <3>4
    <2>. QED BY <2>1, <2>2 DEF Grows
  <1>4. ASSUME NEW p \in Projects, NEW k \in Kind, StorePost(p, k)
        PROVE  Grows /\ \A s \in Streams : Moves(s)
    BY <1>1, <1>4 DEF StorePost
  <1>5. CASE CloseAll \/ Shutdown \/ UNCHANGED vars
    BY <1>1, <1>5 DEF CloseAll, Shutdown
  <1>. QED BY <1>2, <1>3, <1>4, <1>5 DEF Next

\* A step that lets nobody hear anything keeps what was heard in order, if those that take
\* another place in their stream are ahead there.
LEMMA HeardRest ==
  ASSUME ListenerAssumption, EventInv, StreamTypeOK', ListenInv, PostsInv, EchoInv, HeardAllInv,
         Grows, UNCHANGED project, listeners' \in Seq(Listener), Len(listeners') <= MaxListeners,
         \A g \in Indices : heard'[g] = heard[g] \/ HeardInv(g)',
         \A g \in DOMAIN listeners :
            g \in DOMAIN listeners' /\ listeners'[g].project = listeners[g].project,
         \A g \in DOMAIN listeners' :
            \/ listeners'[g].at \notin {"reading", "writing"}
            \/ AheadInv(g)'
            \/ /\ g \in DOMAIN listeners /\ heard'[g] = heard[g]
               /\ listeners'[g].at = listeners[g].at /\ listeners'[g].next = listeners[g].next
               /\ listeners'[g].held = listeners[g].held
               /\ listeners'[g].stream = listeners[g].stream
               /\ At(g) \in {"reading", "writing"} => Moves(listeners[g].stream)
  PROVE  HeardAllInv'
  <1>1. ASSUME NEW g \in Indices PROVE HeardInv(g)'
    <2>1. HeardInv(g) /\ PublishedInv /\ \A x \in DOMAIN listeners : listeners[x].project \in Projects
      BY ListenerProjects DEF HeardAllInv, EventInv
    <2>. QED BY <2>1, HeardKept
  <1>2. ASSUME NEW g \in DOMAIN listeners' PROVE AheadInv(g)'
    <2>1. CASE listeners'[g].at \notin {"reading", "writing"}
      BY <2>1 DEF AheadInv, At
    <2>2. CASE AheadInv(g)'
      BY <2>2
    <2>3. CASE /\ g \in DOMAIN listeners /\ heard'[g] = heard[g]
               /\ listeners'[g].at = listeners[g].at /\ listeners'[g].next = listeners[g].next
               /\ listeners'[g].held = listeners[g].held
               /\ listeners'[g].stream = listeners[g].stream
               /\ At(g) \in {"reading", "writing"} => Moves(listeners[g].stream)
      <3>1. /\ g \in Indices /\ listeners[g] \in Listener /\ listeners[g].project \in Projects
        BY <2>3, ListenIndices, ListenerProjects DEF ListenInv, ListenType
      <3>2. listeners[g].next \in Nat \ {0} /\ HeardInv(g) /\ AheadInv(g) /\ heard'[g] = heard[g]
        BY <2>3, <3>1 DEF Listener, HeardAllInv
      <3>3. At(g) \in {"reading", "writing"} => /\ listeners[g].stream \in Streams
                /\ project[listeners[g].stream] = listeners[g].project
        BY <2>3 DEF ListenInv, HandInv
      <3>. QED BY <2>3, <3>1, <3>2, <3>3, AheadKept DEF EventInv
    <2>. QED BY <2>1, <2>2, <2>3
  <1>. QED BY <1>1, <1>2 DEF HeardAllInv

\* The goroutine that moves leaves the others where they are.
LEMMA OneMoves ==
  ASSUME ListenerAssumption, EventInv, ListenInv, ListenInv', PostsInv, EchoInv, HeardAllInv,
         UNCHANGED vars, NEW g \in DOMAIN listeners, NEW l, listeners' = [listeners EXCEPT ![g] = l],
         l.project = listeners[g].project,
         \A x \in Indices \ {g} : heard'[x] = heard[x],
         heard'[g] = heard[g] \/ HeardInv(g)',
         l.at \notin {"reading", "writing"} \/ AheadInv(g)'
  PROVE  HeardAllInv'
  <1>0. UNCHANGED <<project, published, got, buffer, initial, missed>>
    BY DEF vars, streamVars, storeVars, busVars
  <1>1. /\ listeners'[g] = l /\ DOMAIN listeners' = DOMAIN listeners
        /\ \A x \in DOMAIN listeners \ {g} : listeners'[x] = listeners[x]
        /\ listeners' \in Seq(Listener) /\ Len(listeners') <= MaxListeners
        /\ \A x \in DOMAIN listeners : x \in Indices
    BY ListenIndices DEF ListenInv, ListenType
  <1>2. Grows /\ StreamTypeOK'
    BY <1>0 DEF Grows, EventInv, StreamTypeOK
  <1>3. \A x \in DOMAIN listeners : At(x) \in {"reading", "writing"} => Moves(listeners[x].stream)
    <2>1. \A x \in DOMAIN listeners : At(x) \in {"reading", "writing"} => listeners[x].stream \in Streams
      BY DEF ListenInv, HandInv
    <2>. QED BY <1>0, <2>1, StillMoves
  <1>4. ASSUME NEW x \in DOMAIN listeners \ {g}
        PROVE  /\ heard'[x] = heard[x] /\ listeners'[x] = listeners[x]
               /\ At(x) \in {"reading", "writing"} => Moves(listeners[x].stream)
    BY <1>1, <1>3
  <1>. QED BY <1>0, <1>1, <1>2, <1>4, HeardRest

\* What a goroutine passes on comes after all it has heard.
LEMMA WriteInOrder ==
  ASSUME ListenerAssumption, Inv, EventInv, ListenInv, ListenInv', PostsInv, EchoInv, EchoInv',
         HeardAllInv, NEW g \in DOMAIN listeners, WriteNotification(g)
  PROVE  HeardAllInv'
  <1> DEFINE l == [listeners[g] EXCEPT !.at = "reading", !.held = NoPost]
  <1>1. /\ listeners[g] \in Listener /\ g \in Indices /\ At(g) = "writing"
        /\ listeners' = [listeners EXCEPT ![g] = l] /\ UNCHANGED vars
        /\ heard \in [Indices -> Seq(Post)] /\ HeardInv(g) /\ AheadInv(g)
    <2>1. listeners[g] \in Listener /\ g \in Indices
      BY ListenIndices DEF ListenInv, ListenType
    <2>2. At(g) = "writing" /\ listeners' = [listeners EXCEPT ![g] = l] /\ UNCHANGED vars
      BY DEF WriteNotification
    <2>3. heard \in [Indices -> Seq(Post)]
      BY DEF EchoInv
    <2>4. HeardInv(g) /\ AheadInv(g)
      BY <2>1 DEF HeardAllInv
    <2>. QED BY <2>1, <2>2, <2>3, <2>4
  <1>2. /\ l.project = listeners[g].project /\ l.at = "reading" /\ l.next = listeners[g].next
        /\ l.stream = listeners[g].stream
    BY <1>1 DEF Listener
  <1>3. PICK s \in Streams, p \in Projects, e \in Post, f \in Nat, h \in Seq(Post) :
          /\ s = listeners[g].stream /\ p = listeners[g].project /\ project[s] = p
          /\ e = listeners[g].held /\ f = From(g) /\ h = heard[g]
    <2>1. listeners[g].held \in Post
      BY <1>1, PostsTyped DEF EchoInv
    <2>2. listeners[g].stream \in Streams /\ project[listeners[g].stream] = listeners[g].project
      BY <1>1 DEF ListenInv, HandInv
    <2>3. From(g) \in Nat /\ listeners[g].project \in Projects
      BY <1>1 DEF From, Listener
    <2>4. heard[g] \in Seq(Post)
      BY <1>1
    <2>. QED BY <2>1, <2>2, <2>3, <2>4
  <1>4. listeners'[g] = l /\ listeners[g].next = f + 1 /\ listeners[g].next \in Nat
    BY <1>1, <1>3 DEF From, ListenInv, ListenType, Listener
  <1> HIDE DEF l
  <1>5. /\ f + 1 \in 1..(Len(got[s]) + 1) /\ f \in 1..Len(got[s]) /\ e = got[s][f]
        /\ \A n \in f..Len(Live(s)) : Live(s)[n].kind = "message" =>
               \A d \in Elems(h) : Before(d, Live(s)[n])
    BY <1>1, <1>3, <1>4 DEF AheadInv
  <1>6. /\ Live(s) \in Seq(Post) /\ Len(Live(s)) \in Nat /\ Len(got[s]) \in Nat
        /\ Len(got[s]) <= Len(Live(s)) /\ Live(s)[f] = e
    BY <1>5, LiveElems DEF EventInv
  <1>7. /\ UNCHANGED <<published, got, buffer>> /\ Live(s)' = Live(s)
        /\ \A d, x : Before(d, x)' <=> Before(d, x)
    BY <1>1 DEF vars, storeVars, busVars, streamVars, Live, Before
  <1>8. ASSUME heard'[g] = h \/ (e.kind = "message" /\ heard'[g] = Append(h, e))
        PROVE  AheadInv(g)' /\ HeardInv(g)'
    <2>1. Elems(h) # {} => Elems(h) \subseteq Elems(published[p])
      BY <1>3, <1>1 DEF HeardInv
    <2>2. \A m, n \in 1..Len(h) : m < n => Before(h[m], h[n])
      BY <1>3, <1>1 DEF HeardInv
    <2>3. e.kind = "message" => /\ e \in Elems(published[p])
               /\ \A n \in 1..Len(Live(s)) : f < n /\ Live(s)[n].kind = "message" => Before(e, Live(s)[n])
      BY <1>3, <1>5, <1>6, LiveBefore
    <2>4. /\ Len(Append(h, e)) = Len(h) + 1 /\ Append(h, e)[Len(h) + 1] = e /\ Len(h) \in Nat
          /\ \A n \in 1..Len(h) : Append(h, e)[n] = h[n]
          /\ Elems(Append(h, e)) = Elems(h) \cup {e}
      BY <1>3, AppendElems
    <2>5. PICK q \in {h, Append(h, e)} : q = heard'[g] /\ (q # h => e.kind = "message")
      BY <1>8
    <2>6. /\ Elems(q) \subseteq Elems(h) \cup {e}
          /\ q # h => Len(q) = Len(h) + 1 /\ q[Len(h) + 1] = e
          /\ \A n \in 1..Len(h) : q[n] = h[n]
          /\ q = h \/ q = Append(h, e)
      BY <2>4, <2>5
    <2>7. ASSUME NEW n \in (f + 1)..Len(Live(s)), Live(s)[n].kind = "message", NEW d \in Elems(q)
          PROVE  Before(d, Live(s)[n])
      <3>1. n \in f..Len(Live(s)) /\ n \in 1..Len(Live(s)) /\ f < n
        BY <1>6, <2>7
      <3>2. CASE d \in Elems(h)
        BY <1>5, <2>7, <3>1, <3>2
      <3>3. CASE d \notin Elems(h)
        <4>1. d = e /\ q # h
          BY <2>6, <2>7, <3>3
        <4>. QED BY <2>3, <2>5, <2>7, <3>1, <4>1
      <3>. QED BY <3>2, <3>3
    <2>8. AheadInv(g)'
      <3>1. At(g)' = "reading" /\ From(g)' = f + 1 /\ listeners'[g].stream = s
            /\ listeners'[g].next = f + 1
        BY <1>2, <1>3, <1>4 DEF At, From
      <3>. QED BY <1>5, <1>7, <2>5, <2>7, <3>1 DEF AheadInv
    <2>9. ASSUME NEW m \in 1..Len(q), NEW n \in 1..Len(q), m < n PROVE Before(q[m], q[n])
      <3>1. CASE q = h
        BY <2>2, <2>9, <3>1
      <3>2. CASE q # h /\ n = Len(h) + 1
        <4>1. q[n] = e /\ m \in 1..Len(h) /\ q[m] = h[m] /\ e.kind = "message"
          BY <2>4, <2>5, <2>6, <2>9, <3>2
        <4>2. h[m] \in Elems(h)
          BY <4>1 DEF Elems
        <4>. QED BY <1>5, <1>6, <4>1, <4>2
      <3>3. CASE q # h /\ n # Len(h) + 1
        BY <2>2, <2>4, <2>6, <2>9, <3>3
      <3>. QED BY <3>1, <3>2, <3>3
    <2>10. Elems(q) # {} => Elems(q) \subseteq Elems(published[p])
      BY <2>1, <2>3, <2>5, <2>6
    <2>11. HeardInv(g)'
      <3>1. g \in DOMAIN listeners' /\ listeners'[g].project = p
        BY <1>1, <1>2, <1>3, <1>4
      <3>. QED BY <1>7, <2>5, <2>9, <2>10, <3>1 DEF HeardInv
    <2>. QED BY <2>8, <2>11
  <1>9. /\ heard'[g] = h \/ (e.kind = "message" /\ heard'[g] = Append(h, e))
        /\ \A x \in Indices \ {g} : heard'[x] = heard[x]
    BY <1>1, <1>3 DEF WriteNotification
  <1>. QED BY <1>1, <1>2, <1>8, <1>9, OneMoves

\* Reading moves a goroutine on by one place.
LEMMA ReadInOrder ==
  ASSUME ListenerAssumption, EventInv, ListenInv, ListenInv', PostsInv, EchoInv, HeardAllInv,
         NEW g \in DOMAIN listeners, At(g) = "reading", NEW e,
         e = got[listeners[g].stream][listeners[g].next],
         listeners[g].next <= Len(got[listeners[g].stream]),
         PassOn(g, e), e \in Post, UNCHANGED vars, UNCHANGED heard
  PROVE  HeardAllInv'
  <1>1. PICK s \in Streams, f \in Nat : s = listeners[g].stream /\ f = listeners[g].next /\ f # 0
    <2>1. listeners[g] \in Listener /\ listeners[g].stream \in Streams
      BY DEF ListenInv, ListenType, HandInv
    <2>. QED BY <2>1 DEF Listener
  <1>2. /\ listeners[g] \in Listener /\ g \in Indices /\ AheadInv(g)
    BY ListenIndices DEF ListenInv, ListenType, HeardAllInv
  <1>3. /\ f \in 1..Len(got[s]) /\ Len(got[s]) \in Nat /\ e = got[s][f] /\ From(g) = f
        /\ \A n \in f..Len(Live(s)) : Live(s)[n].kind = "message" =>
               \A d \in Elems(heard[g]) : Before(d, Live(s)[n])
    <2>1. Len(got[s]) \in Nat /\ From(g) = f
      BY <1>1, LiveElems DEF EventInv, From
    <2>. QED BY <1>1, <1>2, <2>1 DEF AheadInv
  <1>4. /\ UNCHANGED <<published, got, buffer>> /\ Live(s)' = Live(s)
        /\ \A d, x : Before(d, x)' <=> Before(d, x)
    BY DEF vars, storeVars, busVars, streamVars, Live, Before
  <1>5. PICK r : listeners' = [listeners EXCEPT ![g] = r] /\ r.project = listeners[g].project
                 /\ r.stream = s /\ r.next = f + 1
                 /\ (r.at = "reading" \/ (r.at = "writing" /\ r.held = e))
    <2>1. CASE listeners' = [listeners EXCEPT ![g].next = @ + 1]
      <3> DEFINE r == [listeners[g] EXCEPT !.next = @ + 1]
      <3>1. listeners' = [listeners EXCEPT ![g] = r]
        BY <2>1
      <3>2. r.project = listeners[g].project /\ r.stream = s /\ r.next = f + 1 /\ r.at = "reading"
        BY <1>1, <1>2 DEF Listener, At
      <3>. QED BY <3>1, <3>2
    <2>2. CASE listeners' = [listeners EXCEPT ![g].at = "writing", ![g].held = e, ![g].next = @ + 1]
      <3> DEFINE r == [listeners[g] EXCEPT !.at = "writing", !.held = e, !.next = @ + 1]
      <3>1. listeners' = [listeners EXCEPT ![g] = r]
        BY <2>2
      <3>2. r.project = listeners[g].project /\ r.stream = s /\ r.next = f + 1
            /\ r.at = "writing" /\ r.held = e
        BY <1>1, <1>2 DEF Listener
      <3>. QED BY <3>1, <3>2
    <2>. QED BY <2>1, <2>2 DEF PassOn
  <1>6. listeners'[g] = r
    BY <1>5 DEF ListenInv, ListenType
  <1>7. AheadInv(g)'
    <2>1. listeners'[g].stream = s /\ listeners'[g].next = f + 1 /\ f + 1 \in 1..(Len(got'[s]) + 1)
      BY <1>3, <1>4, <1>5, <1>6
    <2>2. Elems(heard'[g]) = Elems(heard[g])
      BY DEF Elems
    <2>3. CASE r.at = "reading"
      <3>1. At(g)' = "reading" /\ From(g)' = f + 1
        BY <1>5, <1>6, <2>3 DEF At, From
      <3>2. \A n : n \in (f + 1)..Len(Live(s)) => n \in f..Len(Live(s))
        OBVIOUS
      <3>. QED BY <1>3, <1>4, <2>1, <2>2, <3>1, <3>2 DEF AheadInv
    <2>4. CASE r.at = "writing" /\ r.held = e
      <3>1. At(g)' = "writing" /\ From(g)' = f /\ listeners'[g].held = e
        BY <1>5, <1>6, <2>4 DEF At, From
      <3>. QED BY <1>3, <1>4, <2>1, <2>2, <3>1 DEF AheadInv
    <2>. QED BY <1>5, <2>3, <2>4
  <1>. QED BY <1>5, <1>7, OneMoves

\* A goroutine that lets its stream go has nothing more of it to pass on.
LEMMA GotoInOrder ==
  ASSUME ListenerAssumption, EventInv, ListenInv, ListenInv', PostsInv, EchoInv, HeardAllInv,
         NEW g \in DOMAIN listeners, NEW at \in {"dialing", "backoff", "gone"}, Goto(g, at),
         UNCHANGED vars, UNCHANGED heard
  PROVE  HeardAllInv'
  <1> DEFINE l == [listeners[g] EXCEPT !.at = at]
  <1>1. listeners[g] \in Listener
    BY DEF ListenInv, ListenType
  <1>2. listeners' = [listeners EXCEPT ![g] = l] /\ l.project = listeners[g].project /\ l.at = at
    BY <1>1 DEF Goto, Listener
  <1> HIDE DEF l
  <1>. QED BY <1>2, OneMoves

\* On a new connection nothing is there to be passed on yet.
LEMMA DialInOrder ==
  ASSUME ListenerAssumption, EventInv, EventInv', ListenInv, ListenInv', PostsInv, EchoInv, HeardAllInv,
         NEW g \in DOMAIN listeners, Dial(g)
  PROVE  HeardAllInv'
  <1>1. PICK s \in Streams :
          /\ ~Connected(s)
          /\ got' = [got EXCEPT ![s] = <<>>] /\ buffer' = [buffer EXCEPT ![s] = <<>>]
          /\ listeners' = [listeners EXCEPT ![g].at = "reading", ![g].stream = s, ![g].next = 1]
    BY DEF Dial
  <1>2. /\ UNCHANGED <<project, published, heard>> /\ StreamTypeOK /\ StreamTypeOK' /\ Grows
        /\ listeners[g] \in Listener
    BY DEF Dial, storeVars, agentVars, EventInv, Grows, ListenInv, ListenType
  <1> DEFINE l == [listeners[g] EXCEPT !.at = "reading", !.stream = s, !.next = 1]
  <1>3. listeners' = [listeners EXCEPT ![g] = l]
    BY <1>1
  <1>4. l.at = "reading" /\ l.stream = s /\ l.next = 1 /\ l.project = listeners[g].project
    BY <1>2 DEF Listener
  <1> HIDE DEF l
  <1>5. /\ listeners'[g] = l /\ DOMAIN listeners' = DOMAIN listeners
        /\ \A x \in DOMAIN listeners \ {g} : listeners'[x] = listeners[x]
        /\ listeners' \in Seq(Listener) /\ Len(listeners') <= MaxListeners
        /\ \A x \in DOMAIN listeners : x \in Indices
    BY <1>3, ListenIndices DEF ListenInv, ListenType
  <1>6. Len(Live(s)') = 0 /\ Len(got'[s]) = 0
    <2>1. got'[s] = <<>> /\ buffer'[s] = <<>>
      BY <1>1, <1>2 DEF StreamTypeOK
    <2>. QED BY <2>1 DEF Live
  <1>7. AheadInv(g)'
    <2>1. At(g)' = "reading" /\ From(g)' = 1 /\ listeners'[g].stream = s /\ listeners'[g].next = 1
      BY <1>4, <1>5 DEF At, From
    <2>. QED BY <1>6, <2>1 DEF AheadInv
  <1>8. ASSUME NEW x \in DOMAIN listeners \ {g}, At(x) \in {"reading", "writing"}
        PROVE  Moves(listeners[x].stream)
    <2>1. listeners[x].stream \in Streams /\ listeners[x].stream # s
      BY <1>1, <1>8 DEF ListenInv, HandInv, Connected
    <2>2. /\ got'[listeners[x].stream] = got[listeners[x].stream]
          /\ buffer'[listeners[x].stream] = buffer[listeners[x].stream]
      BY <1>1, <1>2, <2>1 DEF StreamTypeOK
    <2>. QED BY <2>1, <2>2, StillMoves
  <1>. QED BY <1>2, <1>4, <1>5, <1>7, <1>8, HeardRest

\* Every step keeps what is heard in order.
LEMMA HeardStep ==
  ASSUME ListenerAssumption, Inv, EventInv, EventInv', ListenInv, ListenInv', PostsInv, EchoInv, EchoInv',
         HeardAllInv, [McpNext]_allVars
  PROVE  HeardAllInv'
  <1> USE DEF agentVars, listenerVars, mcpVars
  <1>0. /\ StreamTypeOK /\ StreamTypeOK'
        /\ listeners' \in Seq(Listener) /\ Len(listeners') <= MaxListeners
        /\ listeners \in Seq(Listener)
        /\ \A g \in DOMAIN listeners : g \in Indices /\ listeners[g] \in Listener
    BY ListenIndices DEF EventInv, ListenInv, ListenType
  <1>1. ASSUME [Next]_vars, UNCHANGED <<heard, project>>,
               \A g \in DOMAIN listeners :
                  g \in DOMAIN listeners' /\ listeners'[g].project = listeners[g].project,
               \A g \in DOMAIN listeners' :
                  \/ listeners'[g].at \notin {"reading", "writing"}
                  \/ /\ g \in DOMAIN listeners
                     /\ listeners'[g].at = listeners[g].at /\ listeners'[g].next = listeners[g].next
                     /\ listeners'[g].held = listeners[g].held
                     /\ listeners'[g].stream = listeners[g].stream
        PROVE  HeardAllInv'
    <2>1. Grows /\ \A s \in Streams : Moves(s)
      BY <1>1, NextMoves
    <2>2. \A g \in DOMAIN listeners : At(g) \in {"reading", "writing"} => Moves(listeners[g].stream)
      BY <2>1 DEF ListenInv, HandInv
    <2>. QED BY <1>0, <1>1, <2>1, <2>2, HeardRest
  <1>2. UNCHANGED vars => [Next]_vars /\ UNCHANGED project
    BY DEF vars, streamVars
  <1>3. CASE Run
    <2>1. /\ UNCHANGED vars /\ UNCHANGED heard /\ listeners = <<>>
      BY <1>3 DEF Run, ListenInv, ToldInv
    <2>2. \A g \in DOMAIN listeners' : listeners'[g].at = "dialing"
      <3>1. listeners' = [n \in 1..Cardinality(SseProjects) |-> Fresh(StartOrder[n])]
        BY <1>3 DEF Run
      <3>. QED BY <3>1 DEF Fresh
    <2>. QED BY <1>1, <1>2, <2>1, <2>2
  <1>4. CASE StdinClosed
    <2>1. /\ UNCHANGED vars /\ UNCHANGED heard /\ DOMAIN listeners' = DOMAIN listeners
          /\ \A g \in DOMAIN listeners : listeners'[g] =
                  [listeners[g] EXCEPT !.at = "gone", !.cancelled = TRUE, !.held = NoPost]
      BY <1>4 DEF StdinClosed
    <2>2. ASSUME NEW l \in Listener
          PROVE  LET m == [l EXCEPT !.at = "gone", !.cancelled = TRUE, !.held = NoPost]
                 IN  m.at = "gone" /\ m.project = l.project
      BY DEF Listener
    <2>3. ASSUME NEW g \in DOMAIN listeners
          PROVE  listeners'[g].at = "gone" /\ listeners'[g].project = listeners[g].project
      BY <1>0, <2>1, <2>2, Zenon
    <2>. QED BY <1>1, <1>2, <2>1, <2>3
  <1>5. ASSUME NEW p \in Projects, CallSubscribeProject(p) \/ CallUnsubscribeProject(p)
        PROVE  HeardAllInv'
    <2>1. UNCHANGED vars /\ UNCHANGED heard
      BY <1>5 DEF CallSubscribeProject, CallUnsubscribeProject
    <2>2. CASE listeners' = Append(listeners, Fresh(p))
      <3>1. Fresh(p) \in Listener /\ Fresh(p).at = "dialing"
        BY FreshListener
      <3>2. /\ \A g \in DOMAIN listeners : g \in DOMAIN listeners' /\ listeners'[g] = listeners[g]
            /\ \A g \in DOMAIN listeners' :
                  g \in DOMAIN listeners \/ listeners'[g].at = "dialing"
        BY <1>0, <2>2, <3>1
      <3>. QED BY <1>1, <1>2, <2>1, <3>2
    <2>3. CASE listeners' = [listeners EXCEPT ![contexts[p]].cancelled = TRUE]
      <3>1. ASSUME NEW g \in DOMAIN listeners
            PROVE  /\ g \in DOMAIN listeners' /\ listeners'[g].project = listeners[g].project
                   /\ listeners'[g].at = listeners[g].at /\ listeners'[g].next = listeners[g].next
                   /\ listeners'[g].held = listeners[g].held
                   /\ listeners'[g].stream = listeners[g].stream
        BY <1>0, <2>3 DEF Listener
      <3>2. DOMAIN listeners' = DOMAIN listeners
        BY <2>3
      <3>. QED BY <1>1, <1>2, <2>1, <3>1, <3>2
    <2>4. CASE listeners' = listeners
      BY <1>1, <1>2, <2>1, <2>4
    <2>. QED BY <1>5, <2>2, <2>3, <2>4
          DEF CallSubscribeProject, CallUnsubscribeProject, CancelListener
  <1>6. ASSUME NEW g \in DOMAIN listeners, Listen(g) PROVE HeardAllInv'
    <2>1. CASE Dial(g)
      BY <2>1, DialInOrder
    <2>2. CASE DialFails(g) \/ StreamEnds(g) \/ ConnectionBreaks(g) \/ Retry(g) \/ Stop(g)
      <3>1. UNCHANGED vars /\ UNCHANGED heard /\ \E at \in {"dialing", "backoff", "gone"} : Goto(g, at)
        BY <2>2 DEF DialFails, StreamEnds, ConnectionBreaks, Retry, Stop
      <3>. QED BY <3>1, GotoInOrder
    <2>3. CASE ReadEvent(g)
      <3>1. /\ At(g) = "reading" /\ listeners[g].next <= Len(got[listeners[g].stream])
            /\ UNCHANGED vars /\ UNCHANGED heard
            /\ \/ Goto(g, "backoff") \/ Goto(g, "gone")
               \/ PassOn(g, got[listeners[g].stream][listeners[g].next])
        BY <2>3 DEF ReadEvent
      <3>2. got[listeners[g].stream][listeners[g].next] \in Post
        BY <1>0, <3>1, NextIsPost
      <3>. QED BY <3>1, <3>2, GotoInOrder, ReadInOrder
    <2>4. CASE WriteNotification(g)
      BY <2>4, WriteInOrder
    <2>. QED BY <1>6, <2>1, <2>2, <2>3, <2>4 DEF Listen
  <1>7. CASE \/ CallListSubscriptions \/ PublishAny \/ (\E s \in Streams : Handler(s))
             \/ ((CloseAll \/ Shutdown) /\ UNCHANGED mcpVars) \/ UNCHANGED allVars
             \/ \E p \in Projects, k \in Kind, isBig \in {FALSE, BigPosts} :
                   CallPost(p, k, isBig) \/ OtherPost(p, k, isBig)
    <2>1. UNCHANGED <<heard, listeners>>
      BY <1>7 DEF CallListSubscriptions, PublishAny, Handler, allVars, CallPost, OtherPost
    <2>2. [Next]_vars
      <3>1. CASE CallListSubscriptions \/ UNCHANGED allVars
        BY <1>2, <3>1 DEF CallListSubscriptions, allVars
      <3>2. CASE ~(CallListSubscriptions \/ UNCHANGED allVars)
        BY <1>7, <3>2 DEF Next, PublishAny, Handler, StreamStep, CallPost, OtherPost
      <3>. QED BY <3>1, <3>2
    <2>3. UNCHANGED project
      BY <1>7 DEF CallListSubscriptions, allVars, vars, streamVars, PublishAny, Publish, Handler,
                  SendInitial, CountConnection, Subscribe, SendEvent, ChannelClosed, Leave,
                  ClientGone, Uncount, CloseAll, Shutdown, CallPost, OtherPost, StorePost
    <2>. QED BY <1>1, <2>1, <2>2, <2>3
  <1>. QED BY <1>3, <1>4, <1>5, <1>6, <1>7 DEF McpNext

\* At the start nothing is posted, carried or heard.
LEMMA HeardInit ==
  ASSUME ListenerAssumption, McpInit
  PROVE  PostsInv /\ EchoInv /\ HeardAllInv
  <1>1. Elems(<<>>) = {} /\ <<>> \in Seq(Post)
    BY DEF Elems
  <1>2. PostsInv
    BY <1>1 DEF McpInit, Init, PostsInv
  <1>3. EchoInv
    BY <1>1 DEF McpInit, EchoInv
  <1>4. HeardAllInv
    BY <1>1 DEF McpInit, HeardAllInv, HeardInv
  <1>. QED BY <1>2, <1>3, <1>4

-----------------------------------------------------------------------------
(* The theorems of the composition. *)

AllInv == Inv /\ EventInv /\ ListenInv /\ PostsInv /\ EchoInv /\ HeardAllInv

\* The invariants carry each other: what is heard in order rests on who listens to which
\* stream, and that on what the broker's streams carry.
LEMMA AllHold == ASSUME ListenerAssumption PROVE McpSpec => []AllInv
  <1>1. McpInit => AllInv
    BY ListenInit, HeardInit DEF AllInv
  <1>2. AllInv /\ [McpNext]_allVars => AllInv'
    <2> SUFFICES ASSUME AllInv, [McpNext]_allVars PROVE AllInv'
      OBVIOUS
    <2>1. /\ Inv /\ EventInv /\ ListenInv /\ PostsInv /\ EchoInv /\ HeardAllInv
          /\ StreamTypeOK
      BY DEF AllInv, EventInv
    <2>2. Inv' /\ EventInv' /\ ListenInv'
      BY <2>1, McpKeeps, ListenStep
    <2>3. PostsInv' /\ EchoInv'
      BY <2>1, PostsInvStep, EchoStep
    <2>4. HeardAllInv'
      BY <2>1, <2>2, <2>3, HeardStep
    <2>. QED BY <2>2, <2>3, <2>4 DEF AllInv
  <1>. QED BY <1>1, <1>2, PTL DEF McpSpec

\* The streams keep their promise while their clients connect, break off and connect again,
\* for any number of listeners (listenSSE against handleSSE): connection counts stay exact,
\* no send meets a closed channel and EventsDelivered holds of each connection.
THEOREM StreamsServeListeners ==
  ASSUME ListenerAssumption
  PROVE  McpSpec => [](NoChannelPanic /\ CountsAreExact /\ EventsDelivered)
  <1>1. AllInv => NoChannelPanic
    BY DEF AllInv, Inv, BusInv, NoChannelPanic
  <1>2. AllInv => CountsAreExact
    BY DEF AllInv, Inv, CountInv, Counted, CountsAreExact
  <1>3. AllInv => EventsDelivered
    BY InvDelivers DEF AllInv
  <1>. QED BY <1>1, <1>2, <1>3, AllHold, PTL

\* The state of the channel server keeps its types; a goroutine has an event in hand exactly
\* while it writes (server.go).
THEOREM ListenersTyped == ASSUME ListenerAssumption PROVE McpSpec => []ListenerTypeOK
  <1>1. AllInv => ListenerTypeOK
    <2> SUFFICES ASSUME ListenInv PROVE ListenerTypeOK
      BY DEF AllInv
    <2>1. \A g \in DOMAIN listeners : listeners[g] \in Listener
      BY DEF ListenInv, ListenType
    <2>2. \A g \in DOMAIN listeners :
            /\ listeners[g].project \in Projects /\ listeners[g].cancelled \in BOOLEAN
            /\ At(g) \in {"dialing", "reading", "writing", "backoff", "gone"}
            /\ listeners[g].stream \in Streams \cup {"none"}
      BY <2>1 DEF At, Listener, Stream
    <2>. QED BY <2>2 DEF ListenInv, ListenType, ListenerTypeOK, HandInv
  <1>. QED BY <1>1, AllHold, PTL

\* However often a project is subscribed, unsubscribed and subscribed again, a goroutine that
\* was not cancelled has its cancel function in sseContexts and has not ended, so no project
\* has two (subscribe_project, unsubscribe_project, listenSSE).
THEOREM SubscriptionsOwned == ASSUME ListenerAssumption PROVE McpSpec => []ListenersOwned
  <1>1. AllInv => ListenersOwned
    <2> SUFFICES ASSUME ListenInv PROVE ListenersOwned
      BY DEF AllInv
    <2>1. \A g \in DOMAIN listeners : g # 0 /\ listeners[g].project \in Projects
      BY ListenerProjects DEF ListenInv, ListenType
    <2>. QED BY <2>1 DEF ListenersOwned, ListenInv, Owned
  <1>. QED BY <1>1, AllHold, PTL

\* What the agent was last told of a subscription is what sseContexts holds: nobody but its
\* own calls changes it, and a goroutine that fails goes on (the replies of the tools).
THEOREM RepliesHold == ASSUME ListenerAssumption PROVE McpSpec => []RepliesTrue
  <1>1. AllInv => RepliesTrue
    BY DEF AllInv, ListenInv, ToldInv
  <1>. QED BY <1>1, AllHold, PTL

\* After unsubscribe_project at most one event still comes, the one in hand between the
\* question for the context and writeNotification (consumeSSE).
THEOREM OneLateEach == ASSUME ListenerAssumption PROVE McpSpec => []OneLateAtMost
  <1>1. AllInv => OneLateAtMost
    BY DEF AllInv, ListenInv, LateInv, OneLateAtMost
  <1>. QED BY <1>1, AllHold, PTL

\* No agent hears what its own server posted, live or with the snapshot of a connection made
\* after any break (isSelfEcho).
THEOREM NoEchoHeard == ASSUME ListenerAssumption PROVE McpSpec => []NoSelfEcho
  <1>1. AllInv => NoSelfEcho
    <2> SUFFICES ASSUME EchoInv PROVE NoSelfEcho
      BY DEF AllInv
    <2>1. \A g \in Indices : heard[g] \in Seq(Post) /\ DOMAIN heard[g] = 1..Len(heard[g])
      BY DEF EchoInv
    <2>. QED BY <2>1 DEF NoSelfEcho, EchoInv, Elems
  <1>. QED BY <1>1, AllHold, PTL

\* Over all its connections a goroutine passes each message on once, in the order of their
\* publishing: a new connection has no message that was published before it (consumeSSE,
\* handleSSE).
THEOREM HeardInOrder == ASSUME ListenerAssumption PROVE McpSpec => []HeardOnceInOrder
  <1>1. AllInv => HeardOnceInOrder
    <2> SUFFICES ASSUME EchoInv, HeardAllInv PROVE HeardOnceInOrder
      BY DEF AllInv
    <2>1. \A g \in Indices : DOMAIN heard[g] = 1..Len(heard[g])
      BY DEF EchoInv
    <2>. QED BY <2>1 DEF HeardOnceInOrder, HeardAllInv, HeardInv
  <1>. QED BY <1>1, AllHold, PTL

\* The parts together, for any number of projects, streams, listeners and posts, and in
\* the face of broken connections and a broker that shuts down (server.go of the channel
\* server).
THEOREM ListenersServe == ASSUME ListenerAssumption PROVE McpSpec => []ListenersAreTrue
  BY ListenersTyped, SubscriptionsOwned, RepliesHold, OneLateEach, NoEchoHeard, HeardInOrder,
     PTL DEF ListenersAreTrue

=============================================================================
