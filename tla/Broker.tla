------------------------------- MODULE Broker -------------------------------
(***************************************************************************)
(* The in-memory broker of internal/broker: the artifact and message store *)
(* (broker.go), the event bus (types.go) and the SSE streams that join     *)
(* them.  Every HTTP request has a goroutine of its own; the store and the *)
(* bus each have a lock, and no step holds both.  So a post is stored in   *)
(* one step and published in another, and a stream takes its snapshot of   *)
(* the artifacts in one step and subscribes to the bus in a later one.     *)
(***************************************************************************)
EXTENDS Naturals, Sequences, FiniteSets

CONSTANTS
    Projects,
    Streams,        \* SSE connections, each made once
    BufferSize,     \* capacity of a subscriber channel, 64 in the code
    MaxPosts        \* bound of the model: posts made

ASSUME BrokerAssumption ==
    /\ IsFiniteSet(Streams)
    /\ BufferSize \in Nat \ {0}
    /\ MaxPosts \in Nat

VARIABLES
    phase,       \* how far Close has come
    store,       \* store[p][kind]: Broker.artifacts, Broker.messages
    pending,     \* posts stored and not yet published
    pc,          \* where the SSE handler of each stream stands
    project,     \* the project each stream asked for
    initial,     \* artifacts of the snapshot a stream has yet to send
    subs,        \* eventBus.subs
    mapping,     \* eventBus.mapping: the channels the bus may close
    channel,     \* the state of each stream's channel,
    buffer,      \*   and the events in it
    conns,       \* Broker.sseConns, of any agent type
    got,         \* what each stream's client was sent, in order
    published,   \* history: the posts of each project in publishing order
    missed       \* history: events of its project a stream can not get: published
                 \* between its snapshot and its subscription, or with its buffer full

storeVars == <<store, pending, published>>
busVars == <<subs, mapping, channel, buffer>>
streamVars == <<pc, project, initial, conns, got>>
vars == <<phase, storeVars, busVars, streamVars, missed>>

Kind == {"artifact", "message"}
Post == [id: 1..MaxPosts, kind: Kind, project: Projects]
Stage == {"new", "snapshot", "counted", "streaming", "leaving", "ended"}

\* Post is spelt out: TLC keeps one value of a constant definition, and a module
\* may extend Broker and instantiate it with other constants as well.
Posts == {e \in [id: 1..MaxPosts, kind: Kind, project: Projects] :
            \E p \in Projects, k \in Kind :
                \E n \in 1..Len(store[p][k]) : store[p][k][n] = e}
Sent(s) == {got[s][n] : n \in 1..Len(got[s])}

Init ==
    /\ phase = "up"
    /\ store = [p \in Projects |-> [k \in Kind |-> <<>>]]
    /\ pending = {}
    /\ pc = [s \in Streams |-> "new"]
    /\ project \in [Streams -> Projects]
    /\ initial = [s \in Streams |-> <<>>]
    /\ subs = [p \in Projects |-> {}]
    /\ mapping = {}
    /\ channel = [s \in Streams |-> "none"]
    /\ buffer = [s \in Streams |-> <<>>]
    /\ conns = [p \in Projects |-> 0]
    /\ got = [s \in Streams |-> <<>>]
    /\ published = [p \in Projects |-> <<>>]
    /\ missed = [s \in Streams |-> {}]

-----------------------------------------------------------------------------
(* Posting. *)

\* Connections that were accepted send requests until Shutdown has returned.
Serving == phase # "down"

\* handlePostArtifact, handlePostMessage: append under the store's lock ...
StorePost(p, k) ==
    /\ Serving
    /\ Cardinality(Posts) < MaxPosts
    /\ LET post == [id |-> Cardinality(Posts) + 1, kind |-> k, project |-> p]
       IN  /\ store' = [store EXCEPT ![p][k] = Append(@, post)]
           /\ pending' = pending \cup {post}
    /\ UNCHANGED <<phase, published, busVars, streamVars, missed>>

\* Bug for comparison: when some channel is full the post is published again later.
PublishRetried(post) ==
    /\ post \in pending
    /\ published' = [published EXCEPT ![post.project] = Append(@, post)]
    /\ LET room == {s \in subs[post.project] : Len(buffer[s]) < BufferSize}
       IN  /\ buffer' = [s \in Streams |-> IF s \in room THEN Append(buffer[s], post)
                                                         ELSE buffer[s]]
           /\ pending' = IF room = subs[post.project] THEN pending \ {post} ELSE pending
    /\ UNCHANGED <<phase, store, subs, mapping, channel, streamVars, missed>>

\* eventBus.publish: a full channel loses the event, the publisher never waits.
Publish(post) ==
    /\ post \in pending
    /\ pending' = pending \ {post}
    /\ published' = [published EXCEPT ![post.project] = Append(@, post)]
    /\ LET room == {s \in subs[post.project] : Len(buffer[s]) < BufferSize}
           late == {s \in Streams : pc[s] \in {"snapshot", "counted"}
                                    /\ project[s] = post.project}
       IN  /\ buffer' = [s \in Streams |-> IF s \in room THEN Append(buffer[s], post)
                                                         ELSE buffer[s]]
           /\ missed' = [s \in Streams |->
                           IF s \in late \cup (subs[post.project] \ room)
                           THEN missed[s] \cup {post} ELSE missed[s]]
    /\ UNCHANGED <<phase, store, subs, mapping, channel, streamVars>>

-----------------------------------------------------------------------------
(* handleSSE, from connection to return. *)

\* Bug for comparison: only the latest artifact is retained for new clients.
SnapshotOfLatest(s) ==
    /\ Serving /\ pc[s] = "new"
    /\ pc' = [pc EXCEPT ![s] = "snapshot"]
    /\ LET all == store[project[s]]["artifact"]
       IN  initial' = [initial EXCEPT ![s] = IF all = <<>> THEN all ELSE <<all[Len(all)]>>]
    /\ UNCHANGED <<phase, storeVars, busVars, project, conns, got, missed>>

\* It reads the artifacts of the project under the store's read lock, ...
Snapshot(s) ==
    /\ Serving /\ pc[s] = "new"
    /\ pc' = [pc EXCEPT ![s] = "snapshot"]
    /\ initial' = [initial EXCEPT ![s] = store[project[s]]["artifact"]]
    /\ UNCHANGED <<phase, storeVars, busVars, project, conns, got, missed>>

\* ... sends them one by one, giving up when the client is gone, ...
SendInitial(s) ==
    /\ pc[s] = "snapshot" /\ initial[s] # <<>>
    /\ \/ /\ got' = [got EXCEPT ![s] = Append(@, Head(initial[s]))]
          /\ initial' = [initial EXCEPT ![s] = Tail(@)]
          /\ UNCHANGED pc
       \/ /\ pc' = [pc EXCEPT ![s] = "ended"]
          /\ UNCHANGED <<got, initial>>
    /\ UNCHANGED <<phase, storeVars, busVars, project, conns, missed>>

\* Bug for comparison: the connection is not counted.
CountForgotten(s) ==
    /\ pc[s] = "snapshot" /\ initial[s] = <<>>
    /\ pc' = [pc EXCEPT ![s] = "counted"]
    /\ UNCHANGED <<phase, storeVars, busVars, project, initial, conns, got, missed>>

\* ... counts the connection, ...
CountConnection(s) ==
    /\ pc[s] = "snapshot" /\ initial[s] = <<>>
    /\ pc' = [pc EXCEPT ![s] = "counted"]
    /\ conns' = [conns EXCEPT ![project[s]] = @ + 1]
    /\ UNCHANGED <<phase, storeVars, busVars, project, initial, got, missed>>

\* ... and only then subscribes, whether the bus was closed meanwhile or not.
Subscribe(s) ==
    /\ pc[s] = "counted"
    /\ pc' = [pc EXCEPT ![s] = "streaming"]
    /\ channel' = [channel EXCEPT ![s] = "open"]
    /\ subs' = [subs EXCEPT ![project[s]] = @ \cup {s}]
    /\ mapping' = mapping \cup {s}
    /\ UNCHANGED <<phase, storeVars, buffer, project, initial, conns, got, missed>>

\* The select loop writes the next event; a closed channel is drained first.
SendEvent(s) ==
    /\ pc[s] = "streaming" /\ buffer[s] # <<>>
    /\ got' = [got EXCEPT ![s] = Append(@, Head(buffer[s]))]
    /\ buffer' = [buffer EXCEPT ![s] = Tail(@)]
    /\ UNCHANGED <<phase, storeVars, subs, mapping, channel, pc, project, initial, conns,
                   missed>>

\* Bug for comparison: the channel is closed and stays in subs.
UnsubscribeMappingOnly(s) ==
    IF s \in mapping
    THEN /\ mapping' = mapping \ {s}
         /\ channel' = [channel EXCEPT ![s] = "closed"]
         /\ UNCHANGED subs
    ELSE UNCHANGED <<mapping, subs, channel>>

\* eventBus.Unsubscribe: only a channel the bus still maps is closed.
Unsubscribe(s) ==
    IF s \in mapping
    THEN /\ mapping' = mapping \ {s}
         /\ subs' = [subs EXCEPT ![project[s]] = @ \ {s}]
         /\ channel' = [channel EXCEPT ![s] = "closed"]
    ELSE UNCHANGED <<mapping, subs, channel>>

\* The handler returns: the client is gone (at any time), or the channel is
\* closed and empty.  The deferred calls run in turn: Unsubscribe, ...
Leave(s) ==
    /\ pc[s] = "streaming"
    /\ pc' = [pc EXCEPT ![s] = "leaving"]
    /\ Unsubscribe(s)
    /\ UNCHANGED <<phase, storeVars, buffer, project, initial, conns, got, missed>>

ClientGone(s) == Leave(s)

\* Bug for comparison: the end of a channel closed by closeAll goes unnoticed.
ChannelClosedByOwner(s) ==
    channel[s] = "closed" /\ buffer[s] = <<>> /\ s \in mapping /\ Leave(s)

ChannelClosed(s) == channel[s] = "closed" /\ buffer[s] = <<>> /\ Leave(s)

\* Bug for comparison: the count is left as it is after a shutdown.
UncountWhileUp(s) ==
    /\ pc[s] = "leaving"
    /\ pc' = [pc EXCEPT ![s] = "ended"]
    /\ conns' = IF phase = "up" THEN [conns EXCEPT ![project[s]] = @ - 1] ELSE conns
    /\ UNCHANGED <<phase, storeVars, busVars, project, initial, got, missed>>

\* ... then the connection is taken from the count.
Uncount(s) ==
    /\ pc[s] = "leaving"
    /\ pc' = [pc EXCEPT ![s] = "ended"]
    /\ conns' = [conns EXCEPT ![project[s]] = @ - 1]
    /\ UNCHANGED <<phase, storeVars, busVars, project, initial, got, missed>>

-----------------------------------------------------------------------------
(* Close. *)

\* The listener is closed, and eventBus.closeAll unblocks all SSE handlers.
CloseAll ==
    /\ phase = "up"
    /\ phase' = "busClosed"
    /\ channel' = [s \in Streams |-> IF s \in mapping THEN "closed" ELSE channel[s]]
    /\ subs' = [p \in Projects |-> {}]
    /\ mapping' = {}
    /\ UNCHANGED <<storeVars, buffer, streamVars, missed>>

\* server.Shutdown waits for the handlers, five seconds at most.
Shutdown ==
    /\ phase = "busClosed"
    /\ phase' = "down"
    /\ UNCHANGED <<storeVars, busVars, streamVars, missed>>

StreamStep(s) ==
    \/ Snapshot(s) \/ SendInitial(s) \/ CountConnection(s) \/ Subscribe(s)
    \/ SendEvent(s) \/ ChannelClosed(s) \/ Uncount(s)

Next ==
    \/ \E p \in Projects, k \in Kind : StorePost(p, k)
    \/ \E post \in pending : Publish(post)
    \/ \E s \in Streams : StreamStep(s) \/ ClientGone(s)
    \/ CloseAll \/ Shutdown

Spec == Init /\ [][Next]_vars

\* The goroutine of an accepted request runs on; clients and Close are not fair.
Fairness ==
    /\ WF_vars(\E post \in pending : Publish(post))
    /\ \A s \in Streams :
          /\ WF_vars(SendInitial(s) \/ CountConnection(s) \/ Subscribe(s))
          /\ WF_vars(SendEvent(s) \/ ChannelClosed(s))
          /\ WF_vars(Uncount(s))

FairSpec == Spec /\ Fairness

-----------------------------------------------------------------------------
(* Properties. *)

\* The variables have the types their declarations in the code give them.
TypeOK ==
    /\ phase \in {"up", "busClosed", "down"}
    /\ store \in [Projects -> [Kind -> Seq(Post)]]
    /\ pending \subseteq Post
    /\ pc \in [Streams -> Stage]
    /\ project \in [Streams -> Projects]
    /\ initial \in [Streams -> Seq(Post)]
    /\ subs \in [Projects -> SUBSET Streams]
    /\ mapping \subseteq Streams
    /\ channel \in [Streams -> {"none", "open", "closed"}]
    /\ buffer \in [Streams -> Seq(Post)]
    /\ conns \in [Projects -> Nat]
    /\ got \in [Streams -> Seq(Post)]
    /\ published \in [Projects -> Seq(Post)]
    /\ missed \in [Streams -> SUBSET Post]

\* Go panics on a send to a closed channel and on closing one twice.  Publishing
\* sends to the channels in subs; Unsubscribe and closeAll, which run in any order
\* and may both meet the same stream, close the channels in mapping: all are open.
NoChannelPanic ==
    \A s \in Streams :
        s \in mapping \/ (\E p \in Projects : s \in subs[p]) => channel[s] = "open"

\* The agent counts GET /api/projects reports are those of the handlers that are
\* between counting and uncounting, through every early return and shutdown.
CountsAreExact ==
    \A p \in Projects :
        conns[p] = Cardinality({s \in Streams :
                       project[s] = p /\ pc[s] \in {"counted", "streaming", "leaving"}})

\* Live events reach every stream in the one order they were published in, though
\* posts are published in another order than they were stored in.  (Of the artifacts a
\* stream gets some are of its snapshot, so it is the messages that tell.)
Live(s) == got[s] \o buffer[s]
Place(q, e) == CHOOSE n \in 1..Len(q) : q[n] = e

MessagesInOrder ==
    \A s \in Streams : \A m, n \in 1..Len(Live(s)) :
        m < n /\ Live(s)[m].kind = "message" /\ Live(s)[n].kind = "message" =>
            Place(published[project[s]], Live(s)[m]) < Place(published[project[s]], Live(s)[n])

\* A stream gets an artifact at most twice, from its snapshot and from a post that
\* was stored before that snapshot and published after it subscribed.
AtMostTwice ==
    \A s \in Streams : \A e \in Sent(s) :
        Cardinality({n \in 1..Len(got[s]) : got[s][n] = e}) <=
            (IF e.kind = "artifact" THEN 2 ELSE 1)

\* Nothing is left for stream s to wait for.
UpToDate(s) ==
    pc[s] = "streaming" /\ channel[s] = "open" /\ buffer[s] = <<>> /\ pending = {}

Artifacts(p) == {store[p]["artifact"][n] : n \in 1..Len(store[p]["artifact"])}

\* An artifact is lost to a stream only in the gap between its snapshot and its
\* subscription, or when its buffer was full.
LostOnlyInGap ==
    \A s \in Streams :
        UpToDate(s) => Artifacts(project[s]) \subseteq Sent(s) \cup missed[s]

\* What handleSSE and publish promise a stream between them.
EventsDelivered == TypeOK /\ MessagesInOrder /\ AtMostTwice /\ LostOnlyInGap

\* handleSSE: "it first pushes all existing artifacts as initial state (like MQTT
\* retained messages), then streams new events as they arrive": with buffers that
\* never overflow, a stream with nothing left to wait for has got every artifact.
EveryArtifactArrives ==
    \A s \in Streams :
        UpToDate(s) /\ MaxPosts <= BufferSize => Artifacts(project[s]) \subseteq Sent(s)

=============================================================================
