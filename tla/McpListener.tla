----------------------------- MODULE McpListener -----------------------------
(***************************************************************************)
(* The channel server of one agent (internal/mcp/server.go), run together  *)
(* with the broker it talks to: the tools that post and that change the    *)
(* subscriptions, and the goroutines that keep an SSE stream to each       *)
(* project open and pass its events on to the agent.                       *)
(*                                                                         *)
(* The streams of Broker are the connections of these goroutines.  They    *)
(* connect again after a failure, so an ended stream is taken anew.        *)
(***************************************************************************)
EXTENDS Broker, Functions

CONSTANTS
    Own,                \* ZPIT_PROJECT_ID
    ListenProjects,     \* ZPIT_LISTEN_PROJECTS, as split at the commas
    Calls,              \* bound of the model: what the agent does beside posting
    MaxListeners,       \* bound of the model: goroutines started
    MaxBreaks,          \* bound of the model: connections that break
    BigPosts            \* whether posts beyond the scanner's 256 KB are made

ListenerAssumption ==
    /\ Own \in Projects
    /\ ListenProjects \in Seq(Projects \cup {""})
    /\ Calls \subseteq {"subscribe", "unsubscribe", "list", "close"}
    /\ BigPosts \in BOOLEAN
    /\ {MaxListeners, MaxBreaks} \subseteq Nat
    /\ Cardinality({Own} \cup (Range(ListenProjects) \ {""})) <= MaxListeners

VARIABLES
    run,            \* "new", "up", "down": the server process
    contexts,       \* sseContexts: project -> the listener it cancels, 0 for none
    listeners,      \* the goroutines listenSSE, in order of their start
    mine, big,      \* ids of this server's own posts, of posts beyond 256 KB
    heard,          \* per listener, the messages passed on, in order
    shown,          \* <<listener, artifact>> passed on
    late,           \* per listener, what it passed on after its cancellation
    breaks,
    believed        \* what the replies tell the agent of each subscription

listenerVars == <<run, contexts, listeners>>
agentVars == <<heard, shown, late, believed>>
mcpVars == <<listenerVars, agentVars, mine, big, breaks>>
allVars == <<vars, mcpVars>>

Indices == 1..MaxListeners
NoPost == [id |-> 0, kind |-> "none", project |-> Own]
Fresh(p) == [project |-> p, at |-> "dialing", cancelled |-> FALSE, stream |-> "none",
             next |-> 1, held |-> NoPost]

At(g) == listeners[g].at
Connected(s) == \E g \in DOMAIN listeners :
                    listeners[g].stream = s /\ At(g) \in {"reading", "writing"}
Goto(g, at) == listeners' = [listeners EXCEPT ![g].at = at]

McpInit ==
    /\ Init
    /\ run = "new" /\ contexts = [p \in Projects |-> 0] /\ listeners = <<>>
    /\ mine = {} /\ big = {}
    /\ heard = [g \in Indices |-> <<>>] /\ shown = {} /\ late = [g \in Indices |-> 0]
    /\ breaks = 0
    /\ believed = [p \in Projects |-> "unknown"]

-----------------------------------------------------------------------------
(* Run and the tools *)

\* The own project and the listed ones, each once; a blank is an empty entry of the list.
SseProjects == {Own} \cup (Range(ListenProjects) \ {""})
\* Goroutines that start together are told apart by their numbers and nothing else, so any
\* order does.
StartOrder == CHOOSE order \in Bijection(1..Cardinality(SseProjects), SseProjects) : TRUE

Run ==
    /\ run = "new"
    /\ run' = "up"
    /\ listeners' = [n \in 1..Cardinality(SseProjects) |-> Fresh(StartOrder[n])]
    /\ contexts' = [p \in Projects |->
                      IF p \in SseProjects THEN CHOOSE n \in DOMAIN StartOrder : StartOrder[n] = p
                      ELSE 0]
    /\ UNCHANGED <<vars, agentVars, mine, big, breaks>>

\* Standard input is closed: all contexts are cancelled and the process ends.
StdinClosed ==
    /\ "close" \in Calls
    /\ run = "up"
    /\ run' = "down"
    /\ contexts' = [p \in Projects |-> 0]
    /\ listeners' = [g \in DOMAIN listeners |->
                       [listeners[g] EXCEPT !.at = "gone", !.cancelled = TRUE, !.held = NoPost]]
    /\ UNCHANGED <<vars, agentVars, mine, big, breaks>>

\* publish_artifact, send_message; with the broker down the tool returns an error.
CallPost(p, k, isBig) ==
    /\ run = "up"
    /\ StorePost(p, k)
    /\ mine' = mine \cup {Cardinality(Posts) + 1}
    /\ big' = IF isBig THEN big \cup {Cardinality(Posts) + 1} ELSE big
    /\ UNCHANGED <<listenerVars, agentVars, breaks>>

\* Another agent posts.
OtherPost(p, k, isBig) ==
    /\ StorePost(p, k)
    /\ big' = IF isBig THEN big \cup {Cardinality(Posts) + 1} ELSE big
    /\ UNCHANGED <<listenerVars, agentVars, mine, breaks>>

\* Bug for comparison: the subscription is replaced and its context forgotten.
SubscribeAgain(p) ==
    /\ "subscribe" \in Calls
    /\ run = "up" /\ Len(listeners) < MaxListeners
    /\ believed' = [believed EXCEPT ![p] = "yes"]
    /\ listeners' = Append(listeners, Fresh(p))
    /\ contexts' = [contexts EXCEPT ![p] = Len(listeners')]
    /\ UNCHANGED <<vars, run, heard, shown, late, mine, big, breaks>>

CallSubscribeProject(p) ==
    /\ "subscribe" \in Calls
    /\ run = "up"
    /\ believed' = [believed EXCEPT ![p] = "yes"]
    /\ \/ /\ contexts[p] # 0
          /\ UNCHANGED <<listeners, contexts>>
       \/ /\ contexts[p] = 0 /\ Len(listeners) < MaxListeners
          /\ listeners' = Append(listeners, Fresh(p))
          /\ contexts' = [contexts EXCEPT ![p] = Len(listeners')]
    /\ UNCHANGED <<vars, run, heard, shown, late, mine, big, breaks>>

CancelListener(p) ==
    IF contexts[p] = 0 THEN UNCHANGED <<contexts, listeners>>
    ELSE /\ contexts' = [contexts EXCEPT ![p] = 0]
         /\ listeners' = [listeners EXCEPT ![contexts[p]].cancelled = TRUE]

\* Bug for comparison: the reply for the own project is that of the others.
ReplyUnsubscribed(p) == "no"
\* "cannot unsubscribe from own project", "unsubscribed from", "not subscribed to".
ReplyUnsubscribe(p) == IF p = Own THEN "yes" ELSE "no"

CallUnsubscribeProject(p) ==
    /\ "unsubscribe" \in Calls
    /\ run = "up"
    /\ believed' = [believed EXCEPT ![p] = ReplyUnsubscribe(p)]
    /\ IF p = Own THEN UNCHANGED <<contexts, listeners>> ELSE CancelListener(p)
    /\ UNCHANGED <<vars, run, heard, shown, late, mine, big, breaks>>

CallListSubscriptions ==
    /\ "list" \in Calls
    /\ run = "up"
    /\ believed' = [p \in Projects |-> IF contexts[p] # 0 THEN "yes" ELSE "no"]
    /\ UNCHANGED <<vars, listenerVars, heard, shown, late, mine, big, breaks>>

-----------------------------------------------------------------------------
(* listenSSE and consumeSSE *)

\* Bug for comparison: messages are retained too.
RetainedWithMessages(p) == store[p]["artifact"] \o store[p]["message"]
\* What the snapshot of a new connection holds.
Retained(p) == store[p]["artifact"]

\* The request reaches the broker, whose handler begins with its snapshot.
Dial(g) ==
    /\ At(g) = "dialing" /\ Serving /\ ~listeners[g].cancelled
    /\ \E s \in Streams :
         /\ pc[s] \in {"new", "ended"} /\ ~Connected(s)
         /\ project[s] = listeners[g].project
         /\ pc' = [pc EXCEPT ![s] = "snapshot"]
         /\ initial' = [initial EXCEPT ![s] = Retained(project[s])]
         /\ got' = [got EXCEPT ![s] = <<>>]
         /\ channel' = [channel EXCEPT ![s] = "none"]
         /\ buffer' = [buffer EXCEPT ![s] = <<>>]
         /\ missed' = [missed EXCEPT ![s] = {}]
         /\ listeners' = [listeners EXCEPT ![g].at = "reading", ![g].stream = s, ![g].next = 1]
    /\ UNCHANGED <<phase, storeVars, subs, mapping, project, conns, run, contexts, agentVars,
                   mine, big, breaks>>

DialFails(g) ==
    /\ At(g) = "dialing" /\ ~Serving
    /\ Goto(g, "backoff")
    /\ UNCHANGED <<vars, run, contexts, agentVars, mine, big, breaks>>

\* Bug for comparison: only live events of this server are skipped, not those of
\* the snapshot a new connection begins with.
IsLiveEcho(e) == e.id \in mine /\ e.kind = "message"
IsSelfEcho(e) == e.id \in mine
\* An event of another is kept for the notification.
PassOn(g, e) ==
    \/ IsSelfEcho(e) /\ listeners' = [listeners EXCEPT ![g].next = @ + 1]
    \/ /\ ~IsSelfEcho(e)
       /\ listeners' = [listeners EXCEPT ![g].at = "writing", ![g].held = e, ![g].next = @ + 1]

\* Bug for comparison: the context is asked for only when the stream ends.
ReadOn(g) ==
    /\ At(g) = "reading" /\ listeners[g].next <= Len(got[listeners[g].stream])
    /\ LET e == got[listeners[g].stream][listeners[g].next]
       IN  \/ e.id \in big /\ Goto(g, "backoff")
           \/ e.id \notin big /\ PassOn(g, e)
    /\ UNCHANGED <<vars, run, contexts, agentVars, mine, big, breaks>>

\* The scanner hands over the next line.  One that is too long ends the
\* connection, the own posts are skipped.
ReadEvent(g) ==
    /\ At(g) = "reading" /\ listeners[g].next <= Len(got[listeners[g].stream])
    /\ LET e == got[listeners[g].stream][listeners[g].next]
       IN  \/ e.id \in big /\ Goto(g, "backoff")
           \/ e.id \notin big /\ listeners[g].cancelled /\ Goto(g, "gone")
           \/ e.id \notin big /\ ~listeners[g].cancelled /\ PassOn(g, e)
    /\ UNCHANGED <<vars, run, contexts, agentVars, mine, big, breaks>>

\* writeNotification: the context was asked for before, not again.
WriteNotification(g) ==
    /\ At(g) = "writing"
    /\ LET e == listeners[g].held
       IN  /\ heard' = IF e.kind = "message" THEN [heard EXCEPT ![g] = Append(@, e)] ELSE heard
           /\ shown' = IF e.kind = "artifact" THEN shown \cup {<<g, e>>} ELSE shown
    /\ late' = IF listeners[g].cancelled THEN [late EXCEPT ![g] = @ + 1] ELSE late
    /\ listeners' = [listeners EXCEPT ![g].at = "reading", ![g].held = NoPost]
    /\ UNCHANGED <<vars, run, contexts, believed, mine, big, breaks>>

\* The stream ends because its handler returned, ...
StreamEnds(g) ==
    /\ At(g) = "reading" /\ pc[listeners[g].stream] = "ended"
    /\ listeners[g].next > Len(got[listeners[g].stream])
    /\ Goto(g, "backoff")
    /\ UNCHANGED <<vars, run, contexts, agentVars, mine, big, breaks>>

\* ... or because the connection broke.
ConnectionBreaks(g) ==
    /\ At(g) = "reading" /\ breaks < MaxBreaks
    /\ breaks' = breaks + 1
    /\ Goto(g, "backoff")
    /\ UNCHANGED <<vars, run, contexts, agentVars, mine, big>>

\* Bug for comparison: a lost connection ends the goroutine.
NoRetry(g) ==
    /\ At(g) = "backoff" /\ ~listeners[g].cancelled
    /\ Goto(g, "gone")
    /\ UNCHANGED <<vars, run, contexts, agentVars, mine, big, breaks>>
\* Three seconds have passed.
Retry(g) ==
    /\ At(g) = "backoff" /\ ~listeners[g].cancelled
    /\ Goto(g, "dialing")
    /\ UNCHANGED <<vars, run, contexts, agentVars, mine, big, breaks>>

\* Bug for comparison: the request was made without the context.
StopBetween(g) ==
    /\ At(g) \in {"dialing", "backoff"} /\ listeners[g].cancelled
    /\ Goto(g, "gone")
    /\ UNCHANGED <<vars, run, contexts, agentVars, mine, big, breaks>>
\* Bug for comparison: a notification is given up where it stands.
StopInWrite(g) ==
    /\ At(g) \in {"dialing", "reading", "writing", "backoff"} /\ listeners[g].cancelled
    /\ Goto(g, "gone")
    /\ UNCHANGED <<vars, run, contexts, agentVars, mine, big, breaks>>
\* A cancelled context ends the request, the read and the wait.
Stop(g) ==
    /\ At(g) \in {"dialing", "reading", "backoff"} /\ listeners[g].cancelled
    /\ Goto(g, "gone")
    /\ UNCHANGED <<vars, run, contexts, agentVars, mine, big, breaks>>

Listen(g) ==
    \/ Dial(g) \/ DialFails(g) \/ ReadEvent(g) \/ WriteNotification(g)
    \/ StreamEnds(g) \/ ConnectionBreaks(g) \/ Retry(g) \/ Stop(g)

\* The handlers of the broker; a client is gone when its goroutine has left.
Handler(s) ==
    /\ \/ SendInitial(s) /\ (Connected(s) => pc'[s] = "snapshot")
       \/ CountConnection(s) \/ Subscribe(s) \/ SendEvent(s) \/ ChannelClosed(s) \/ Uncount(s)
       \/ ~Connected(s) /\ ClientGone(s)
    /\ UNCHANGED mcpVars

PublishAny == (\E post \in pending : Publish(post)) /\ UNCHANGED mcpVars

McpNext ==
    \/ Run \/ StdinClosed \/ CallListSubscriptions
    \/ \E p \in Projects : CallSubscribeProject(p) \/ CallUnsubscribeProject(p)
    \/ \E p \in Projects, k \in Kind, isBig \in {FALSE, BigPosts} :
         CallPost(p, k, isBig) \/ OtherPost(p, k, isBig)
    \/ \E g \in DOMAIN listeners : Listen(g)
    \/ \E s \in Streams : Handler(s)
    \/ PublishAny
    \/ (CloseAll \/ Shutdown) /\ UNCHANGED mcpVars

McpSpec == McpInit /\ [][McpNext]_allVars

\* Goroutines of the server and of the broker run on; the agent, the other
\* agents, breaks and shutdowns promise nothing.
McpFairness ==
    /\ \A g \in Indices :
         /\ WF_allVars(g \in DOMAIN listeners /\ (ReadEvent(g) \/ WriteNotification(g)))
         /\ WF_allVars(g \in DOMAIN listeners /\ (Dial(g) \/ DialFails(g) \/ StreamEnds(g)
                                                 \/ Retry(g) \/ Stop(g)))
    /\ \A s \in Streams : WF_allVars(Handler(s))
    /\ WF_allVars(PublishAny)
McpFairSpec == McpSpec /\ McpFairness

-----------------------------------------------------------------------------
(* Properties *)

ListenerTypeOK ==
    /\ run \in {"new", "up", "down"}
    /\ contexts \in [Projects -> 0..MaxListeners]
    /\ Len(listeners) <= MaxListeners
    /\ \A g \in DOMAIN listeners :
         /\ listeners[g].project \in Projects /\ listeners[g].cancelled \in BOOLEAN
         /\ At(g) \in {"dialing", "reading", "writing", "backoff", "gone"}
         /\ listeners[g].stream \in Streams \cup {"none"}
         /\ At(g) = "writing" <=> listeners[g].held # NoPost

\* What this server posts never comes back to its agent, live or with the
\* snapshot of a new connection (isSelfEcho).
NoSelfEcho ==
    /\ \A g \in Indices, e \in {x[2] : x \in shown} : e.id \notin mine
    /\ \A g \in Indices : \A n \in DOMAIN heard[g] : heard[g][n].id \notin mine

\* Over subscribing, unsubscribing and connecting again: a goroutine that was not
\* cancelled has its cancel function in sseContexts, and no project has two.
ListenersOwned ==
    \A g \in DOMAIN listeners :
        (~listeners[g].cancelled <=> contexts[listeners[g].project] = g)
        /\ (~listeners[g].cancelled => At(g) # "gone")

\* The replies of the tools are true: what the agent was last told of a
\* subscription is what sseContexts holds.
RepliesTrue ==
    run = "up" => \A p \in Projects :
        /\ believed[p] = "yes" => contexts[p] # 0
        /\ believed[p] = "no" => contexts[p] = 0

\* A listener passes messages on once and in the order of their publishing, also
\* across connections (consumeSSE).
Before(d, e) ==
    \E m, n \in DOMAIN published[d.project] :
        m < n /\ published[d.project][m] = d /\ published[d.project][n] = e
HeardOnceInOrder ==
    \A g \in Indices : \A m, n \in DOMAIN heard[g] :
        m < n => Before(heard[g][m], heard[g][n])

\* A cancelled listener passes on one event at most, the one it had in hand.
OneLateAtMost == \A g \in Indices : late[g] <= 1

\* What the channel server promises its agent: of its listeners none is left behind or
\* doubled, the replies are true, a cancelled listener passes on one event at most, and
\* messages arrive once and in order, never those of the agent itself (listenSSE,
\* consumeSSE, callSubscribeProject, isSelfEcho).
ListenersAreTrue ==
    /\ ListenerTypeOK /\ ListenersOwned /\ RepliesTrue
    /\ OneLateAtMost /\ NoSelfEcho /\ HeardOnceInOrder

\* What is said of unsubscribe_project: "Stops receiving channel notifications
\* from the specified project" (server.go:120).
NothingLate == \A g \in Indices : late[g] = 0

\* "Forwards events as MCP channel notifications.  Reconnects on failure" (server.go:
\* 613): every artifact of others that fits into a line is passed on while its project
\* is subscribed, after any break, but for one that fell into the broker's gap.
Shown(e) == \E g \in Indices : <<g, e>> \in shown
InGap(e) == \E s \in Streams : Connected(s) /\ e \in missed[s]
ArtifactsShown ==
    \A p \in Projects, n \in 1..MaxPosts :
        LET e == [id |-> n, kind |-> "artifact", project |-> p] IN
        (e \in Posts /\ n \notin mine \cup big /\ contexts[p] # 0)
            ~> (Shown(e) \/ InGap(e) \/ contexts[p] = 0 \/ phase # "up")

\* A cancelled goroutine ends, wherever it was (listenSSE).
CancelledEnd ==
    \A g \in Indices : (g \in DOMAIN listeners /\ listeners[g].cancelled)
                           ~> (g \in DOMAIN listeners /\ At(g) = "gone")

=============================================================================
