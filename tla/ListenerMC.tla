----------------------------- MODULE ListenerMC -----------------------------
(* The broker and the channel server of one agent for TLC.  A behaviour is   *)
(* one of a scenario: the bus alone with its clients; the tools of the agent *)
(* while the server closes or the lines are too long; the last event after a *)
(* cancellation; the order of events over connections made again.            *)
EXTENDS McpListener

VARIABLE scenario

\* ZPIT_LISTEN_PROJECTS with a blank, the own project and another one twice.
Listed == <<"own", "", "other", "other">>

ASSUME ListenerConstants == ListenerAssumption

\* Where the tools and the cancellation are looked at one stream is of the other project
\* and the second is not taken, so that the own listener keeps dialing.
StreamsOf == IF scenario \in {"tools", "last"} THEN [s1 |-> "other", s2 |-> "own"]
             ELSE [s1 |-> "own", s2 |-> "own"]

ListenersInit ==
    /\ scenario \in {"bus", "tools", "last", "order"}
    /\ McpInit
    /\ project = StreamsOf

\* The clients of the broker alone.
BusNext ==
    /\ Next
    /\ store'["other"] = store["other"]
    /\ UNCHANGED mcpVars

\* Every tool, lines of any length and the end of the process, over one post.
ToolsNext ==
    /\ McpNext
    /\ Cardinality(Posts') <= 1 /\ breaks' = 0 /\ pc'["s2"] = "new"

\* Two posts of others while a subscription is cancelled.
LastNext ==
    /\ \/ Run \/ PublishAny
       \/ \E k \in Kind : CallPost("other", k, FALSE) \/ OtherPost("other", k, FALSE)
       \/ CallUnsubscribeProject("own") \/ CallUnsubscribeProject("other")
       \/ \E g \in DOMAIN listeners : Listen(g)
       \/ \E s \in Streams : Handler(s)
    /\ breaks' = 0 /\ pc'["s2"] = "new"

\* A connection breaks and is made again while the broker still serves the old one.
OrderNext ==
    /\ \/ Run \/ PublishAny
       \/ \E k \in Kind : CallPost("own", k, FALSE) \/ OtherPost("own", k, FALSE)
       \/ \E g \in DOMAIN listeners : listeners[g].project = Own /\ Listen(g)
       \/ \E s \in Streams : Handler(s)
    /\ big' = {}

ListenersNext ==
    /\ \/ scenario = "bus" /\ BusNext
       \/ scenario = "tools" /\ ToolsNext
       \/ scenario = "last" /\ LastNext
       \/ scenario = "order" /\ OrderNext
    /\ UNCHANGED scenario

ListenersSpec == ListenersInit /\ [][ListenersNext]_<<scenario, allVars>>

=============================================================================
