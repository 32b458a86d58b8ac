------------------------------ MODULE ChannelSubs ------------------------------
(***************************************************************************)
(* The channel feeds of the dashboard: AppState.channelSubs maps a project *)
(* key to a subscription of the broker's event bus, and commands of the    *)
(* clients read it event by event into channelEvents (channel.go).  Agents *)
(* launched, loops, the edit menu and config reloads of several clients    *)
(* subscribe and unsubscribe the one map (appstate.go, model.go,           *)
(* confirm.go).  The bus is modelled by its channels; Broker has the rest. *)
(***************************************************************************)
EXTENDS Naturals, Sequences, FiniteSets, SequencesExt, BagsExt, Bags

CONSTANTS
    Clients,        \* sessions of the dashboard
    Projects,       \* the projects of the config, in its order: a sequence
    Global,         \* a key that is no project, "_global"
    Listens,        \* the listen lists a user may choose
    Started,        \* [enabled, listen] as first loaded
    Cap,            \* buffer of a bus channel
    Bound           \* Bound[op]: how often each of Ops happens (model only)

Ops == {"launch", "loop", "toggle", "listen", "reload", "dialog", "quit", "event", "fault"}
Keys == ToSet(Projects) \cup {Global}
Config == [enabled : [ToSet(Projects) -> BOOLEAN],
           listen : [ToSet(Projects) -> SUBSET Keys]]

ChannelAssumption ==
    /\ IsInjective(Projects)
    /\ Listens \subseteq SUBSET Keys
    /\ Started \in Config
    /\ Cap \in Nat \ {0}
    /\ Bound \in [Ops -> Nat]

VARIABLES
    alive,          \* clients whose program runs
    gate,           \* "closed": an overlay or dialog takes every message
    config,         \* cfg and projects, what concerns channels
    broker,         \* broker # nil
    loops,          \* projects whose loop is active
    chans,          \* every channel the bus ever gave out; open: still on it
    subs,           \* channelSubs: key -> index in chans, or 0
    readers,        \* bag of channelReadNextCmd blocked on a channel
    msgs,           \* bag of their answers, not handled yet
    job,            \* what a handler is in the middle of
    reload,         \* ConfigReloadedMsg on its way: the file and the diff taken
    recorded,       \* channelEvents
    published,      \* events published per key
    losses,         \* what has gone wrong already, by the step that did it (history)
    left            \* Bound minus what happened

feedVars == <<chans, subs, readers, job>>
vars == <<alive, gate, config, broker, loops, feedVars, msgs, reload, recorded,
          published, losses, left>>

NoJob == [op |-> "none"]
NoReload == [op |-> "none"]
NoLosses == [twice |-> {}, unread |-> {}, taken |-> {}]
Reader == [client : Clients, key : Keys, ch : Nat]
Msg == [client : Clients, key : Keys, event : Nat]     \* event 0: closed
Job ==
    {NoJob}
    \cup [op : {"subscribe"}, todo : Seq(Keys), ch : Nat]
    \cup [op : {"close"}, chans : SUBSET Nat]

Init ==
    /\ alive = Clients
    /\ gate = [c \in Clients |-> "open"]
    /\ config = Started
    /\ broker = (\E p \in ToSet(Projects) : Started.enabled[p])
    /\ loops = {}
    /\ chans = <<>> /\ subs = [k \in Keys |-> 0]
    /\ readers = EmptyBag /\ msgs = EmptyBag
    /\ job = [c \in Clients |-> NoJob]
    /\ reload = [c \in Clients |-> NoReload]
    /\ recorded = [k \in Keys |-> <<>>] /\ published = [k \in Keys |-> 0]
    /\ losses = NoLosses
    /\ left = Bound

Spend(op) == left[op] > 0 /\ left' = [left EXCEPT ![op] = @ - 1]

\* A handler of c may begin.
Free(c) == c \in alive /\ gate[c] = "open" /\ job[c] = NoJob

\* Somebody alive waits on the channel of k, or is about to handle an event of it.
Attended(k) ==
    \/ \E r \in BagToSet(readers) : r.ch = subs[k] /\ r.client \in alive
    \/ \E m \in BagToSet(msgs) : m.key = k /\ m.event # 0 /\ m.client \in alive

\* History: keys that get a second channel, keys whose last reader goes, and keys of
\* <<loop, key>> that go for another reason than the loop's own.  A loss ends when the
\* key is read, or subscribed, again, or the loop stops.
Lose(twice, unread, taken) ==
    losses' = [twice |-> losses.twice \cup twice,
               unread |-> {k \in losses.unread \cup unread : subs'[k] # 0 /\ ~Attended(k)'},
               taken |-> {e \in losses.taken \cup taken : e[1] \in loops' /\ subs'[e[2]] = 0}]
LoseNothing == Lose({}, {}, {})

OnBus(k) == {i \in DOMAIN chans : chans[i].open /\ chans[i].key = k}
Takes(q, keys) ==
    {e \in loops \X keys : e[1] # q \/ (e[2] = q /\ q \in config.listen[q])}
ScopeOf(ps) == {e \in ps \X Keys : e[2] = e[1] \/ e[2] \in config.listen[e[1]]}

-----------------------------------------------------------------------------
(* Subscriptions, changed in one piece under the lock *)

Feed == [chans |-> chans, subs |-> subs, readers |-> readers]

NewChan(k) == [key |-> k, buf |-> <<>>, open |-> TRUE]

\* Bug for comparison: a key that is subscribed is subscribed again.
SubscribeAnyway(feed, c, k) ==
    LET n == Len(feed.chans) + 1
    IN [chans |-> Append(feed.chans, NewChan(k)),
        subs |-> [feed.subs EXCEPT ![k] = n],
        readers |-> BagAdd(feed.readers, [client |-> c, key |-> k, ch |-> n])]
\* Subscribe if not already subscribed, with a command that reads.
SubscribeKey(feed, c, k) ==
    IF feed.subs[k] # 0 THEN feed
    ELSE LET n == Len(feed.chans) + 1
         IN [chans |-> Append(feed.chans, NewChan(k)),
             subs |-> [feed.subs EXCEPT ![k] = n],
             readers |-> BagAdd(feed.readers, [client |-> c, key |-> k, ch |-> n])]

\* Bug for comparison: the channel is closed, the entry forgotten.
UnsubscribeBusOnly(feed, c, k) ==
    IF feed.subs[k] = 0 THEN feed
    ELSE [feed EXCEPT !.chans[feed.subs[k]].open = FALSE]
UnsubscribeKey(feed, c, k) ==
    IF feed.subs[k] = 0 THEN feed
    ELSE [feed EXCEPT !.chans[feed.subs[k]].open = FALSE, !.subs[k] = 0]

\* A row of <<TRUE, key>> (subscribe) and <<FALSE, key>> (unsubscribe).
Apply(c, row) ==
    LET after == FoldLeft(LAMBDA feed, e :
                              IF e[1] THEN SubscribeKey(feed, c, e[2])
                              ELSE UnsubscribeKey(feed, c, e[2]),
                          Feed, row)
    IN chans' = after.chans /\ subs' = after.subs /\ readers' = after.readers

\* Keys that get a channel beside one that another handler has not stored, or not
\* closed, yet.
Doubled == {k \in Keys : subs'[k] \notin {0, subs[k]} /\ OnBus(k) \ {subs[k]} # {}}

Each(on, keys) == [n \in 1..Cardinality(keys) |-> <<on, SetToSeq(keys)[n]>>]

-----------------------------------------------------------------------------
(* The user *)

\* channelSubscribeCmd is called for these keys, one after the other; what was
\* not subscribed is looked up under the lock, the calls come after it.
UnsubscribedOwn(p) == {}    \* bug for comparison: the own project only
Unsubscribed(p) == {k \in config.listen[p] \ {p} : subs[k] = 0}
BeginSubscribe(c, p) ==
    job' = [job EXCEPT ![c] =
        [op |-> "subscribe", todo |-> <<p>> \o SetToSeq(Unsubscribed(p)), ch |-> 0]]

\* handleLaunchResult: an agent was launched.  (The config and the broker are
\* read under the lock and once more after it; one reading stands for both.)
Launch(c, p) ==
    /\ Free(c) /\ Spend("launch")
    /\ IF subs[p] = 0 /\ config.enabled[p] /\ broker
       THEN BeginSubscribe(c, p)
       ELSE UNCHANGED job
    /\ UNCHANGED <<alive, gate, config, broker, loops, chans, subs, readers, msgs,
                   reload, recorded, published, losses>>

\* executePendingOp, PendingLoop.
StartLoop(c, p) ==
    /\ Free(c) /\ Spend("loop")
    /\ loops' = loops \cup {p}
    /\ IF config.enabled[p] /\ broker
       THEN BeginSubscribe(c, p)
       ELSE UNCHANGED job
    /\ UNCHANGED <<alive, gate, config, broker, chans, subs, readers, msgs, reload,
                   recorded, published>>
    /\ Lose({}, {}, IF config.enabled[p] /\ ~broker THEN ScopeOf({p}) ELSE {})

\* channelSubscribeCmd: onto the bus, then into the map, whatever it holds.
SubscribeOnBus(c) ==
    /\ job[c].op = "subscribe" /\ job[c].ch = 0 /\ job[c].todo # <<>>
    /\ chans' = Append(chans, NewChan(Head(job[c].todo)))
    /\ job' = [job EXCEPT ![c].ch = Len(chans')]
    /\ UNCHANGED <<alive, gate, config, broker, loops, subs, readers, msgs, reload,
                   recorded, published, left>>
    /\ Lose({k \in {Head(job[c].todo)} : OnBus(k) # {}}, {}, {})

StoreSubscription(c) ==
    /\ job[c].op = "subscribe" /\ job[c].ch # 0
    /\ LET k == Head(job[c].todo)
           rest == Tail(job[c].todo)
       IN /\ subs' = [subs EXCEPT ![k] = job[c].ch]
          /\ readers' = BagAdd(readers, [client |-> c, key |-> k, ch |-> job[c].ch])
          /\ job' = [job EXCEPT ![c] = IF rest = <<>> THEN NoJob
                                       ELSE [@ EXCEPT !.todo = rest, !.ch = 0]]
    /\ UNCHANGED <<alive, gate, config, broker, loops, chans, msgs, reload, recorded,
                   published, left>>
    /\ LoseNothing

\* The loop key on an active loop: the entries go under the lock, the channels
\* are closed after it, whoever else listens to them.
StopLoop(c, p) ==
    LET keys == {k \in config.listen[p] \cup {p} : subs[k] # 0}
    IN /\ Free(c) /\ p \in loops
       /\ loops' = loops \ {p}
       /\ subs' = [k \in Keys |-> IF k \in keys THEN 0 ELSE subs[k]]
       /\ job' = [job EXCEPT ![c] = [op |-> "close", chans |-> {subs[k] : k \in keys}]]
       /\ UNCHANGED <<alive, gate, config, broker, chans, readers, msgs, reload,
                      recorded, published, left>>
       /\ Lose({}, {}, Takes(p, keys))

CloseChans(c) ==
    /\ job[c].op = "close"
    /\ chans' = [i \in DOMAIN chans |->
           IF i \in job[c].chans THEN [chans[i] EXCEPT !.open = FALSE] ELSE chans[i]]
    /\ job' = [job EXCEPT ![c] = NoJob]
    /\ UNCHANGED <<alive, gate, config, broker, loops, subs, readers, msgs, reload,
                   recorded, published, losses, left>>

\* ToggleChannel.  The broker is started when it is first needed, if it can be.
ToggleOn(c, p) ==
    /\ Free(c) /\ ~config.enabled[p] /\ Spend("toggle")
    /\ broker' = TRUE
    /\ config' = [config EXCEPT !.enabled[p] = TRUE]
    /\ Apply(c, <<<<TRUE, p>>>> \o Each(TRUE, config.listen[p]))
    /\ UNCHANGED <<alive, gate, loops, msgs, job, reload, recorded, published>>
    /\ Lose(Doubled, {}, {})

ToggleFails(c, p) ==
    /\ Free(c) /\ ~config.enabled[p] /\ ~broker /\ Spend("fault")
    /\ UNCHANGED <<alive, gate, config, broker, loops, feedVars, msgs, reload, recorded,
                   published, losses>>

ToggleOff(c, p) ==
    /\ Free(c) /\ config.enabled[p] /\ Spend("toggle")
    /\ config' = [config EXCEPT !.enabled[p] = FALSE]
    /\ Apply(c, <<<<FALSE, p>>>>)
    /\ UNCHANGED <<alive, gate, broker, loops, msgs, job, reload, recorded, published>>
    /\ Lose({}, {}, Takes(p, {p}))

\* The rows of a change of the listen list: new keys in, then old ones out.
ListenRow(old, new) == Each(TRUE, new \ old) \o Each(FALSE, old \ new)

UpdateListen(c, p, L) ==
    /\ Free(c) /\ Spend("listen")
    /\ p \notin L
    /\ config' = [config EXCEPT !.listen[p] = L]
    /\ IF config.enabled[p] /\ broker
       THEN Apply(c, ListenRow(config.listen[p], L))
       ELSE UNCHANGED <<chans, subs, readers>>
    /\ UNCHANGED <<alive, gate, broker, loops, msgs, job, reload, recorded, published>>
    /\ Lose(Doubled, {}, Takes(p, config.listen[p] \ L)
                         \cup (IF config.enabled[p] /\ ~broker THEN ScopeOf({p})' ELSE {}))

\* Overlays and dialogs come and go; a remote session ends with [q].  (The local
\* one takes the broker with it, and then there is nothing left to feed.)
SwitchGate(c) ==
    /\ c \in alive /\ job[c] = NoJob
    /\ \/ gate[c] = "open" /\ Spend("dialog") /\ gate' = [gate EXCEPT ![c] = "closed"]
       \/ gate[c] = "closed" /\ UNCHANGED left /\ gate' = [gate EXCEPT ![c] = "open"]
    /\ UNCHANGED <<alive, config, broker, loops, feedVars, msgs, reload, recorded,
                   published, losses>>

Quit(c) ==
    /\ c \in alive /\ job[c] = NoJob /\ Spend("quit")
    /\ alive' = alive \ {c}
    /\ reload' = [reload EXCEPT ![c] = NoReload]
    /\ UNCHANGED <<gate, config, broker, loops, feedVars, msgs, recorded, published>>
    /\ Lose({}, Keys, {})

-----------------------------------------------------------------------------
(* Reloading the config *)

\* reloadConfigCmd: the file, whatever the user wrote into it, and the diff to
\* the config of this moment.
ReadConfig(c, file) ==
    /\ Free(c) /\ reload[c] = NoReload /\ Spend("reload")
    /\ reload' = [reload EXCEPT ![c] = [op |-> "apply", file |-> file, channel |-> file # config]]
    /\ UNCHANGED <<alive, gate, config, broker, loops, feedVars, msgs, recorded, published,
                   losses>>

\* ApplyConfig, for one project: what its old and new entry ask for.
ProjectRow(old, new, p) ==
    LET off == ~new.enabled[p] /\ old.enabled[p]
        on == new.enabled[p] /\ ~old.enabled[p]
    IN (IF on THEN <<<<TRUE, p>>>> \o Each(TRUE, new.listen[p]) ELSE <<>>)
       \o (IF off THEN <<<<FALSE, p>>>> ELSE <<>>)
       \o (IF new.enabled[p] THEN ListenRow(old.listen[p], new.listen[p]) ELSE <<>>)

\* If the broker cannot be started, nothing is enabled that was not.
AbleTo(old, new, able) ==
    IF able THEN new
    ELSE [new EXCEPT !.enabled = [p \in DOMAIN @ |-> @[p] /\ old.enabled[p]]]

\* handleConfigReloaded and ApplyConfig: the whole config is taken over; the
\* subscriptions follow only if the diff had a channel change, or another
\* change brought the config here.
ApplyConfig(c) ==
    /\ Free(c) /\ reload[c] # NoReload
    /\ reload' = [reload EXCEPT ![c] = NoReload]
    /\ UNCHANGED <<alive, gate, loops, msgs, job, recorded, published>>
    /\ \E other \in BOOLEAN, able \in BOOLEAN :
           /\ IF able \/ broker THEN UNCHANGED left ELSE Spend("fault")
           /\ IF reload[c].channel
              THEN LET new == AbleTo(config, reload[c].file, able \/ broker)
                       On(i) == new.enabled[Projects[i]] /\ ~config.enabled[Projects[i]]
                       brokerAt == [n \in DOMAIN Projects |-> broker \/ \E i \in 1..n : On(i)]
                       rows == [n \in DOMAIN Projects |->
                                  SelectSeq(ProjectRow(config, new, Projects[n]),
                                            LAMBDA e : e[1] => brokerAt[n])]
                   IN /\ config' = new
                      /\ broker' = brokerAt[Len(Projects)]
                      /\ Apply(c, FlattenSeq(rows))
                      /\ Lose(Doubled, {},
                              UNION {Takes(Projects[n], {k \in Keys : <<FALSE, k>> \in ToSet(rows[n])}) :
                                       n \in DOMAIN rows}
                              \cup {e \in ScopeOf(loops)' : ~broker /\ config.enabled[e[1]]})
              ELSE /\ config' = IF other THEN reload[c].file ELSE config
                   /\ UNCHANGED <<broker, chans, subs, readers>>
                   /\ Lose({}, {}, IF other THEN ScopeOf(loops)' ELSE {})

\* The answer comes while an overlay or a dialog takes every message.
ReloadLost(c) ==
    /\ c \in alive /\ gate[c] = "closed" /\ reload[c] # NoReload
    /\ reload' = [reload EXCEPT ![c] = NoReload]
    /\ UNCHANGED <<alive, gate, config, broker, loops, feedVars, msgs, recorded,
                   published, losses, left>>

-----------------------------------------------------------------------------
(* Events *)

Publish(k) ==
    /\ broker /\ Spend("event")
    /\ published' = [published EXCEPT ![k] = @ + 1]
    /\ chans' = [i \in DOMAIN chans |->
           IF chans[i].key = k /\ chans[i].open /\ Len(chans[i].buf) < Cap
           THEN [chans[i] EXCEPT !.buf = Append(@, published'[k])]
           ELSE chans[i]]
    /\ UNCHANGED <<alive, gate, config, broker, loops, subs, readers, msgs, job,
                   reload, recorded, losses>>

\* channelReadNextCmd returns, also in a client that is gone.
Read(r) ==
    /\ BagIn(r, readers)
    /\ LET ch == chans[r.ch]
       IN /\ ch.buf # <<>> \/ ~ch.open
          /\ readers' = BagRemove(readers, r)
          /\ msgs' = BagAdd(msgs, [client |-> r.client, key |-> r.key,
                                   event |-> IF ch.buf = <<>> THEN 0 ELSE Head(ch.buf)])
          /\ chans' = IF ch.buf = <<>> THEN chans
                      ELSE [chans EXCEPT ![r.ch].buf = Tail(@)]
    /\ UNCHANGED <<alive, gate, config, broker, loops, subs, job, reload, recorded,
                   published, losses, left>>

\* Bugs for comparison: the next read is forgotten; the map is not asked for it.
NextReadNone(m) == {}
NextReadUnchecked(m) == {[client |-> m.client, key |-> m.key, ch |-> subs[m.key]]}
\* The next read of the key: of the channel the map has by now.
NextRead(m) ==
    IF subs[m.key] = 0 THEN {}
    ELSE {[client |-> m.client, key |-> m.key, ch |-> subs[m.key]]}

\* handleChannelEvent.
HandleEvent(m) ==
    /\ BagIn(m, msgs) /\ m.event # 0 /\ Free(m.client)
    /\ msgs' = BagRemove(msgs, m)
    /\ recorded' = [recorded EXCEPT ![m.key] = Append(@, m.event)]
    /\ readers' = readers (+) SetToBag(NextRead(m))
    /\ UNCHANGED <<alive, gate, config, broker, loops, chans, subs, job, reload,
                   published, left>>
    /\ LoseNothing

\* The channel was closed; or the message is taken by an overlay, a dialog or
\* a program that has ended.
DropMessage(m) ==
    /\ BagIn(m, msgs)
    /\ m.event = 0 \/ m.client \notin alive \/ gate[m.client] = "closed"
    /\ msgs' = BagRemove(msgs, m)
    /\ UNCHANGED <<alive, gate, config, broker, loops, feedVars, reload, recorded,
                   published, left>>
    /\ Lose({}, IF m.event = 0 THEN {} ELSE {m.key}, {})

-----------------------------------------------------------------------------
User(c) ==
    \/ SwitchGate(c) \/ Quit(c)
    \/ \E file \in [enabled : [ToSet(Projects) -> BOOLEAN],
                    listen : [ToSet(Projects) -> Listens]] : ReadConfig(c, file)
    \/ \E p \in ToSet(Projects) :
           \/ Launch(c, p) \/ StartLoop(c, p) \/ StopLoop(c, p)
           \/ ToggleOn(c, p) \/ ToggleFails(c, p) \/ ToggleOff(c, p)
           \/ \E L \in Listens : UpdateListen(c, p, L)

Handler(c) ==
    \/ SubscribeOnBus(c) \/ StoreSubscription(c) \/ CloseChans(c)
    \/ ApplyConfig(c) \/ ReloadLost(c)
Reads == \E r \in BagToSet(readers) : Read(r)
Handles == \E m \in BagToSet(msgs) : HandleEvent(m) \/ DropMessage(m)

Next ==
    \/ \E c \in Clients : User(c) \/ Handler(c)
    \/ \E k \in Keys : Publish(k)
    \/ Reads \/ Handles

Spec == Init /\ [][Next]_vars

\* Programs run; nobody has to press a key or publish anything.
FairSpec ==
    Spec /\ WF_vars(Reads) /\ WF_vars(Handles) /\ \A c \in Clients : WF_vars(Handler(c))

-----------------------------------------------------------------------------
(* Properties *)

TypeOK ==
    /\ alive \subseteq Clients
    /\ gate \in [Clients -> {"open", "closed"}]
    /\ config \in Config
    /\ {broker} \subseteq BOOLEAN
    /\ loops \subseteq ToSet(Projects)
    /\ \A i \in DOMAIN chans : chans[i] \in [key : Keys, buf : Seq(Nat), open : BOOLEAN]
    /\ subs \in [Keys -> 0..Len(chans)]
    /\ \A r \in BagToSet(readers) : r \in Reader /\ r.ch \in DOMAIN chans
    /\ BagToSet(msgs) \subseteq Msg
    /\ job \in [Clients -> Job]
    /\ recorded \in [Keys -> Seq(Nat)] /\ published \in [Keys -> Nat]
    /\ losses \in [twice : SUBSET Keys, unread : SUBSET Keys,
                    taken : SUBSET (ToSet(Projects) \X Keys)]

\* What channelSubs holds for a key is a channel of that key and still on the
\* bus, through every interleaving of lock-protected and unprotected halves.
HeldIsOpen ==
    \A k \in Keys : subs[k] # 0 => chans[subs[k]].open /\ chans[subs[k]].key = k

\* A subscription that is held is read by a client that lives, until an overlay or a
\* dialog takes the event its last reader brought, or the client of that reader quits
\* (12-channel.md:152; update's overlay, the quit of a remote session).
HeldIsRead == \A k \in Keys : subs[k] # 0 => Attended(k) \/ k \in losses.unread

\* No event is shown twice: "subscribe ... if channel_enabled and not already
\* subscribed" (handleLaunchResult); except of a key for which channelSubscribeCmd took
\* a channel while one was on the bus, or which was subscribed between the halves of
\* another client's channelSubscribeCmd or loop stop.
RecordedOnce == \A k \in Keys : k \in losses.twice \/ IsInjective(recorded[k])

\* "The subscription covers the own project and every channel_listen entry"
\* (12-channel.md:150) of a loop that runs with its channel on, but for the keys another
\* project's loop, channel or listen list has ended, and those of a config taken over
\* without its subscriptions or enabled without a broker.
ScopeSubscribed ==
    (\A c \in Clients : job[c] = NoJob) =>
        \A e \in ScopeOf(loops) :
            config.enabled[e[1]] => subs[e[2]] # 0 \/ e \in losses.taken

Kept == TypeOK /\ HeldIsOpen /\ HeldIsRead /\ RecordedOnce /\ ScopeSubscribed

\* Events do not stay in a channel that is held and has not lost its reader
\* (channelReadNextCmd and handleChannelEvent take turns).
HeldIsDrained ==
    \A k \in Keys :
        (subs[k] # 0 /\ chans[subs[k]].buf # <<>>)
            ~> (subs[k] = 0 \/ chans[subs[k]].buf = <<>> \/ k \in losses.unread)

===============================================================================
