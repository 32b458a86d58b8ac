----------------------------- MODULE DashboardMC -----------------------------
(***************************************************************************)
(* The models of the dashboard, each in small instances of its own.  A     *)
(* behaviour is one of an instance, the scenario: the other models rest in *)
(* their initial state.  StateRefresh, GitView and SessionImport are        *)
(* extended, the others are instances over variables that are named as     *)
(* theirs unless two models share the name.                                *)
(***************************************************************************)
EXTENDS StateRefresh, GitView, SessionImport

VARIABLES
    scenario,
    \* ChannelSubs
    alive, dialogGate, config, broker, loops, chans, subs, readers, msgs, job,
    reload, recorded, published, losses, left,
    \* ConfigFile
    file, memory, changes, fileReload, fileUsed, synced, saved, base,
    \* SessionExport
    listInHistory, folders, drilled, listed, active, selected, allPending,
    exportStep, button, outPath, field, pathFocused, withMemory, exportWork, disk,
    live, zips, exports, scanFaults, packFaults, agentsMoved, allOf, liveAtScan,
    warned

-----------------------------------------------------------------------------
(* The scenarios *)

\* One client with a loop; edits of the scope; two clients with a loop, dialogs and every
\* kind of change; two that launch agents, quit and open dialogs while events come; two
\* loops that share keys, of two clients; and two loops whose config is reloaded.
Of(bounds) ==
    [op \in {"launch", "loop", "toggle", "listen", "reload", "dialog", "quit", "event", "fault"} |->
        IF op \in DOMAIN bounds THEN bounds[op] ELSE 0]
LoopBound == Of([loop |-> 1, launch |-> 1, toggle |-> 2, event |-> 1])
EditBound == Of([launch |-> 1, toggle |-> 3, listen |-> 1, event |-> 3])
ClientBound == Of([loop |-> 1, toggle |-> 1, reload |-> 1, dialog |-> 1, fault |-> 1])
ReaderBound == Of([launch |-> 2, loop |-> 1, dialog |-> 1, quit |-> 1, event |-> 1])
ShareBound == Of([loop |-> 2, toggle |-> 1])
FilesBound == Of([loop |-> 2, reload |-> 1])
Channel(ps, on, listen) == [enabled |-> [p \in ps |-> on], listen |-> [p \in ps |-> listen]]

FeedLoop == INSTANCE ChannelSubs WITH
    Clients <- {"c"}, Projects <- <<"p">>, Global <- "_global", Listens <- {{}, {"_global"}},
    Started <- Channel({"p"}, TRUE, {"_global"}), Cap <- 2, Bound <- LoopBound, gate <- dialogGate
FeedEdits == INSTANCE ChannelSubs WITH
    Clients <- {"c"}, Projects <- <<"p">>, Global <- "_global", Listens <- {{}, {"_global"}},
    Started <- Channel({"p"}, FALSE, {"_global"}), Cap <- 2, Bound <- EditBound, gate <- dialogGate
FeedClients == INSTANCE ChannelSubs WITH
    Clients <- {"c", "d"}, Projects <- <<"p">>, Global <- "_global", Listens <- {{}, {"_global"}},
    Started <- Channel({"p"}, FALSE, {"_global"}), Cap <- 2, Bound <- ClientBound, gate <- dialogGate
FeedReaders == INSTANCE ChannelSubs WITH
    Clients <- {"c", "d"}, Projects <- <<"p">>, Global <- "_global", Listens <- {{}, {"_global"}},
    Started <- Channel({"p"}, TRUE, {}), Cap <- 2, Bound <- ReaderBound, gate <- dialogGate
FeedShared == INSTANCE ChannelSubs WITH
    Clients <- {"c", "d"}, Projects <- <<"p", "q">>, Global <- "_global", Listens <- {{"_global"}, {"q"}},
    Started <- Channel({"p", "q"}, TRUE, {"_global"}), Cap <- 2, Bound <- ShareBound, gate <- dialogGate
FeedFiles == INSTANCE ChannelSubs WITH
    Clients <- {"c"}, Projects <- <<"p", "q">>, Global <- "_global", Listens <- {{"_global"}, {"q"}},
    Started <- Channel({"p", "q"}, TRUE, {"_global"}), Cap <- 2, Bound <- FilesBound, gate <- dialogGate

\* Two changes on every layout of the file; changes by key, edits and reloads.
Layouts == INSTANCE ConfigLayouts
FileLayouts == INSTANCE ConfigFile WITH
    Files <- Layouts!TwoProjects, EditedFiles <- Layouts!OneLess, Jobs <- 1..2,
    Edits <- 0, Reloads <- 0, Overlap <- FALSE,
    jobs <- changes, reload <- fileReload, used <- fileUsed
FileEdits == INSTANCE ConfigFile WITH
    Files <- Layouts!OneFile, EditedFiles <- Layouts!SomeEdits, Jobs <- 1..2,
    Edits <- 2, Reloads <- 2, Overlap <- FALSE,
    jobs <- changes, reload <- fileReload, used <- fileUsed

\* Bundles for SessionImport: two of overlapping sessions, and one with a memory.
MCManifest == [b1 |-> [sessions |-> <<"s1", "s2">>, memory |-> TRUE],
               b2 |-> [sessions |-> <<"s2">>, memory |-> FALSE],
               b3 |-> [sessions |-> <<"s2">>, memory |-> TRUE]]

\* One folder packed; two folders listed; keys pressed before answers.
ExportPack == INSTANCE SessionExport WITH
    Folders <- {"proj"}, Sessions <- {"s1", "s2"}, Works <- {1}, Patient <- TRUE,
    MaxWizards <- 1, MaxScanFaults <- 1, MaxPackFaults <- 1, MaxAgents <- 0,
    inHistory <- listInHistory, shown <- listed, sel <- selected, step <- exportStep,
    focused <- pathFocused, work <- exportWork, wizards <- exports, agents <- agentsMoved
ExportLists == INSTANCE SessionExport WITH
    Folders <- {"proj", "wt"}, Sessions <- {"s1"}, Works <- {1}, Patient <- TRUE,
    MaxWizards <- 1, MaxScanFaults <- 0, MaxPackFaults <- 0, MaxAgents <- 1,
    inHistory <- listInHistory, shown <- listed, sel <- selected, step <- exportStep,
    focused <- pathFocused, work <- exportWork, wizards <- exports, agents <- agentsMoved
ExportHasty == INSTANCE SessionExport WITH
    Folders <- {"proj", "wt"}, Sessions <- {"s1"}, Works <- {1, 2}, Patient <- FALSE,
    MaxWizards <- 1, MaxScanFaults <- 0, MaxPackFaults <- 0, MaxAgents <- 0,
    inHistory <- listInHistory, shown <- listed, sel <- selected, step <- exportStep,
    focused <- pathFocused, work <- exportWork, wizards <- exports, agents <- agentsMoved

ASSUME DashboardAssumption ==
    /\ FeedLoop!ChannelAssumption /\ FeedEdits!ChannelAssumption /\ FeedClients!ChannelAssumption
    /\ FeedReaders!ChannelAssumption /\ FeedShared!ChannelAssumption /\ FeedFiles!ChannelAssumption
    /\ FileLayouts!ConfigAssumption /\ FileEdits!ConfigAssumption
    /\ ExportPack!ExportAssumption /\ ExportLists!ExportAssumption /\ ExportHasty!ExportAssumption

-----------------------------------------------------------------------------
(* The specification: a scenario is chosen once *)

feedVars == <<alive, dialogGate, config, broker, loops, chans, subs, readers, msgs,
              job, reload, recorded, published, losses, left>>
fileVars == <<file, memory, changes, fileReload, fileUsed, synced, saved, base>>
exportVars == <<listInHistory, folders, drilled, listed, active, selected,
                allPending, exportStep, button, outPath, field, pathFocused,
                withMemory, exportWork, disk, live, zips, exports, scanFaults,
                packFaults, agentsMoved, allOf, liveAtScan, warned>>

Feeds == {"loop", "edits", "clients", "readers", "shared", "files"}
Wizards == {"import", "reimport", "hurried"}
Exports == {"pack", "lists", "hasty"}

\* A model at rest starts in one state of those it may start in.
FeedInit ==
    CASE scenario = "loop" -> FeedLoop!Init
      [] scenario = "clients" -> FeedClients!Init
      [] scenario = "readers" -> FeedReaders!Init
      [] scenario = "shared" -> FeedShared!Init
      [] scenario = "files" -> FeedFiles!Init
      [] OTHER -> FeedEdits!Init
FileInit == IF scenario = "layouts" THEN FileLayouts!Init ELSE FileEdits!Init
\* Two bundles; one, imported again after a fault; one by a user who does not wait,
\* while an agent opens a session.
ImportStart ==
    /\ mishaps = CASE scenario = "reimport" -> {"fault"}
                   [] scenario = "hurried" -> {"hasty", "agent"}
                   [] OTHER -> {}
    /\ scenario \notin {"import", "hurried"} => \A d \in Dests : files[d]["s1"] = "absent"
    /\ scenario \notin Wizards =>
           \A d \in Dests : memories[d] = {} /\ files[d]["s2"] = "absent"
ExportInit ==
    /\ CASE scenario = "pack" -> ExportPack!Init
         [] scenario = "hasty" -> ExportHasty!Init
         [] OTHER -> ExportLists!Init
    /\ scenario \notin Exports => live = {} /\ \A f \in DOMAIN disk : disk[f] = {}
    /\ scenario = "lists" => disk["proj"] # {}
    /\ scenario = "hasty" => live = {} /\ disk["proj"] # disk["wt"]

DashboardInit ==
    /\ scenario \in {"refresh", "page", "layouts", "file"} \cup Feeds \cup Wizards \cup Exports
    /\ Init /\ FeedInit /\ GitInit /\ FileInit /\ ImportInit /\ ImportStart /\ ExportInit

RefreshStep ==
    /\ scenario = "refresh" /\ Next
    /\ UNCHANGED <<feedVars, gitVars, fileVars, importVars, exportVars>>
FeedStep ==
    /\ \/ scenario = "loop" /\ FeedLoop!Next
       \/ scenario = "edits" /\ FeedEdits!Next
       \/ scenario = "clients" /\ FeedClients!Next
       \/ scenario = "readers" /\ FeedReaders!Next
       \/ scenario = "shared" /\ FeedShared!Next
       \/ scenario = "files" /\ FeedFiles!Next
    /\ UNCHANGED <<vars, gitVars, fileVars, importVars, exportVars>>
\* The last operation only where no overlay came up and no project went away.
GitStep ==
    /\ scenario = "page" /\ GitNext
    /\ gitUsed'.started = MaxOps => gitUsed'.overlays = 0 /\ known' = Projects
    /\ UNCHANGED <<vars, feedVars, fileVars, importVars, exportVars>>
FileStep ==
    /\ \/ scenario = "layouts" /\ FileLayouts!Next
       \/ scenario = "file" /\ FileEdits!Next
    /\ UNCHANGED <<vars, feedVars, gitVars, importVars, exportVars>>
ImportStep ==
    /\ scenario \in Wizards
    /\ ImportNext
    /\ CASE scenario = "import" -> path' # "b3"
         [] scenario = "reimport" -> path' \in {"none", "b3"}
         [] scenario = "hurried" -> path' \in {"none", "b1"} /\ wizards' <= 1
    /\ UNCHANGED <<vars, feedVars, gitVars, fileVars, exportVars>>
ExportStep ==
    /\ \/ scenario = "pack" /\ ExportPack!Next
       \/ scenario = "lists" /\ ExportLists!Next
       \/ scenario = "hasty" /\ ExportHasty!Next
    /\ UNCHANGED <<vars, feedVars, gitVars, fileVars, importVars>>

DashboardNext ==
    /\ \/ RefreshStep \/ FeedStep \/ GitStep \/ FileStep \/ ImportStep \/ ExportStep
    /\ UNCHANGED scenario

dashboardVars == <<scenario, vars, feedVars, gitVars, fileVars, importVars, exportVars>>
DashboardSpec == DashboardInit /\ [][DashboardNext]_dashboardVars

-----------------------------------------------------------------------------
(* Properties: each names the parts it is made of, with the scenarios that can *)
(* break them; NoLostWakeup is that of StateRefresh, PageIsTrue of GitView, ContractKept *)
(* of SessionImport                                                             *)

\* A subscription that is held is a channel of the bus and is read by a client that lives,
\* no event is recorded twice (handleLaunchResult: "not already subscribed") and a loop
\* with its channel on has a subscription for its project and for every key of its listen
\* list (12-channel.md:150), in each scenario of one or two clients and one or two loops,
\* but for the keys that losses names, with the step that lost them: their last reader
\* went with an overlay, a dialog or a client that quit (model.go:408, 699); a channel was
\* taken beside one that was there (channel.go:58, after confirm.go:245 and
\* model.go:1154); a loop that stops, a switch or a list ended another's (model.go:859,
\* appstate.go:441), or a reload had no channel change (appstate.go:262).  One client that
\* edits loses nothing; one with a loop only takes its own key twice.
ChannelsKept ==
    /\ scenario = "loop" => FeedLoop!Kept /\ losses \in [twice : SUBSET {"p"}, unread : {{}}, taken : {{}}]
    /\ scenario = "edits" => FeedEdits!Kept /\ losses = FeedEdits!NoLosses
    /\ scenario \in {"clients", "readers"} => FeedClients!Kept
    /\ scenario = "shared" => FeedShared!Kept
    /\ scenario = "files" => FeedFiles!Kept

\* Between changes config.toml is readable and says what the program works with; a change
\* by key lands in its project, moves no other value and keeps comments, other keys,
\* blank lines and their order (UpdateProjectField, updateLines, handleConfigReloaded), in
\* the layouts of ConfigLayouts: no array there goes over several lines, and no comment
\* has brackets; of such a file the code loses lines (toml_writer.go:49, 215).
EditsKept ==
    /\ scenario \in {"layouts", "file"} => FileEdits!MemoryIsFile
    /\ scenario = "layouts" => FileLayouts!ConfigTypeOK /\ FileLayouts!RestPreserved
    /\ scenario = "file" => FileEdits!ConfigTypeOK /\ FileEdits!OnlyChangesMove

\* A bundle holds every session its manifest names, all of the folder they are packed
\* from, each that was alive only after a warning; of an import every selected session is
\* written, skipped or cancelled, and counted once (Pack, beginExportFlow, Unpack).
BundlesAreHonest ==
    /\ scenario = "pack" => ExportPack!TypeOK /\ ExportPack!HonestBundles
    /\ scenario = "lists" => ExportLists!TypeOK /\ ExportLists!WarnedOfActive
    /\ scenario = "hasty" => /\ ExportHasty!TypeOK /\ ExportHasty!OneFolder
                             /\ ExportHasty!SelectedIsShown
    /\ scenario \in Wizards => ImportTypeOK /\ TalliesAddUp

===============================================================================
