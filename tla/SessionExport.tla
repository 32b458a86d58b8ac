----------------------------- MODULE SessionExport -----------------------------
(***************************************************************************)
(* Browsing session folders and exporting sessions to a bundle: the lists  *)
(* and the export wizard of the History view (model.go), the scans and     *)
(* handlers (sessions.go, sessionsync/scan.go) and Pack, entry by entry    *)
(* (sessionsync/pack.go).  The order of sessions in a list is left out.    *)
(***************************************************************************)
EXTENDS Naturals, FiniteSets

CONSTANTS
    Folders,        \* directories of ~/.claude/projects
    Sessions,
    Works,          \* commands under way and messages not handled yet
    Patient,        \* TRUE: the user waits for answers before the next key
    MaxWizards,     \* bounds of the model: export wizards opened,
    MaxScanFaults,  \*   scans that fail,
    MaxPackFaults,  \*   entries that cannot be read or written,
    MaxAgents       \*   agents started or ended meanwhile

ExportAssumption ==
    /\ Patient \in BOOLEAN
    /\ {MaxWizards, MaxScanFaults, MaxPackFaults, MaxAgents} \subseteq Nat
    /\ {"none", "typed"} \cap Folders = {}

VARIABLES
    inHistory,      \* currentView = ViewHistory
    folders,        \* historyFolders
    drilled,        \* historyDrilledFolder, or "none"
    shown,          \* historySessions
    active,         \* historyActiveIDs
    sel,            \* historySelected
    allPending,     \* historyExportAllPending
    step,           \* historyExportStep; historyExportFlowActive is step # 0
    button,         \* historyButtonFocus: "go" or "cancel"
    outPath,        \* historyExportOutputPath
    field,          \* the path the text field shows
    focused,        \* the text field takes keys
    withMemory,     \* historyExportIncludeMemory
    work,           \* work[w]: a command or message, or Idle
    disk,           \* disk[f]: the sessions of a folder
    live,           \* <<f, s>> with an agent at work
    zips,           \* zips[p]: what was written at a path
    wizards, scanFaults, packFaults, agents,
    allOf,          \* history: the folder of the last [E],
    liveAtScan,     \*   the sessions alive when the list shown was scanned,
    warned          \*   the warning was shown in this wizard

listVars == <<folders, drilled, shown, active, sel, allPending, allOf, liveAtScan>>
wizardVars == <<step, button, outPath, field, focused, withMemory, warned>>
diskVars == <<disk, live, zips>>
boundVars == <<wizards, scanFaults, packFaults, agents>>
vars == <<inHistory, listVars, wizardVars, work, diskVars, boundVars>>

Idle == [op |-> "idle"]
NoPath == <<"none", 0>>
Paths == (Folders \cup {"none", "typed"}) \X (0..MaxWizards)
NoZip == [state |-> "absent", from |-> "none", holds |-> {}, manifest |-> {}]

Zip == [state : {"absent", "open", "unfinished", "complete", "mixed"},
        from : Folders \cup {"none"}, holds : SUBSET Sessions,
        manifest : SUBSET Sessions]
Work ==
    {Idle}
    \cup [op : {"folders"}]
    \cup [op : {"foldersScanned"}, ok : BOOLEAN]
    \cup [op : {"scan"}, folder : Folders]
    \cup [op : {"scanned"}, folder : Folders, ok : BOOLEAN,
          ids : SUBSET Sessions, active : SUBSET Sessions]
    \cup [op : {"pack"}, folder : Folders \cup {"none"}, ids : SUBSET Sessions,
          todo : SUBSET Sessions, memory : BOOLEAN, path : Paths,
          opened : BOOLEAN, shownPath : Paths, live : SUBSET Sessions,
          warned : BOOLEAN]
    \cup [op : {"completed"}, ok : BOOLEAN]

Init ==
    /\ inHistory = FALSE
    /\ folders = {} /\ drilled = "none"
    /\ shown = {} /\ active = {} /\ sel = {}
    /\ allPending = FALSE /\ allOf = "none" /\ liveAtScan = {}
    /\ step = 0 /\ button = "go" /\ outPath = NoPath /\ field = NoPath
    /\ focused = FALSE /\ withMemory = FALSE /\ warned = FALSE
    /\ work = [w \in Works |-> Idle]
    /\ disk \in [Folders -> SUBSET Sessions]
    /\ live \in {L \in SUBSET (Folders \X Sessions) : \A l \in L : l[2] \in disk[l[1]]}
    /\ zips = [p \in Paths |-> NoZip]
    /\ wizards = 0 /\ scanFaults = 0 /\ packFaults = 0 /\ agents = 0

-----------------------------------------------------------------------------
(* The lists *)

Key == inHistory /\ (Patient => \A w \in Works : work[w] = Idle)
Start(item) == \E w \in Works : work[w] = Idle /\ work' = [work EXCEPT ![w] = item]

\* [h]; [q] in a wizard or Esc in the folder list shows the projects again.
ShowHistory ==
    /\ ~inHistory
    /\ inHistory' = TRUE
    /\ drilled' = "none" /\ step' = 0
    /\ Start([op |-> "folders"])
    /\ UNCHANGED <<folders, shown, active, sel, allPending, allOf, liveAtScan, button,
                   outPath, field, focused, withMemory, warned, diskVars, boundVars>>

ShowProjects ==
    /\ Key /\ (step # 0 \/ drilled = "none")
    /\ inHistory' = FALSE
    /\ UNCHANGED <<listVars, wizardVars, work, diskVars, boundVars>>

InFolders == Key /\ step = 0 /\ drilled = "none"
InSessions == Key /\ step = 0 /\ drilled # "none"

OpenFolder(f) ==
    /\ InFolders /\ f \in folders
    /\ Start([op |-> "scan", folder |-> f])
    /\ UNCHANGED <<inHistory, listVars, wizardVars, diskVars, boundVars>>

\* [E] on a folder: every session of it is to be exported.
ExportAll(f) ==
    /\ InFolders /\ f \in folders
    /\ allPending' = TRUE /\ allOf' = f
    /\ Start([op |-> "scan", folder |-> f])
    /\ UNCHANGED <<inHistory, folders, drilled, shown, active, sel, liveAtScan,
                   wizardVars, diskVars, boundVars>>

Back ==
    /\ InSessions
    /\ drilled' = "none" /\ active' = {}
    /\ UNCHANGED <<inHistory, folders, shown, sel, allPending, allOf, liveAtScan,
                   wizardVars, work, diskVars, boundVars>>

Select(s) ==
    /\ InSessions /\ s \in shown
    /\ sel' = IF s \in sel THEN sel \ {s} ELSE sel \cup {s}
    /\ UNCHANGED <<inHistory, folders, drilled, shown, active, allPending, allOf,
                   liveAtScan, wizardVars, work, diskVars, boundVars>>

SelectAll ==
    /\ InSessions
    /\ sel' = IF shown \subseteq sel THEN sel \ shown ELSE sel \cup shown
    /\ UNCHANGED <<inHistory, folders, drilled, shown, active, allPending, allOf,
                   liveAtScan, wizardVars, work, diskVars, boundVars>>

-----------------------------------------------------------------------------
(* The wizard *)

\* A selected session was alive when the list was read.
NeedsWarning(chosen, alive) == chosen \cap alive # {}

\* Bug for comparison: two files further in the row of exports.
ProposedFurther(folder) == <<folder, wizards + 2>>
\* The path proposed: one is kept from wizard to wizard once it is set.
Proposed(folder) == IF outPath = NoPath THEN <<folder, wizards + 1>> ELSE outPath

\* beginExportFlow for the list as it is after the key or message.
BeginExport(folder, ids, chosen, alive) ==
    IF chosen \cap ids = {} \/ wizards = MaxWizards
    THEN UNCHANGED <<wizardVars, wizards>>
    ELSE /\ outPath' = Proposed(folder) /\ field' = outPath'
         /\ focused' = FALSE /\ button' = "go" /\ warned' = FALSE
         /\ step' = IF NeedsWarning(chosen \cap ids, alive) THEN 1 ELSE 2
         /\ wizards' = wizards + 1
         /\ UNCHANGED withMemory

Export ==
    /\ InSessions
    /\ BeginExport(drilled, shown, sel, active)
    /\ UNCHANGED <<inHistory, listVars, work, diskVars, scanFaults, packFaults, agents>>

CycleButton ==
    /\ Key /\ step \in {1, 2} /\ ~focused
    /\ button' = IF button = "go" THEN "cancel" ELSE "go"
    /\ UNCHANGED <<inHistory, listVars, step, outPath, field, focused, withMemory,
                   warned, work, diskVars, boundVars>>

\* Enter on the warning: the export stays possible.
PassWarning ==
    /\ Key /\ step = 1 /\ button = "go"
    /\ step' = 2 /\ warned' = TRUE
    /\ UNCHANGED <<inHistory, listVars, button, outPath, field, focused, withMemory,
                   work, diskVars, boundVars>>

SwitchFocus ==
    /\ Key /\ step = 2
    /\ focused' = ~focused
    /\ UNCHANGED <<inHistory, listVars, step, button, outPath, field, withMemory,
                   warned, work, diskVars, boundVars>>

TypePath ==
    /\ Key /\ step = 2 /\ focused
    /\ field' = <<"typed", 0>>
    /\ UNCHANGED <<inHistory, listVars, step, button, outPath, focused, withMemory,
                   warned, work, diskVars, boundVars>>

ToggleMemory ==
    /\ Key /\ step = 2 /\ ~focused
    /\ withMemory' = ~withMemory
    /\ UNCHANGED <<inHistory, listVars, step, button, outPath, field, focused,
                   warned, work, diskVars, boundVars>>

\* Esc in any step, and Enter on the cancel button, close the wizard; a running
\* export goes on.  Enter in the text field commits what it holds.
CloseWizard ==
    /\ Key /\ step # 0
    /\ step' = 0
    /\ \/ UNCHANGED <<outPath, focused>>
       \/ /\ step = 2 /\ focused /\ button = "cancel"
          /\ outPath' = field /\ focused' = FALSE
    /\ UNCHANGED <<inHistory, listVars, button, field, withMemory, warned, work,
                   diskVars, boundVars>>

\* Enter: runExport.
RunExport ==
    /\ Key /\ step = 2 /\ button = "go"
    /\ outPath' = IF focused THEN field ELSE outPath
    /\ step' = 3 /\ focused' = FALSE
    /\ Start([op |-> "pack", folder |-> drilled, ids |-> sel \cap shown,
              todo |-> sel \cap shown, memory |-> withMemory, path |-> outPath',
              opened |-> FALSE, shownPath |-> field, live |-> liveAtScan,
              warned |-> warned])
    /\ UNCHANGED <<inHistory, listVars, button, field, withMemory, warned, diskVars,
                   boundVars>>

-----------------------------------------------------------------------------
(* Scans and their answers *)

Finish(w, item) == work' = [work EXCEPT ![w] = item]
Done(w) == [work EXCEPT ![w] = Idle]
ScanFails == scanFaults < MaxScanFaults /\ scanFaults' = scanFaults + 1

ScanFolders(w) ==
    /\ work[w].op = "folders"
    /\ \/ Finish(w, [op |-> "foldersScanned", ok |-> TRUE]) /\ UNCHANGED scanFaults
       \/ Finish(w, [op |-> "foldersScanned", ok |-> FALSE]) /\ ScanFails
    /\ UNCHANGED <<inHistory, listVars, wizardVars, diskVars, wizards, packFaults, agents>>

FoldersScanned(w) ==
    /\ work[w].op = "foldersScanned"
    /\ folders' = IF work[w].ok THEN Folders ELSE folders
    /\ work' = Done(w)
    /\ UNCHANGED <<inHistory, drilled, shown, active, sel, allPending, allOf,
                   liveAtScan, wizardVars, diskVars, boundVars>>

LiveIn(f) == {s \in disk[f] : <<f, s>> \in live}

ScanSessions(w) ==
    /\ work[w].op = "scan"
    /\ LET f == work[w].folder
           answer(ok) == [op |-> "scanned", folder |-> f, ok |-> ok,
                          ids |-> disk[f], active |-> LiveIn(f)]
       IN \/ Finish(w, answer(TRUE)) /\ UNCHANGED scanFaults
          \/ Finish(w, answer(FALSE)) /\ ScanFails
    /\ UNCHANGED <<inHistory, listVars, wizardVars, diskVars, wizards, packFaults, agents>>

\* Bug for comparison: the selection of the folder before is kept.
ResetSelectionKept(chosen) == chosen
ResetSelection(chosen) == {}

\* Bug for comparison: only what is not active is selected by [E].
AllOfIdle(ids, alive) == ids \ alive
AllOf(ids, alive) == ids

\* Bug for comparison: the export of all begins with the sessions alive before.
AliveBefore(w) == active
AliveNow(w) == IF work[w].ok THEN work[w].active ELSE active

\* Bug for comparison: a folder opened meanwhile stays open over the new list.
FolderKept(w) == IF drilled = "none" THEN work[w].folder ELSE drilled
FolderNow(w) == IF work[w].ok THEN work[w].folder ELSE drilled

\* handleHistorySessionsScanned, and after it the pending export of all: it
\* does not look whether the scan failed, nor of which folder it was.
SessionsScanned(w) ==
    /\ work[w].op = "scanned"
    /\ LET ok == work[w].ok
           ids == IF ok THEN work[w].ids ELSE shown
           alive == AliveNow(w)
           folder == FolderNow(w)
           kept == IF ok THEN ResetSelection(sel) ELSE sel
       IN /\ shown' = ids /\ active' = alive /\ drilled' = folder
          /\ liveAtScan' = IF ok THEN work[w].active ELSE liveAtScan
          /\ IF allPending
             THEN /\ sel' = kept \cup AllOf(ids, alive)
                  /\ BeginExport(folder, ids, sel', alive)
             ELSE /\ sel' = kept
                  /\ UNCHANGED <<wizardVars, wizards>>
    /\ allPending' = FALSE
    /\ work' = Done(w)
    /\ UNCHANGED <<inHistory, folders, allOf, diskVars, scanFaults, packFaults, agents>>

-----------------------------------------------------------------------------
(* Pack *)

Packing(w) == work[w].op = "pack"
PackFails(w) ==
    /\ packFaults < MaxPackFaults
    /\ packFaults' = packFaults + 1
    /\ Finish(w, [op |-> "completed", ok |-> FALSE])

\* os.Create truncates whatever was there, a bundle being written included.
CreateZip(w) ==
    /\ Packing(w) /\ ~work[w].opened
    /\ \/ /\ zips' = [zips EXCEPT ![work[w].path] =
                 [NoZip EXCEPT !.state = IF @ = "open" THEN "mixed" ELSE "open",
                               !.from = work[w].folder]]
          /\ Finish(w, [work[w] EXCEPT !.opened = TRUE])
          /\ UNCHANGED packFaults
       \/ PackFails(w) /\ UNCHANGED zips
    /\ UNCHANGED <<inHistory, listVars, wizardVars, disk, live, wizards, scanFaults, agents>>

\* On an error the zip is closed as it is.
CloseBroken(w) ==
    zips' = [zips EXCEPT ![work[w].path].state = IF @ = "open" THEN "unfinished" ELSE @]

PackSession(w, s) ==
    /\ Packing(w) /\ work[w].opened /\ s \in work[w].todo
    /\ IF work[w].folder # "none" /\ s \in disk[work[w].folder]
       THEN \/ /\ zips' = [zips EXCEPT ![work[w].path].holds = @ \cup {s}]
               /\ Finish(w, [work[w] EXCEPT !.todo = @ \ {s}])
               /\ UNCHANGED packFaults
            \/ PackFails(w) /\ CloseBroken(w)
       ELSE /\ CloseBroken(w)
            /\ Finish(w, [op |-> "completed", ok |-> FALSE])
            /\ UNCHANGED packFaults
    /\ UNCHANGED <<inHistory, listVars, wizardVars, disk, live, wizards, scanFaults, agents>>

\* Bug for comparison: the manifest may go in before the sessions.
ReadyEarly(job) == job.opened
ReadyForManifest(job) == job.opened /\ job.todo = {}

\* The manifest goes in last; the memory directory before it may be missing.
FinishPack(w) ==
    /\ Packing(w) /\ ReadyForManifest(work[w])
    /\ \/ /\ zips' = [zips EXCEPT ![work[w].path] =
                 [@ EXCEPT !.manifest = work[w].ids,
                           !.state = IF @ = "open" THEN "complete" ELSE @]]
          /\ Finish(w, [op |-> "completed", ok |-> TRUE])
          /\ UNCHANGED packFaults
       \/ PackFails(w) /\ CloseBroken(w)
       \/ /\ work[w].memory
          /\ CloseBroken(w)
          /\ Finish(w, [op |-> "completed", ok |-> FALSE])
          /\ UNCHANGED packFaults
    /\ UNCHANGED <<inHistory, listVars, wizardVars, disk, live, wizards, scanFaults, agents>>

\* The answer is reported; the wizard stays in its step.
ExportCompleted(w) ==
    /\ work[w].op = "completed"
    /\ work' = Done(w)
    /\ UNCHANGED <<inHistory, listVars, wizardVars, diskVars, boundVars>>

\* Agents open and close sessions meanwhile.
AgentStarts(f, s) ==
    /\ agents < MaxAgents /\ agents' = agents + 1
    /\ disk' = [disk EXCEPT ![f] = @ \cup {s}]
    /\ live' = live \cup {<<f, s>>}
    /\ UNCHANGED <<inHistory, listVars, wizardVars, work, zips, wizards, scanFaults, packFaults>>

AgentEnds(f, s) ==
    /\ agents < MaxAgents /\ agents' = agents + 1
    /\ <<f, s>> \in live
    /\ live' = live \ {<<f, s>>}
    /\ UNCHANGED <<inHistory, listVars, wizardVars, work, disk, zips, wizards, scanFaults, packFaults>>

-----------------------------------------------------------------------------
Keys ==
    \/ ShowHistory \/ ShowProjects \/ Back \/ SelectAll \/ Export
    \/ CycleButton \/ PassWarning \/ SwitchFocus \/ TypePath \/ ToggleMemory
    \/ CloseWizard \/ RunExport
    \/ \E f \in Folders : OpenFolder(f) \/ ExportAll(f)
    \/ \E s \in Sessions : Select(s)

Run(w) ==
    \/ ScanFolders(w) \/ FoldersScanned(w) \/ ScanSessions(w) \/ SessionsScanned(w)
    \/ CreateZip(w) \/ FinishPack(w) \/ ExportCompleted(w)
    \/ \E s \in Sessions : PackSession(w, s)

Next ==
    \/ Keys
    \/ \E w \in Works : Run(w)
    \/ \E f \in Folders, s \in Sessions : AgentStarts(f, s) \/ AgentEnds(f, s)

Spec == Init /\ [][Next]_vars

-----------------------------------------------------------------------------
(* Properties *)

TypeOK ==
    /\ {inHistory, allPending, focused, withMemory, warned} \subseteq BOOLEAN
    /\ folders \subseteq Folders
    /\ {drilled, allOf} \subseteq Folders \cup {"none"}
    /\ {shown, active, sel, liveAtScan} \subseteq SUBSET Sessions
    /\ step \in 0..3
    /\ button \in {"go", "cancel"}
    /\ {outPath, field} \subseteq Paths
    /\ work \in [Works -> Work]
    /\ disk \in [Folders -> SUBSET Sessions]
    /\ zips \in [Paths -> Zip]

\* Pack writes the manifest last: a bundle with a manifest holds every session
\* the manifest names, whatever failed before (LoadManifest refuses the others).
HonestBundles == \A p \in Paths : zips[p].manifest \subseteq zips[p].holds

\* beginExportFlow: every session exported that was alive when its list was
\* read has been warned of (README: "Zpit warns if any selected session is
\* currently active").
WarnedOfActive ==
    \A w \in Works :
        Packing(w) => (work[w].ids \cap work[w].live = {} \/ work[w].warned)

\* Sessions and folder of an export come from one scan (handleHistorySessionsScanned,
\* runExport): none is looked for in the folder of another list.
OneFolder ==
    \A w \in Works :
        Packing(w) => work[w].folder # "none" /\ work[w].ids \subseteq disk[work[w].folder]

\* handleHistorySessionsScanned: "Reset selection on new drill-in so stale IDs
\* from the previous folder are cleared".
SelectedIsShown == sel \subseteq shown

\* [E]: "drill in, scan, then auto-select all" on the focused folder.
AllTaken == (allPending /\ ~allPending') => (drilled' = allOf /\ sel' = shown')
AllOfFolder == [][AllTaken]_vars

\* README: the default output path carries the name of the folder exported.
DefaultNamesFolder ==
    (step = 2 /\ outPath[1] # "typed") => outPath[1] = drilled

\* beginExportFlow: the path in the text field is the one the user edits "before
\* pressing Enter".
ShownPathUsed == \A w \in Works : Packing(w) => work[w].path = work[w].shownPath

\* The step "3=running" of the wizard is there while an export runs; keys of the
\* list do nothing in it (handleExportModalKey, handleExportCompleted).
RunningIsRunning ==
    step = 3 => \E w \in Works : Packing(w) \/ work[w].op = "completed"

===============================================================================
