----------------------------- MODULE SessionImport -----------------------------
(***************************************************************************)
(* Importing session bundles: the wizard of the History view (model.go),   *)
(* its commands and message handlers (sessions.go) and Unpack              *)
(* (internal/sessionsync).  The wizard asks in a first pass which files of *)
(* the destination exist and lets the user decide about each; a second     *)
(* pass writes.  Keys, answers of commands and the writing interleave.     *)
(* A session file stands for its log, rewritten for the destination, and   *)
(* the files of its subagents.                                             *)
(***************************************************************************)
EXTENDS Naturals, Sequences, FiniteSets, Functions

CONSTANTS
    Dests,          \* destination directories
    Bundles,
    SessionIDs,
    Manifest,       \* Manifest[b]: the sessions in order, and memory or not
    Works,          \* commands under way and messages not handled yet
    MaxWizards,     \* bounds of the model: imports begun,
    MaxFaults,      \*   failing commands,
    MaxAppear       \*   sessions an agent opens in a destination meanwhile

ASSUME ImportAssumption ==
    /\ Manifest \in [Bundles -> [sessions : Seq(SessionIDs), memory : BOOLEAN]]
    /\ \A b \in Bundles : IsInjective(Manifest[b].sessions)
    /\ {MaxWizards, MaxFaults, MaxAppear} \subseteq Nat
    /\ {"none", "absent", "local", "torn"} \cap Bundles = {}

VARIABLES
    inHistory,      \* currentView = ViewHistory
    flow, step,     \* historyImportFlowActive, historyImportStep
    focused,        \* the path field takes keys
    path,           \* what the path field holds
    bundle,         \* historyImportManifest with its path, or "none"
    sel,            \* historyImportSelection
    dest,           \* historyImportDestPath, or "none"
    queue,          \* historyCollisionQueue: of a bundle, the places in its manifest
    memAsk,         \* historyCollisionMemory
    decisions,      \* historyCollisionDecisions
    memDecision,    \* historyMemoryDecision
    work,           \* work[w]: a command or message, or Idle
    files,          \* files[d][s]: what the session file holds
    memories,       \* memories[d]: who wrote into the memory directory
    mishaps,        \* what may happen: keys before the answers ("hasty"), failures
                    \*   ("fault"), an agent that opens sessions meanwhile ("agent")
    wizards, faults, appeared,
    agreed,         \* history: replacements <<d, b, s>> the user agreed to,
    unasked         \*   and files replaced without a decision

wizardVars == <<flow, step, focused, path, bundle, sel, dest>>
askVars == <<queue, memAsk, decisions, memDecision, agreed>>
diskVars == <<files, memories, unasked>>
boundVars == <<mishaps, wizards, faults, appeared>>
importVars == <<inHistory, wizardVars, askVars, work, diskVars, boundVars>>

Decision == {"overwrite", "skip", "cancel"}
NoDecisions == [s \in SessionIDs |-> "none"]
Idle == [op |-> "idle"]
Order(b) == Manifest[b].sessions
Places == [of : Bundles \cup {"none"}, at : SUBSET Nat]
Nowhere == [of |-> "none", at |-> {}]

Job ==
    [op : {"unpack"}, bundle : Bundles, dest : Dests, sel : SUBSET SessionIDs,
     decisions : [SessionIDs -> Decision \cup {"none"}], memDecision : Decision,
     pos : Nat, written : Nat, skipped : Nat, cancelled : BOOLEAN]
Item ==
    {Idle} \cup Job
    \cup [op : {"load"}, bundle : Bundles]
    \cup [op : {"loaded"}, bundle : Bundles, ok : BOOLEAN]
    \cup [op : {"detect"}, dest : Dests, ids : Places, memory : BOOLEAN]
    \cup [op : {"collisions"}, ids : Places, memory : BOOLEAN]
    \cup [op : {"completed"}, ok : BOOLEAN, written : Nat, skipped : Nat,
          cancelled : Nat, memory : {"written", "skipped", "not-included"}]

ImportInit ==
    /\ inHistory = TRUE
    /\ flow = FALSE /\ step = 0 /\ focused = FALSE
    /\ path = "none" /\ bundle = "none" /\ dest = "none"
    /\ sel = {}
    /\ queue = Nowhere /\ memAsk = FALSE
    /\ decisions = NoDecisions /\ memDecision = "overwrite"
    /\ work = [w \in Works |-> Idle]
    /\ files \in [Dests -> [SessionIDs -> {"absent", "local"}]]
    /\ memories \in [Dests -> {{}, {"local"}}]
    /\ mishaps \in SUBSET {"hasty", "fault", "agent"}
    /\ wizards = 0 /\ faults = 0 /\ appeared = 0
    /\ agreed = {} /\ unasked = {}

-----------------------------------------------------------------------------
(* The wizard *)

\* A key reaches the History view.
Key == inHistory /\ ("hasty" \notin mishaps => \A w \in Works : work[w] = Idle)

Asking == queue.at # {} \/ memAsk
InWizard == ~Asking /\ (flow \/ step # 0)

\* A command is started beside those under way.
StartCmd(item) ==
    \E w \in Works : work[w] = Idle /\ work' = [work EXCEPT ![w] = item]

BeginImport ==
    /\ Key /\ ~Asking /\ ~flow /\ step = 0
    /\ wizards < MaxWizards
    /\ wizards' = wizards + 1
    /\ flow' = TRUE /\ focused' = TRUE /\ path' = "none"
    /\ agreed' = {}
    /\ UNCHANGED <<inHistory, step, bundle, sel, dest, queue, memAsk, decisions,
                   memDecision, work, diskVars, mishaps, faults, appeared>>

\* Typing a path and Enter; the field is then blurred and keeps its text.
EnterPath(b) ==
    /\ Key /\ InWizard /\ step = 0
    /\ focused \/ path = b
    /\ path' = b /\ focused' = FALSE
    /\ StartCmd([op |-> "load", bundle |-> b])
    /\ UNCHANGED <<inHistory, flow, step, bundle, sel, dest, askVars, diskVars, boundVars>>

Toggle(s) ==
    /\ Key /\ InWizard /\ step = 1 /\ bundle # "none"
    /\ s \in Range(Order(bundle))
    /\ sel' = IF s \in sel THEN sel \ {s} ELSE sel \cup {s}
    /\ UNCHANGED <<inHistory, flow, step, focused, path, bundle, dest, askVars,
                   work, diskVars, boundVars>>

ToggleAll ==
    /\ Key /\ InWizard /\ step = 1 /\ bundle # "none"
    /\ LET ids == Range(Order(bundle))
       IN sel' = IF ids \subseteq sel THEN sel \ ids ELSE sel \cup ids
    /\ UNCHANGED <<inHistory, flow, step, focused, path, bundle, dest, askVars,
                   work, diskVars, boundVars>>

EnterSelection ==
    /\ Key /\ InWizard /\ step = 1
    /\ step' = 2
    /\ UNCHANGED <<inHistory, flow, focused, path, bundle, sel, dest, askVars,
                   work, diskVars, boundVars>>

EnterDest(d) ==
    /\ Key /\ InWizard /\ step = 2
    /\ dest' = d /\ step' = 3
    /\ UNCHANGED <<inHistory, flow, focused, path, bundle, sel, askVars, work,
                   diskVars, boundVars>>

\* The sessions of the bundle that are selected, in its order: their places.
Selected(b, chosen) == [of |-> b, at |-> {n \in DOMAIN Order(b) : Order(b)[n] \in chosen}]

\* Enter on the final preview: the first pass.
Confirm ==
    /\ Key /\ InWizard /\ step = 3
    /\ step' = 4
    /\ StartCmd([op |-> "detect", dest |-> dest,
              ids |-> IF bundle = "none" THEN Nowhere ELSE Selected(bundle, sel),
              memory |-> bundle # "none" /\ Manifest[bundle].memory])
    /\ UNCHANGED <<inHistory, flow, focused, path, bundle, sel, dest, askVars,
                   diskVars, boundVars>>

\* Esc, the Cancel button and the end of the summary reset the wizard.  What
\* is under way goes on.
ResetWizard ==
    /\ flow' = FALSE /\ step' = 0 /\ focused' = FALSE
    /\ bundle' = "none" /\ sel' = {}
    /\ decisions' = NoDecisions
    /\ UNCHANGED <<path, dest>>

Leave ==
    /\ Key /\ InWizard
    /\ ResetWizard
    /\ UNCHANGED <<inHistory, queue, memAsk, memDecision, agreed, work, diskVars, boundVars>>

\* [q] in a wizard, or Esc without one, shows the projects again and keeps the
\* wizard; [h] comes back to a fresh one.  Neither touches the collision prompts.
ShowProjects ==
    /\ Key
    /\ inHistory' = FALSE
    /\ UNCHANGED <<wizardVars, askVars, work, diskVars, boundVars>>

ShowHistory ==
    /\ ~inHistory
    /\ inHistory' = TRUE
    /\ flow' = FALSE /\ step' = 0
    /\ UNCHANGED <<focused, path, bundle, sel, dest, askVars, work, diskVars, boundVars>>

-----------------------------------------------------------------------------
(* The collision prompts and the second pass *)

\* runImportPass2 with the decisions as they are after the key or message;
\* nextQueue and nextMemAsk are what it finds of the prompts.
RunPass2(decided, memDecided, nextQueue, nextMemAsk, started) ==
    IF bundle = "none"
    THEN /\ queue' = nextQueue /\ memAsk' = nextMemAsk
         /\ UNCHANGED step
         /\ work' = started
    ELSE /\ step' = 4
         /\ queue' = Nowhere /\ memAsk' = FALSE
         /\ \E w \in Works :
                /\ started[w] = Idle
                /\ work' = [started EXCEPT ![w] =
                       [op |-> "unpack", bundle |-> bundle, dest |-> dest,
                        sel |-> sel \cap Range(Order(bundle)),
                        decisions |-> decided, memDecision |-> memDecided,
                        pos |-> 1, written |-> 0, skipped |-> 0,
                        cancelled |-> FALSE]]

\* After an answer the writing begins if it was the last prompt.
Answered(rest) == rest.at = {} /\ ~memAsk

Decided(s, d) == [decisions EXCEPT ![s] = d]

\* The user answers the prompt for the first session of the queue.
AnswerSession(d) ==
    /\ Key /\ queue.at # {}
    /\ \E n \in queue.at :
          LET s == Order(queue.of)[n]
              decided == Decided(s, d)
              rest == [queue EXCEPT !.at = @ \ {n}]
          IN /\ \A m \in queue.at : n <= m
             /\ decisions' = decided
             /\ agreed' = IF bundle = "none" THEN agreed
                          ELSE IF d = "overwrite" THEN agreed \cup {<<dest, bundle, s>>}
                          ELSE agreed \ {<<dest, bundle, s>>}
             /\ IF d = "cancel"
                THEN RunPass2(decided, memDecision, queue, memAsk, work)
                ELSE IF Answered(rest)
                THEN RunPass2(decided, memDecision, rest, memAsk, work)
                ELSE queue' = rest /\ UNCHANGED <<memAsk, step, work>>
    /\ UNCHANGED <<inHistory, flow, focused, path, bundle, sel, dest, memDecision,
                   diskVars, boundVars>>

AnswerMemory(d) ==
    /\ Key /\ queue.at = {} /\ memAsk
    /\ memDecision' = d
    /\ RunPass2(decisions, d, queue, FALSE, work)
    /\ UNCHANGED <<inHistory, flow, focused, path, bundle, sel, dest, decisions,
                   agreed, diskVars, boundVars>>

-----------------------------------------------------------------------------
(* Commands and their answers *)

Finish(w, item) == work' = [work EXCEPT ![w] = item]
Done(w) == [work EXCEPT ![w] = Idle]

LoadManifest(w) ==
    /\ work[w].op = "load"
    /\ \E ok \in BOOLEAN :
           /\ ok \/ ("fault" \in mishaps /\ faults < MaxFaults)
           /\ faults' = IF ok THEN faults ELSE faults + 1
           /\ Finish(w, [op |-> "loaded", bundle |-> work[w].bundle, ok |-> ok])
    /\ UNCHANGED <<inHistory, wizardVars, askVars, diskVars, mishaps, wizards, appeared>>

\* handleManifestLoaded: whatever the wizard shows by now.
ManifestLoaded(w) ==
    /\ work[w].op = "loaded"
    /\ work' = Done(w)
    /\ IF work[w].ok
       THEN /\ bundle' = work[w].bundle
            /\ sel' = sel \cup Range(Order(work[w].bundle))
            /\ step' = 1
       ELSE step' = 0 /\ UNCHANGED <<bundle, sel>>
    /\ UNCHANGED <<inHistory, flow, focused, path, dest, askVars, diskVars, boundVars>>

\* Bug for comparison: the first session is not looked up.
CollidingButFirst(d, ids) ==
    [ids EXCEPT !.at = {n \in ids.at : /\ files[d][Order(ids.of)[n]] # "absent"
                                       /\ \E m \in ids.at : m < n}]
Colliding(d, ids) ==
    [ids EXCEPT !.at = {n \in ids.at : files[d][Order(ids.of)[n]] # "absent"}]

DetectCollisions(w) ==
    /\ work[w].op = "detect"
    /\ LET d == work[w].dest
       IN Finish(w, [op |-> "collisions", ids |-> Colliding(d, work[w].ids),
                     memory |-> work[w].memory /\ memories[d] # {}])
    /\ UNCHANGED <<inHistory, wizardVars, askVars, diskVars, boundVars>>

HandleCollisions(w) ==
    /\ work[w].op = "collisions"
    /\ IF work[w].ids.at = {} /\ ~work[w].memory
       THEN RunPass2(decisions, memDecision, work[w].ids, FALSE, Done(w))
       ELSE /\ queue' = work[w].ids /\ memAsk' = work[w].memory
            /\ work' = Done(w)
            /\ UNCHANGED step
    /\ UNCHANGED <<inHistory, flow, focused, path, bundle, sel, dest, decisions,
                   memDecision, agreed, diskVars, boundVars>>

\* Bug for comparison: the failure is reported, the wizard left as it is.
AfterImportStuck(ok) == IF ok THEN 5 ELSE step
AfterImport(ok) == IF ok THEN 5 ELSE 0

HandleCompleted(w) ==
    /\ work[w].op = "completed"
    /\ work' = Done(w)
    /\ step' = AfterImport(work[w].ok)
    /\ UNCHANGED <<inHistory, flow, focused, path, bundle, sel, dest, askVars,
                   diskVars, boundVars>>

-----------------------------------------------------------------------------
(* Unpack *)

Failed == [op |-> "completed", ok |-> FALSE, written |-> 0, skipped |-> 0,
           cancelled |-> 0, memory |-> "not-included"]

Unpacking(w) == work[w].op = "unpack"
AtSession(w) ==
    Unpacking(w) /\ ~work[w].cancelled /\ work[w].pos <= Len(Order(work[w].bundle))
Current(w) == Order(work[w].bundle)[work[w].pos]

\* What the resolver of importBundleCmd answers: a session without a decision
\* is overwritten.
Resolve(job, s) ==
    IF job.decisions[s] = "none" THEN "overwrite" ELSE job.decisions[s]

\* Why a session is written: it is not there, or the resolver says so.
Writes(w, s) ==
    \/ files[work[w].dest][s] = "absent"
    \/ Resolve(work[w], s) = "overwrite"

\* The write of one session; a file replaced without a decision is noted.
Put(w, s, content) ==
    LET d == work[w].dest
    IN /\ files' = [files EXCEPT ![d][s] = content]
       /\ unasked' = IF files[d][s] # "absent" /\ work[w].decisions[s] = "none"
                     THEN unasked \cup {<<d, s>>} ELSE unasked
       /\ UNCHANGED memories

PassOver(w) ==
    /\ AtSession(w) /\ Current(w) \notin work[w].sel
    /\ Finish(w, [work[w] EXCEPT !.pos = @ + 1])
    /\ UNCHANGED <<inHistory, wizardVars, askVars, diskVars, boundVars>>

WriteSession(w) ==
    /\ AtSession(w) /\ Current(w) \in work[w].sel
    /\ Writes(w, Current(w))
    /\ Put(w, Current(w), work[w].bundle)
    /\ Finish(w, [work[w] EXCEPT !.pos = @ + 1, !.written = @ + 1])
    /\ UNCHANGED <<inHistory, wizardVars, askVars, boundVars>>

SkipSession(w) ==
    /\ AtSession(w) /\ Current(w) \in work[w].sel
    /\ files[work[w].dest][Current(w)] # "absent"
    /\ Resolve(work[w], Current(w)) = "skip"
    /\ Finish(w, [work[w] EXCEPT !.pos = @ + 1, !.skipped = @ + 1])
    /\ UNCHANGED <<inHistory, wizardVars, askVars, diskVars, boundVars>>

CancelRest(w) ==
    /\ AtSession(w) /\ Current(w) \in work[w].sel
    /\ files[work[w].dest][Current(w)] # "absent"
    /\ Resolve(work[w], Current(w)) = "cancel"
    /\ Finish(w, [work[w] EXCEPT !.cancelled = TRUE])
    /\ UNCHANGED <<inHistory, wizardVars, askVars, diskVars, boundVars>>

\* A write fails: before the file was opened, or with the file torn.
UnpackFails(w) ==
    /\ Unpacking(w) /\ "fault" \in mishaps /\ faults < MaxFaults
    /\ faults' = faults + 1
    /\ Finish(w, Failed)
    /\ \/ UNCHANGED diskVars
       \/ AtSession(w) /\ Current(w) \in work[w].sel /\ Writes(w, Current(w))
          /\ Put(w, Current(w), "torn")
    /\ UNCHANGED <<inHistory, wizardVars, askVars, mishaps, wizards, appeared>>

\* Bug for comparison: sessions not selected count as cancelled.
CancelledOfAll(job) == Len(Order(job.bundle)) - job.written - job.skipped
\* Bug for comparison: the difference the wrong way round.
CancelledNegated(job) == job.written + job.skipped - Cardinality(job.sel)
CancelledCount(job) == Cardinality(job.sel) - job.written - job.skipped

\* After the sessions, also after cancelled ones, the memory directory.
FinishUnpack(w) ==
    LET job == work[w]
        asked == Manifest[job.bundle].memory /\ memories[job.dest] # {}
        kept == asked /\ job.memDecision # "overwrite"
    IN /\ Unpacking(w) /\ ~AtSession(w)
       /\ memories' = IF ~Manifest[job.bundle].memory \/ kept THEN memories
                      ELSE [memories EXCEPT ![job.dest] = {job.bundle}]
       /\ Finish(w, [op |-> "completed", ok |-> TRUE,
                     written |-> job.written, skipped |-> job.skipped,
                     cancelled |-> IF job.cancelled THEN CancelledCount(job) ELSE 0,
                     memory |-> IF ~Manifest[job.bundle].memory THEN "not-included"
                                ELSE IF kept THEN "skipped" ELSE "written"])
       /\ UNCHANGED <<inHistory, wizardVars, askVars, files, unasked, boundVars>>

\* An agent opens a session in the destination while the wizard is up.
AgentAppears(d, s) ==
    /\ "agent" \in mishaps /\ appeared < MaxAppear
    /\ appeared' = appeared + 1
    /\ files[d][s] = "absent"
    /\ files' = [files EXCEPT ![d][s] = "local"]
    /\ UNCHANGED <<inHistory, wizardVars, askVars, work, memories, unasked, mishaps, wizards, faults>>

-----------------------------------------------------------------------------
Keys ==
    \/ BeginImport \/ ToggleAll \/ EnterSelection \/ Confirm \/ Leave
    \/ ShowProjects \/ ShowHistory
    \/ \E b \in Bundles : EnterPath(b)
    \/ \E s \in SessionIDs : Toggle(s)
    \/ \E d \in Dests : EnterDest(d)
    \/ \E d \in Decision : AnswerSession(d) \/ AnswerMemory(d)

Handle(w) == ManifestLoaded(w) \/ HandleCollisions(w) \/ HandleCompleted(w)
Run(w) ==
    \/ LoadManifest(w) \/ DetectCollisions(w)
    \/ PassOver(w) \/ WriteSession(w) \/ SkipSession(w) \/ CancelRest(w)
    \/ UnpackFails(w) \/ FinishUnpack(w)

ImportNext ==
    \/ Keys
    \/ \E w \in Works : Handle(w) \/ Run(w)
    \/ \E d \in Dests, s \in SessionIDs : AgentAppears(d, s)

ImportSpec == ImportInit /\ [][ImportNext]_importVars

\* Commands end and their messages are handled; nobody has to press a key.
FairImport == ImportSpec /\ \A w \in Works : WF_importVars(Handle(w)) /\ WF_importVars(Run(w))

-----------------------------------------------------------------------------
(* Properties *)

ImportTypeOK ==
    /\ {inHistory, flow, focused, memAsk} \subseteq BOOLEAN
    /\ step \in 0..5
    /\ {path, bundle} \subseteq Bundles \cup {"none"}
    /\ dest \in Dests \cup {"none"}
    /\ sel \subseteq SessionIDs
    /\ queue \in Places
    /\ decisions \in [SessionIDs -> Decision \cup {"none"}]
    /\ memDecision \in Decision
    /\ work \in [Works -> Item]
    /\ files \in [Dests -> [SessionIDs -> Bundles \cup {"absent", "local", "torn"}]]
    /\ memories \in [Dests -> SUBSET (Bundles \cup {"local"})]
    /\ mishaps \subseteq {"hasty", "fault", "agent"}
    /\ {wizards, faults, appeared} \subseteq Nat
    /\ agreed \subseteq Dests \X Bundles \X SessionIDs
    /\ unasked \subseteq Dests \X SessionIDs

\* What is promised to the owner of the files.
Promise == INSTANCE ImportContract WITH store <- files, Sessions <- SessionIDs

\* The user waits for the answers, and no agent opens a session meanwhile.
Careful == mishaps \cap {"hasty", "agent"} = {}

\* No session file is replaced that the user did not agree to lose to this bundle:
\* the import implements its contract (DetectCollisions, the prompts and Unpack).
ContractKept == Promise!Init /\ [][Careful => Promise!Next]_<<files, agreed>>

\* The summary (Unpack, UnpackResult): every selected session was written,
\* skipped or cancelled, and none of them twice.
TalliesAddUp ==
    \A w \in Works :
        Unpacking(w) =>
            /\ work[w].written + work[w].skipped =
                   Cardinality({n \in 1..(work[w].pos - 1) :
                                    Order(work[w].bundle)[n] \in work[w].sel})
            /\ CancelledCount(work[w]) =
                   Cardinality({n \in work[w].pos..Len(Order(work[w].bundle)) :
                                    Order(work[w].bundle)[n] \in work[w].sel})

\* Every import that is running comes to its prompts or its end by itself: step
\* 4 shows no key that would help (handleSessionCollisionsT10, runImportPass2,
\* handleImportCompleted).
RunningEnds == step = 4 ~> (step # 4 \/ Asking)

\* importBundleCmd: the default of the resolver "should never happen".
DefaultNeverUsed == unasked = {}

\* Unpack: "After CancelAll, writes nothing further".
CancelWritesNothingFurther ==
    \A w \in Works :
        (work[w].op = "completed" /\ work[w].cancelled > 0) => work[w].memory # "written"

===============================================================================
