----------------------------- MODULE ConfigFile -----------------------------
(***************************************************************************)
(* The config in memory and in config.toml (internal/tui/editconfig.go,    *)
(* with Toggle and listen edits of appstate.go): each change is made in    *)
(* memory and written to the file by a goroutine of its own, which reads   *)
(* the file, changes one line and writes all of it; a reload takes the     *)
(* whole file over.                                                        *)
(***************************************************************************)
EXTENDS TomlLines

CONSTANTS
    Files,          \* what the file may hold at the start
    EditedFiles,    \* what the user may save from an editor
    Jobs,           \* 1..n: the changes, in the order of the keys
    Edits,          \* bound: saves from an editor
    Reloads,        \* bound
    Overlap         \* may one write, reload or edit begin while another runs?

ConfigAssumption ==
    /\ \A lines \in Files \cup EditedFiles : Readable(lines)
    /\ {Edits, Reloads} \subseteq Nat /\ Overlap \in BOOLEAN

VARIABLES
    file,       \* the lines of config.toml
    memory,     \* state.cfg and state.projects
    jobs,       \* jobs[j]: project, field, value, the lines made, and where it is
    reload,     \* the config read and not yet applied, if any, as a sequence
    used,       \* reloads and edits so far
    synced,     \* history: was no edit made that memory has not taken over?
    saved,      \* history: the file as the user or a completed write left it
    base        \* history: the file as the user left it

vars == <<file, memory, jobs, reload, used, synced, saved, base>>

NoJob == [at |-> "free", project |-> "", field |-> "", value |-> "", lines |-> <<>>]
Running == {j \in Jobs : jobs[j].at \in {"queued", "read", "truncated"}}
Quiet == Running = {} /\ reload = <<>>
MayBegin == Overlap \/ Quiet

Init ==
    /\ file \in Files /\ memory = Load(file)
    /\ jobs = [j \in Jobs |-> NoJob]
    /\ reload = <<>> /\ used = [reloads |-> 0, edits |-> 0]
    /\ synced = TRUE /\ saved = {file} /\ base = file

-----------------------------------------------------------------------------
(* Changes by key, and their goroutines *)

\* ToggleChannel or UpdateChannelListen: memory at once, then a command for the file.
Change(p, f) ==
    /\ MayBegin
    /\ p \in DOMAIN memory
    /\ LET v == IF memory[p][f] = Default[f] THEN Other[f] ELSE Default[f]
           j == First({k \in Jobs : jobs[k].at = "free"}, 0)
       IN /\ j # 0
          /\ memory' = [memory EXCEPT ![p][f] = v]
          /\ jobs' = [jobs EXCEPT ![j] = [NoJob EXCEPT !.at = "queued", !.project = p, !.field = f, !.value = v]]
    /\ UNCHANGED <<file, reload, used, synced, saved, base>>

\* UpdateProjectField reads the file and changes the lines; without the project it
\* fails, and the failure is logged only.
ReadAndUpdate(j) ==
    /\ jobs[j].at = "queued"
    /\ LET w == jobs[j]
       IN jobs' = [jobs EXCEPT ![j] =
             IF FindProjectBlock(file, w.project) = 0 THEN [w EXCEPT !.at = "failed"]
             ELSE [w EXCEPT !.at = "read", !.lines = UpdateLines(file, w.project, w.field, w.value)]]
    /\ UNCHANGED <<file, memory, reload, used, synced, saved, base>>

\* os.WriteFile empties the file ...
Truncate(j) ==
    /\ jobs[j].at = "read"
    /\ file' = <<>>
    /\ jobs' = [jobs EXCEPT ![j].at = "truncated"]
    /\ UNCHANGED <<memory, reload, used, synced, saved, base>>
\* Bug for comparison: nothing is written of lines that are too many.
WriteNothing(j) ==
    /\ jobs[j].at = "truncated"
    /\ jobs' = [jobs EXCEPT ![j].at = "done"]
    /\ UNCHANGED <<file, memory, reload, used, synced, saved, base>>
\* ... and writes the lines from its start; of a longer file that somebody put there in
\* between the rest stays behind them.
WriteLines(j) ==
    /\ jobs[j].at = "truncated"
    /\ file' \in {jobs[j].lines} \cup
                 IF file \in {<<>>, jobs[j].lines} THEN {} ELSE {Append(jobs[j].lines, Plain("close"))}
    /\ saved' = saved \cup {file'}
    /\ jobs' = [jobs EXCEPT ![j].at = "done"]
    /\ UNCHANGED <<memory, reload, used, synced, base>>

-----------------------------------------------------------------------------
(* The editor and the reload *)

EditFile(lines) ==
    /\ MayBegin /\ used.edits < Edits
    /\ used' = [used EXCEPT !.edits = @ + 1]
    /\ file' = lines /\ synced' = FALSE
    /\ saved' = saved \cup {lines} /\ base' = lines
    /\ jobs' = [j \in Jobs |-> IF jobs[j].at = "done" THEN [jobs[j] EXCEPT !.at = "past"] ELSE jobs[j]]
    /\ UNCHANGED <<memory, reload>>

\* reloadConfigCmd: a file that cannot be read ends the reload with a message, and so
\* does one without a difference.
Reload ==
    /\ MayBegin /\ reload = <<>> /\ used.reloads < Reloads
    /\ used' = [used EXCEPT !.reloads = @ + 1]
    /\ reload' = IF Readable(file) /\ Load(file) # memory THEN <<Load(file)>> ELSE <<>>
    /\ synced' = (synced \/ (Readable(file) /\ Load(file) = memory))
    /\ UNCHANGED <<file, memory, jobs, saved, base>>
\* Bug for comparison: a project that has become known keeps what memory has of it.
ApplyKnown ==
    /\ reload # <<>>
    /\ memory' = [p \in DOMAIN reload[1] |-> IF p \in DOMAIN memory THEN memory[p] ELSE reload[1][p]]
    /\ reload' = <<>> /\ synced' = TRUE
    /\ UNCHANGED <<file, jobs, used, saved, base>>
\* ApplyConfig takes the whole of it, whatever needs a restart.
ApplyConfig ==
    /\ reload # <<>>
    /\ memory' = reload[1]
    /\ reload' = <<>> /\ synced' = TRUE
    /\ UNCHANGED <<file, jobs, used, saved, base>>

-----------------------------------------------------------------------------
Next ==
    \/ \E p \in ProjectsOf(base) \cup DOMAIN memory, f \in Fields : Change(p, f)
    \/ \E j \in Jobs : ReadAndUpdate(j) \/ Truncate(j) \/ WriteLines(j)
    \/ (\E lines \in EditedFiles : EditFile(lines))
    \/ Reload \/ ApplyConfig

Spec == Init /\ [][Next]_vars

-----------------------------------------------------------------------------
(* Properties *)

\* The kinds of the variables; a job has lines once it has read the file.
ConfigTypeOK ==
    /\ \A p \in DOMAIN memory, f \in Fields : memory[p][f] \in {Default[f], Other[f]}
    /\ \A j \in Jobs : jobs[j].at \in {"free", "queued", "read", "truncated", "done", "past", "failed"}
    /\ \A j \in Jobs : jobs[j].lines # <<>> <=> jobs[j].at \in {"read", "truncated", "done", "past"}
    /\ file = <<>> => \E j \in Jobs : jobs[j].at = "truncated"

\* When nothing is under way, the file is readable and says what memory says, if the
\* user's edits were taken over.
MemoryIsFile == Quiet => Readable(file) /\ (synced => memory = Load(file))

\* The same beside an edit that was not: for every layout of the file, a change by key
\* landed in its project, and nothing else moved from what the user wrote.
ChangedByKey(p, f) == \E j \in Jobs : jobs[j].at = "done" /\ jobs[j].project = p /\ jobs[j].field = f
OnlyChangesMove ==
    (Quiet /\ ~synced) =>
        \A p \in ProjectsOf(file), f \in Fields :
            Load(file)[p][f] = IF ChangedByKey(p, f) THEN memory[p][f] ELSE Load(base)[p][f]

\* All the rest of what the user wrote stays: comments, other keys, blank lines, and
\* their order.  (A line that holds a field and no comment may come or change.)
Kept(lines) ==
    SelectSeq([i \in DOMAIN lines |-> IF lines[i].kind = "field" THEN [lines[i] EXCEPT !.value = ""] ELSE lines[i]],
              LAMBDA l : l.kind # "field" \/ l.note # "none")
RestPreserved == Quiet => Kept(file) = Kept(base)

\* A reload brings what the user or a completed write left in the file, never what a
\* write in progress shows.
ReloadIsWhole == reload # <<>> => reload[1] \in {Load(lines) : lines \in saved}

\* Projects come and go with a restart only.
ProjectsStay == [][DOMAIN memory' = DOMAIN memory]_vars

=============================================================================
