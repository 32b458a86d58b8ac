------------------------------ MODULE TomlLines ------------------------------
(***************************************************************************)
(* The line editor for config.toml (internal/config/toml_writer.go) and,   *)
(* as a reference, what the TOML parser reads from the same lines.  A line *)
(* is its kind and what the editor tells apart in it; a comment behind a   *)
(* value holds a bracket or not.                                           *)
(***************************************************************************)
EXTENDS Naturals, Sequences, SequencesExt, FiniteSetsExt

\* The fields the editor writes, each with the value of an absent one first.
Fields == {"channel_enabled", "channel_listen"}
Default == [channel_enabled |-> "off", channel_listen |-> "nobody"]
Other == [channel_enabled |-> "on", channel_listen |-> "all"]

\* Kinds: "projects", "sub" and "table" for [[projects]], [projects.x] and [x]; "id";
\* "field", or "open" and "close" for an array over several lines; "key" for other
\* keys; "remark" for a line of comment; "blank".
Line(kind, name, value, note) == [kind |-> kind, name |-> name, value |-> value, note |-> note]
Header(kind) == Line(kind, "", "", "none")
Id(p) == Line("id", "id", p, "none")
Field(f, v, note) == Line("field", f, v, note)
Plain(kind) == Line(kind, "", "", "none")

IsHeader(l) == l.kind \in {"projects", "sub", "table"}
\* The first of some places, or the place behind.
First(places, none) == IF places = {} THEN none ELSE Min(places)

-----------------------------------------------------------------------------
(* updateLines *)

\* The header a line stands under, 0 for none.
HeaderOf(lines, i) == Max({0} \cup {h \in 1..(i - 1) : IsHeader(lines[h])})

\* The header of the block with the id, 0 when there is none: an id below a
\* sub-table is not of the block.
FindProjectBlock(lines, p) ==
    LET ids == {i \in DOMAIN lines : /\ lines[i] = Id(p)
                                     /\ HeaderOf(lines, i) # 0
                                     /\ lines[HeaderOf(lines, i)].kind = "projects"}
    IN IF ids = {} THEN 0 ELSE HeaderOf(lines, Min(ids))

\* The first header behind the block that is no sub-table of a project.
FindBlockEnd(lines, start) ==
    First({i \in (start + 1)..Len(lines) : lines[i].kind \in {"projects", "table"}}, Len(lines) + 1)

\* Bug for comparison: the field is sought to the end of the file.
FindFieldBehind(lines, start, end, f) ==
    First({i \in start..Len(lines) : lines[i].kind \in {"field", "open"} /\ lines[i].name = f}, 0)
FindFieldInBlock(lines, start, end, f) ==
    First({i \in start..(end - 1) : lines[i].kind \in {"field", "open"} /\ lines[i].name = f}, 0)

\* Bug for comparison: behind the last line of the block, its sub-tables included.
InsertionPointAtEnd(lines, start, end) ==
    Max({i \in start..(end - 1) : lines[i].kind # "blank"}) + 1
\* Behind the last line of the block that is not blank, before its sub-tables.
FindInsertionPoint(lines, start, end) ==
    LET mainEnd == First({i \in (start + 1)..(end - 1) : lines[i].kind = "sub"}, end)
    IN Max({start} \cup {i \in start..(mainEnd - 1) : lines[i].kind # "blank"}) + 1

\* Bug for comparison: the comment behind the value goes.
ReplaceDropsNote(l, v) == Field(l.name, v, "none")
\* Only this line is replaced.  The comment is sought behind the last bracket of an
\* array: one that holds a bracket is not found, nor that of a line that opens one.
ReplaceFieldValue(l, v) ==
    Field(l.name, v, IF l.kind = "open" \/ (l.name = "channel_listen" /\ l.note = "bracket")
                     THEN "none" ELSE l.note)

UpdateLines(lines, p, f, v) ==
    LET start == FindProjectBlock(lines, p)
        end == FindBlockEnd(lines, start)
        at == FindFieldInBlock(lines, start, end, f)
    IN IF at # 0 THEN [lines EXCEPT ![at] = ReplaceFieldValue(@, v)]
       ELSE InsertAt(lines, FindInsertionPoint(lines, start, end), Field(f, v, "none"))

-----------------------------------------------------------------------------
(* What the parser reads (github.com/BurntSushi/toml) *)

SameTable(lines, i, j) == HeaderOf(lines, i) = HeaderOf(lines, j)

\* An array is closed where it was opened, and no table has a key twice.
Readable(lines) ==
    /\ \A i \in DOMAIN lines :
          /\ lines[i].kind = "open" => i < Len(lines) /\ lines[i + 1].kind = "close"
          /\ lines[i].kind = "close" => i > 1 /\ lines[i - 1].kind = "open"
    /\ \A i, j \in DOMAIN lines :
          (i < j /\ SameTable(lines, i, j) /\ lines[i].name # "") => lines[i].name # lines[j].name

ProjectsOf(lines) == {lines[i].value : i \in {j \in DOMAIN lines : lines[j].kind = "id"}}
ValueOf(lines, p, f) ==
    LET id == CHOOSE i \in DOMAIN lines : lines[i] = Id(p)
        at == {i \in DOMAIN lines : lines[i].name = f /\ SameTable(lines, i, id)}
    IN IF at = {} THEN Default[f] ELSE lines[Min(at)].value

\* The config of a readable file.
Load(lines) == [p \in ProjectsOf(lines) |-> [f \in Fields |-> ValueOf(lines, p, f)]]

=============================================================================
