----------------------------- MODULE DesktopProxy -----------------------------
(***************************************************************************)
(* The proxy between the desktop agent and the upstream MCP server         *)
(* (internal/desktop/proxy.go): one reader of the agent's frames with the  *)
(* policy gate, one reader of the upstream's answers, the user's edits of  *)
(* the policy file between and during runs, and how a run ends.            *)
(*                                                                         *)
(* Frames carry the order of their sending as id.  The upstream server is  *)
(* external: it answers the requests it has in any order.                  *)
(***************************************************************************)
EXTENDS DesktopPolicy, Sequences, FiniteSets

CONSTANTS
    Files,          \* policy files the user may write
    Calls,          \* tools/call requests: [tool, text, app, focus]
    FrameKinds,     \* of "call", "list", "other", "junk", "huge"
    AnswerKinds,    \* of "result", "error", "known_error", "rpc_error", "huge"
    UpstreamTools,  \* what the upstream lists
    MaxFrames,      \* frames of one run
    MaxStarts       \* runs of the proxy

Request == [tool : Tools \cup {""}, text : Texts \cup {""}, app : Apps \cup {NoApp},
            focus : Focus \cup {"", "typo"}]

ASSUME ProxyAssumption ==
    /\ \A f \in Files : f.is \in {"toml", "malformed"}
    /\ \A f \in Files : Resolved(f) \in Policy
    /\ Calls \subseteq Request
    /\ UpstreamTools \subseteq Tools
    /\ AnswerKinds \cap {"tools", "denied", "echo"} = {}
    /\ MaxFrames \in Nat /\ MaxStarts \in Nat

NoCall == [tool |-> "", text |-> "", app |-> NoApp, focus |-> ""]
Calling(c) == [kind |-> "call", call |-> c]
Plain(k) == [kind |-> k, call |-> NoCall]
Frames == {Calling(c) : c \in {c \in Calls : "call" \in FrameKinds}}
            \cup {Plain(k) : k \in FrameKinds \ {"call"}}
Ids == 1..MaxFrames

Wire == [kind : FrameKinds, call : Request]
Lines == [id : Ids, frame : Frames]
Answers == [to : Ids, says : AnswerKinds \cup {"tools"}]
Notices == [to : Ids, tools : SUBSET UpstreamTools,
            says : AnswerKinds \cup {"tools", "denied", "echo", "hinted"}]

VARIABLES
    file,           \* ~/.zpit/desktop-policy.toml
    policy,         \* the policy of the running proxy
    edited,         \* the file changed since the proxy loaded it
    proc,           \* "off", "running", "failed", "ended"
    starts,
    cancelled,      \* SIGINT or SIGTERM came
    sent, inbox, inOpen,    \* frames on the agent's pipe, and its write end
    claude,         \* goroutine A: "reading", "ended", "failed"
    upstream,       \* goroutine B: the same
    up,             \* the upstream server: "running", "exited"
    received,       \* id -> frame the upstream was sent
    working,        \* ids it has not answered
    upOut,          \* its answers on the way to B
    out             \* what the agent got: [to, says, tools]

vars == <<file, policy, edited, proc, starts, cancelled, sent, inbox, inOpen,
          claude, upstream, up, received, working, upOut, out>>
agent == <<sent, inbox, inOpen>>
server == <<up, received, working, upOut>>
startup == <<policy, edited, starts>>

\* The context that runWithUpstream derives.
Stopped == cancelled \/ claude # "reading" \/ upstream # "reading"

\* writeToOut, writeDenial.
WriteToOut(id, says, tools) == out' = Append(out, [to |-> id, says |-> says, tools |-> tools])
WriteDenial(id) == WriteToOut(id, "denied", {})

-----------------------------------------------------------------------------
(* Start *)

Init ==
    /\ file = NoFile /\ policy = DefaultPolicy /\ edited = FALSE
    /\ proc = "off" /\ starts = 0 /\ cancelled = FALSE
    /\ sent = 0 /\ inbox = <<>> /\ inOpen = TRUE
    /\ claude = "reading" /\ upstream = "reading"
    /\ up = "exited" /\ received = <<>> /\ working = {} /\ upOut = <<>> /\ out = <<>>

\* resolveUpstream or the start of the subprocess may fail.
Spawn ==
    \/ proc' = "running" /\ up' = "running"
    \/ proc' = "failed" /\ up' = "exited"

\* RunFromEnv: load and check the policy, spawn the upstream, start both goroutines.
Start ==
    /\ proc # "running" /\ starts < MaxStarts
    /\ starts' = starts + 1
    /\ file' = IF file.is = "absent" THEN Template ELSE file
    /\ edited' = FALSE /\ cancelled' = FALSE
    /\ sent' = 0 /\ inbox' = <<>> /\ inOpen' = TRUE
    /\ claude' = "reading" /\ upstream' = "reading"
    /\ received' = <<>> /\ working' = {} /\ upOut' = <<>> /\ out' = <<>>
    /\ IF file.is # "malformed" /\ Valid(LoadPolicy(file))
         THEN policy' = LoadPolicy(file) /\ Spawn
         ELSE proc' = "failed" /\ up' = "exited" /\ UNCHANGED policy

\* The user writes the policy file.
EditPolicy ==
    /\ starts < MaxStarts
    /\ \E f \in Files \ {file} : file' = f
    /\ edited' = TRUE
    /\ UNCHANGED <<policy, proc, starts, cancelled, claude, upstream, out, agent, server>>

-----------------------------------------------------------------------------
(* The agent and the system *)

Send ==
    /\ proc = "running" /\ inOpen /\ sent < MaxFrames
    /\ sent' = sent + 1
    /\ \E f \in Frames : inbox' = Append(inbox, [id |-> sent', frame |-> f])
    /\ UNCHANGED <<file, startup, proc, cancelled, inOpen, claude, upstream, out, server>>

CloseInput ==
    /\ proc = "running" /\ inOpen
    /\ inOpen' = FALSE
    /\ UNCHANGED <<file, startup, proc, cancelled, sent, inbox, claude, upstream, out, server>>

\* The signal kills npx; the server npx started may live on with the pipes.
Cancel ==
    /\ proc = "running" /\ ~cancelled
    /\ cancelled' = TRUE
    /\ up' \in {up, "exited"}
    /\ UNCHANGED <<file, startup, proc, claude, upstream, out, received, working, upOut, agent>>

UpstreamExits ==
    /\ up = "running"
    /\ up' = "exited"
    /\ UNCHANGED <<file, startup, proc, cancelled, claude, upstream, out, received, working,
                   upOut, agent>>

UpstreamAnswers ==
    /\ up = "running"
    /\ \E id \in working :
         /\ working' = working \ {id}
         /\ \E k \in (IF received[id].kind = "list" THEN {"tools"} ELSE AnswerKinds) :
              upOut' = Append(upOut, [to |-> id, says |-> k])
    /\ UNCHANGED <<file, startup, proc, cancelled, claude, upstream, out, up, received, agent>>

-----------------------------------------------------------------------------
(* Goroutine A: forwardFromClaude *)

\* Bug for comparison: the strategy the agent asked for is kept.
ForcedIfMissing(call) ==
    IF call.tool \in KeyboardTools /\ call.focus = ""
      THEN [call EXCEPT !.focus = policy.focus] ELSE call
Forced(call) ==
    IF call.tool \in KeyboardTools THEN [call EXCEPT !.focus = policy.focus] ELSE call

ForwardToUpstream(id, frame) ==
    IF up = "running"
      THEN /\ received' = [i \in DOMAIN received \cup {id} |->
                             IF i = id THEN frame ELSE received[i]]
           /\ working' = working \cup {id}
      ELSE UNCHANGED <<received, working>>

\* Bugs for comparison: the gate reads the policy file of the moment; a denial
\* does not keep the call back.
ToolsCallReloaded(id, call) ==
    IF Permits(LoadPolicy(file), call)
      THEN ForwardToUpstream(id, Calling(Forced(call))) /\ UNCHANGED out
      ELSE WriteDenial(id) /\ UNCHANGED <<received, working>>
ToolsCallGoesOn(id, call) ==
    /\ ForwardToUpstream(id, Calling(Forced(call)))
    /\ IF Permits(policy, call) THEN UNCHANGED out ELSE WriteDenial(id)

HandleToolsCall(id, call) ==
    IF Permits(policy, call)
      THEN ForwardToUpstream(id, Calling(Forced(call))) /\ UNCHANGED out
      ELSE WriteDenial(id) /\ UNCHANGED <<received, working>>

\* A line that comes after the context is cancelled is dropped and ends the
\* loop, a line beyond the scanner's buffer ends it with an error.
\* Bug for comparison: other frames are dropped, not passed on.
HandleCallsOnly(id, frame) ==
    IF frame.kind = "call" THEN HandleToolsCall(id, frame.call)
    ELSE UNCHANGED <<out, received, working>>
Handle(id, frame) ==
    IF frame.kind = "call" THEN HandleToolsCall(id, frame.call)
    ELSE IF frame.kind = "junk"
      THEN WriteToOut(id, "echo", {}) /\ UNCHANGED <<received, working>>
      ELSE ForwardToUpstream(id, frame) /\ UNCHANGED out

ReadLine ==
    /\ proc = "running" /\ claude = "reading" /\ inbox # <<>>
    /\ inbox' = Tail(inbox)
    /\ IF Head(inbox).frame.kind = "huge"
         THEN claude' = "failed" /\ UNCHANGED <<out, received, working>>
       ELSE IF Stopped
         THEN claude' = "ended" /\ UNCHANGED <<out, received, working>>
         ELSE Handle(Head(inbox).id, Head(inbox).frame) /\ UNCHANGED claude
    /\ UNCHANGED <<file, startup, proc, cancelled, sent, inOpen, upstream, up, upOut>>

ReadEof ==
    /\ proc = "running" /\ claude = "reading" /\ inbox = <<>> /\ ~inOpen
    /\ claude' = "ended"
    /\ UNCHANGED <<file, startup, proc, cancelled, upstream, out, agent, server>>

-----------------------------------------------------------------------------
(* Goroutine B: forwardFromUpstream, which never asks for the context *)

\* Bug for comparison: the names of the allowlist alone are compared.
FilterNoWildcard(tools) == {t \in tools : t \in policy.allowed \ policy.denied}
FilterToolsList(tools) == Shown(policy, tools)

\* appendErrorHints.
Hinted(says) == IF says = "known_error" THEN "hinted" ELSE says

\* Bug for comparison: B passes an error on and then its hinted form.
RelayTwice(answer) ==
    IF answer.says = "known_error"
      THEN out' = out \o <<[to |-> answer.to, says |-> "error", tools |-> {}],
                           [to |-> answer.to, says |-> "hinted", tools |-> {}]>>
      ELSE WriteToOut(answer.to, answer.says, {})
Relay(answer) ==
    IF answer.says = "tools"
      THEN WriteToOut(answer.to, "tools", FilterToolsList(UpstreamTools))
      ELSE WriteToOut(answer.to, Hinted(answer.says), {})

ReadUpstream ==
    /\ proc = "running" /\ upstream = "reading" /\ upOut # <<>>
    /\ upOut' = Tail(upOut)
    /\ IF Head(upOut).says = "huge"
         THEN upstream' = "failed" /\ UNCHANGED out
         ELSE Relay(Head(upOut)) /\ UNCHANGED upstream
    /\ UNCHANGED <<file, startup, proc, cancelled, claude, up, received, working, agent>>

UpstreamEof ==
    /\ proc = "running" /\ upstream = "reading" /\ upOut = <<>> /\ up = "exited"
    /\ upstream' = "ended"
    /\ UNCHANGED <<file, startup, proc, cancelled, claude, out, agent, server>>

\* Bug for comparison: only the end of a pipe is seen as the end of a goroutine.
BothEnded == claude = "ended" /\ upstream = "ended"
BothDone == claude # "reading" /\ upstream # "reading"

\* Both goroutines are done and cmd.Wait has seen the upstream exit.
Finish ==
    /\ proc = "running" /\ BothDone /\ up = "exited"
    /\ proc' = "ended"
    /\ UNCHANGED <<file, startup, cancelled, claude, upstream, out, agent, server>>

Next ==
    \/ Start \/ EditPolicy
    \/ Send \/ CloseInput \/ Cancel \/ UpstreamExits \/ UpstreamAnswers
    \/ ReadLine \/ ReadEof \/ ReadUpstream \/ UpstreamEof \/ Finish

Spec == Init /\ [][Next]_vars

\* The goroutines read what is there, and an upstream that runs answers.  The
\* user, the agent and signals promise nothing.
Fairness ==
    /\ WF_vars(ReadLine) /\ WF_vars(ReadEof) /\ WF_vars(ReadUpstream)
    /\ WF_vars(UpstreamEof) /\ WF_vars(UpstreamAnswers) /\ WF_vars(Finish)
FairSpec == Spec /\ Fairness

-----------------------------------------------------------------------------
(* Properties *)

TypeOK ==
    /\ file \in Files \cup {NoFile, Template}
    /\ policy \in Policy /\ edited \in BOOLEAN /\ cancelled \in BOOLEAN /\ inOpen \in BOOLEAN
    /\ proc \in {"off", "running", "failed", "ended"}
    /\ proc = "running" => policy.focus \in Focus
    /\ starts \in 0..MaxStarts /\ sent \in 0..MaxFrames
    /\ inbox \in Seq(Lines)
    /\ {claude, upstream} \subseteq {"reading", "ended", "failed"}
    /\ up \in {"running", "exited"}
    /\ DOMAIN received \in SUBSET Ids /\ received \in [DOMAIN received -> Wire]
    /\ working \in SUBSET DOMAIN received
    /\ upOut \in Seq(Answers)
    /\ out \in Seq(Notices)

\* Whatever order edits of the file, restarts, frames and answers come in, each
\* call that reached the upstream is one the policy the proxy was started with
\* permits, with the focus strategy of that policy (handleToolsCall).
GateKept ==
    \A id \in DOMAIN received : received[id].kind = "call" =>
        LET call == received[id].call IN
        Permits(policy, call) /\ (call.tool \in KeyboardTools => call.focus = policy.focus)

\* A frame is answered at most once, by the gate or by the upstream, although
\* two goroutines write the answers (writeDenial, writeToOut).
AnsweredOnce ==
    /\ \A i, j \in DOMAIN out : out[i].to = out[j].to => i = j
    /\ \A i \in DOMAIN out : out[i].says \in {"denied", "echo"} => out[i].to \notin DOMAIN received

\* A first run that writes the policy file has the policy that a run started
\* with this file has, as has every other run (DefaultPolicy, policy.go:324).
PolicyOfFile == proc = "running" /\ ~edited => policy = LoadPolicy(file)

\* Each profile permits every call that a narrower one permits: the presets are
\* lists kept apart by hand (buildProfilePresets).
Wider == <<"read-only", "strict", "standard", "none-script", "trusted">>
ProfilesWiden ==
    \A i \in 1..5 : proc = "running" /\ policy = Preset(Wider[i]) =>
        \A j \in i..5, c \in Calls : Permits(policy, c) => Permits(Preset(Wider[j]), c)

\* The list of tools hides no tool that the gate would let pass, and shows none
\* that it would stop, but for run_script (filterToolsList, handleToolsCall).
ListMatchesGate ==
    \A i \in DOMAIN out : out[i].says = "tools" =>
        LET passing == {t \in UpstreamTools : ToolPasses(policy, t)} IN
        passing \subseteq out[i].tools /\ out[i].tools \subseteq passing \cup {"run_script"}

\* What the proxy tells the agent is so: one answer to a frame, by the policy of the file
\* its run found, with the tools that policy permits (Run, LoadPolicy, filterToolsList).
ProxyIsTrue == TypeOK /\ AnsweredOnce /\ PolicyOfFile /\ ListMatchesGate /\ ProfilesWiden

\* Every frame gets an answer, also one that is sent just before the agent
\* closes its pipe, unless the upstream is gone, a signal came, or a line was
\* too long to be read.
Answered(id) == \E i \in DOMAIN out : out[i].to = id
CutShort == up = "exited" \/ cancelled \/ claude = "failed" \/ upstream = "failed"
AllAnswered ==
    \A id \in Ids : (proc = "running" /\ sent >= id) ~> (Answered(id) \/ CutShort)

\* With the agent's pipe closed and the upstream gone the proxy ends (Run).
ProxyEnds == (proc = "running" /\ ~inOpen /\ up = "exited") ~> proc = "ended"

\* What the comment of Run says: it returns when the agent's pipe is at its end
\* (proxy.go:107).
EndsAtEof == (proc = "running" /\ ~inOpen) ~> proc # "running"

\* What the comment of Run says: it returns when the upstream exits (proxy.go:107).
EndsWithUpstream == (proc = "running" /\ up = "exited") ~> proc # "running"

=============================================================================
