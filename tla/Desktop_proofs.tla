---------------------------- MODULE Desktop_proofs ----------------------------
(* Proofs about the desktop proxy, for all lists of tools and keys that keep   *)
(* the relations of policy.go, all policy files, and any number of frames; and *)
(* about the lock that keeps the desktop agent the only one, for any number of *)
(* launches, processes, scans and restarts.                                    *)
EXTENDS DesktopProxy, DesktopAgent, SequenceTheorems, FiniteSetTheorems, TLAPS

LEMMA PresetsArePolicies ==
  ASSUME NEW p \in Profiles
  PROVE  Preset(p) \in Policy /\ Valid(Preset(p))
BY PolicyAssumption DEF Preset, Profiles, Policy, Valid, Focus, StandardDenied, NoneScriptDenyKeys

LEMMA LoadedPolicies ==
  ASSUME NEW f \in Files \cup {NoFile, Template}
  PROVE  LoadPolicy(f) \in Policy
<1>1. CASE f = NoFile
  BY <1>1, PresetsArePolicies DEF NoFile, LoadPolicy, DefaultPolicy, Profiles
<1>2. CASE f \in Files
  BY <1>2, ProxyAssumption DEF LoadPolicy
<1>3. CASE f = Template
  <2>1. LoadPolicy(Template) = [x \in Fields |-> Preset("standard")[x]]
    BY DEF LoadPolicy, Resolved, Template, Base, Profiles
  <2> QED
    BY <1>3, <2>1, PresetsArePolicies DEF Fields, Policy, Profiles
<1> QED
  BY <1>1, <1>2, <1>3

\* One preset after the other.
LEMMA PresetsWiden ==
  ASSUME NEW i \in 1..5, NEW j \in i..5, NEW c, Permits(Preset(Wider[i]), c)
  PROVE  Permits(Preset(Wider[j]), c)
<1> DEFINE Next1(k) == Permits(Preset(Wider[k]), c) => Permits(Preset(Wider[k + 1]), c)
<1> USE PolicyAssumption DEF Wider, Permits, ToolPasses, IsToolDenied, IsToolAllowed,
      MatchesDenyKey, IsBundleAllowed, Preset, StandardDenied, NoneScriptDenyKeys, KeyTools,
      KeyboardTools, WildcardTool
<1>1. Next1(1)
  OBVIOUS
<1>2. Next1(2)
  OBVIOUS
<1>3. Next1(3)
  OBVIOUS
<1>4. Next1(4)
  OBVIOUS
<1> QED
  BY <1>1, <1>2, <1>3, <1>4, i \in {1, 2, 3, 4, 5}, j \in {1, 2, 3, 4, 5}, i <= j
  DEF Next1

-----------------------------------------------------------------------------

LEMMA ForcedIsCall ==
  ASSUME policy \in Policy, NEW c \in Calls
  PROVE  /\ Forced(c) \in Request
         /\ Forced(c).tool = c.tool /\ Forced(c).text = c.text /\ Forced(c).app = c.app
         /\ c.tool \in KeyboardTools => Forced(c).focus = policy.focus
<1>1. c \in Request
  BY ProxyAssumption
<1>2. policy.focus \in Focus \cup {"typo"}
  BY DEF Policy
<1> QED
  BY <1>1, <1>2 DEF Forced, Request

LEMMA FramesAreRequests == Frames \subseteq Wire
<1>1. NoCall \in Request
  BY DEF NoCall, Request
<1>2. ASSUME NEW c \in Calls, "call" \in FrameKinds PROVE Calling(c) \in Wire
  BY <1>2, ProxyAssumption DEF Calling, Wire
<1>3. ASSUME NEW k \in FrameKinds PROVE Plain(k) \in Wire
  BY <1>1, <1>3 DEF Plain, Wire
<1> QED
  BY <1>2, <1>3 DEF Frames

\* The three things that can happen to a frame that A reads.
Kept == UNCHANGED <<received, working, out>>
Replied(id) ==
    /\ UNCHANGED <<received, working>>
    /\ \E says \in {"denied", "echo"} :
         out' = Append(out, [to |-> id, says |-> says, tools |-> {}])
Forwarded(id) ==
    /\ out' = out
    /\ \E g \in Wire :
         /\ received' = [i \in DOMAIN received \cup {id} |-> IF i = id THEN g ELSE received[i]]
         /\ working' = working \cup {id}
         /\ g.kind = "call" => /\ Permits(policy, g.call)
                               /\ g.call.tool \in KeyboardTools => g.call.focus = policy.focus

LEMMA HandleCases ==
  ASSUME TypeOK, NEW id \in Ids, NEW f \in Frames, Handle(id, f)
  PROVE  Kept \/ Replied(id) \/ Forwarded(id)
<1> USE DEF Kept, Replied, Forwarded
<1>1. CASE f.kind = "call"
  <2>1. PICK c \in Calls : f = Calling(c) /\ "call" \in FrameKinds
    BY <1>1 DEF Frames, Calling, Plain
  <2>2. policy \in Policy
    BY DEF TypeOK
  <2>3. CASE Permits(policy, c)
    <3>1. Permits(policy, Forced(c))
      BY <2>2, <2>3, ForcedIsCall DEF Permits
    <3>2. Calling(Forced(c)) \in Wire
      <4>1. Forced(c) \in Request
        BY <2>2, ForcedIsCall
      <4> QED
        BY <2>1, <4>1 DEF Calling, Wire
    <3>3. ForwardToUpstream(id, Calling(Forced(c))) /\ UNCHANGED out
      BY <1>1, <2>1, <2>3 DEF Handle, HandleToolsCall, Calling
    <3> QED
      BY <3>1, <3>2, <3>3, <2>2, ForcedIsCall DEF ForwardToUpstream, Calling
  <2>4. CASE ~Permits(policy, c)
    BY <1>1, <2>1, <2>4 DEF Handle, HandleToolsCall, Calling, WriteDenial, WriteToOut
  <2> QED
    BY <2>3, <2>4
<1>2. CASE f.kind # "call"
  BY <1>2, FramesAreRequests DEF Handle, ForwardToUpstream, WriteToOut
<1> QED
  BY <1>1, <1>2


LEMMA HandledTypes ==
  ASSUME TypeOK, NEW id \in Ids, NEW f \in Frames, Handle(id, f)
  PROVE  /\ DOMAIN received' \in SUBSET Ids /\ working' \in SUBSET DOMAIN received'
         /\ received' \in [DOMAIN received' -> Wire]
         /\ out' \in Seq(Notices)
<1>1. ASSUME NEW says \in {"denied", "echo"}
      PROVE  [to |-> id, says |-> says, tools |-> {}] \in Notices
  BY DEF Notices
<1>2. CASE Kept
  BY <1>2 DEF Kept, TypeOK
<1>3. CASE Replied(id)
  <2>1. out' \in Seq(Notices)
    <3>1. PICK says \in {"denied", "echo"} :
            out' = Append(out, [to |-> id, says |-> says, tools |-> {}])
      BY <1>3 DEF Replied
    <3>2. out \in Seq(Notices)
      BY DEF TypeOK
    <3> QED
      BY <1>1, <3>1, <3>2, AppendProperties
  <2> QED
    BY <1>3, <2>1 DEF Replied, TypeOK
<1>4. CASE Forwarded(id)
  BY <1>4 DEF Forwarded, TypeOK
<1> QED
  BY <1>2, <1>3, <1>4, HandleCases

\* The variables keep their types; the policy in force is always a valid one.
THEOREM TypeCorrect == Spec => []TypeOK
<1> USE ProxyAssumption
<1>1. Init => TypeOK
  <2> SUFFICES ASSUME Init PROVE TypeOK
    OBVIOUS
  <2>1. policy \in Policy
    BY PresetsArePolicies DEF Init, DefaultPolicy, Profiles
  <2>2. /\ inbox \in Seq(Lines) /\ upOut \in Seq(Answers) /\ out \in Seq(Notices)
    BY DEF Init
  <2>3. /\ received \in [DOMAIN received -> Wire]
        /\ DOMAIN received \in SUBSET Ids /\ working \in SUBSET DOMAIN received
    BY DEF Init
  <2>4. /\ starts \in 0..MaxStarts /\ sent \in 0..MaxFrames
    BY DEF Init
  <2>5. /\ {claude, upstream} \subseteq {"reading", "ended", "failed"}
        /\ file \in Files \cup {NoFile, Template} 
    BY DEF Init
  <2> QED
    BY <2>1, <2>2, <2>3, <2>4, <2>5 DEF Init, TypeOK
<1>2. TypeOK /\ [Next]_vars => TypeOK'
  <2> SUFFICES ASSUME TypeOK, [Next]_vars PROVE TypeOK'
    OBVIOUS
  <2> USE DEF TypeOK
  <2>1. CASE Start
    <3>1. LoadPolicy(file) \in Policy
      BY LoadedPolicies
    <3> QED
      <4>1. policy' \in Policy /\ (proc' = "running" => policy'.focus \in Focus)
        BY <2>1, <3>1 DEF Start, Spawn, Valid
      <4>2. /\ inbox' \in Seq(Lines) /\ upOut' \in Seq(Answers) /\ out' \in Seq(Notices)
        BY <2>1 DEF Start
      <4>3. /\ received' \in [DOMAIN received' -> Wire]
            /\ DOMAIN received' \in SUBSET Ids /\ working' \in SUBSET DOMAIN received'
        BY <2>1 DEF Start
      <4>4. /\ starts' \in 0..MaxStarts /\ sent' \in 0..MaxFrames
        BY <2>1 DEF Start
      <4>5. {claude', upstream'} \subseteq {"reading", "ended", "failed"}
        BY <2>1 DEF Start
      <4> QED
        BY <2>1, <4>1, <4>2, <4>3, <4>4, <4>5 DEF Start, Spawn
  <2>2. CASE EditPolicy
    BY <2>2 DEF EditPolicy, agent, server
  <2>3. CASE Send
    <3>1. PICK f \in Frames : inbox' = Append(inbox, [id |-> sent', frame |-> f])
      BY <2>3 DEF Send
    <3>2. sent' \in Ids
      BY <2>3 DEF Send, Ids
    <3>3. inbox' \in Seq(Lines)
      BY <3>1, <3>2, AppendProperties DEF Lines
    <3> QED
      BY <2>3, <3>2, <3>3 DEF Send, server, startup, Ids
  <2>4. CASE CloseInput
    BY <2>4 DEF CloseInput, server, startup
  <2>5. CASE Cancel
    BY <2>5 DEF Cancel, agent, startup
  <2>6. CASE UpstreamExits
    BY <2>6 DEF UpstreamExits, agent, startup
  <2>7. CASE UpstreamAnswers
    <3>1. PICK id \in working :
            /\ working' = working \ {id}
            /\ \E k \in AnswerKinds \cup {"tools"} :
                 upOut' = Append(upOut, [to |-> id, says |-> k])
      BY <2>7 DEF UpstreamAnswers
    <3>2. upOut' \in Seq(Answers)
      <4>1. PICK k \in AnswerKinds \cup {"tools"} :
              upOut' = Append(upOut, [to |-> id, says |-> k])
        BY <3>1
      <4>2. [to |-> id, says |-> k] \in Answers
        BY DEF Answers
      <4> QED
        BY <4>1, <4>2, AppendProperties
    <3> QED
      BY <2>7, <3>1, <3>2 DEF UpstreamAnswers, agent, startup
  <2>8. CASE ReadLine
    <3>1. Head(inbox) \in Lines /\ inbox' \in Seq(Lines)
      BY <2>8, HeadTailProperties DEF ReadLine
    <3>a. Head(inbox).id \in Ids /\ Head(inbox).frame \in Frames
      BY <3>1 DEF Lines
    <3>2. CASE Handle(Head(inbox).id, Head(inbox).frame)
      <4>1. /\ DOMAIN received' \in SUBSET Ids /\ working' \in SUBSET DOMAIN received'
            /\ received' \in [DOMAIN received' -> Wire]
            /\ out' \in Seq(Notices)
        BY <3>a, <3>2, HandledTypes
      <4> QED
        BY <2>8, <3>1, <4>1 DEF ReadLine, startup
    <3>3. CASE UNCHANGED <<out, received, working>>
      BY <2>8, <3>1, <3>3 DEF ReadLine, startup
    <3> QED
      BY <2>8, <3>2, <3>3 DEF ReadLine
  <2>9. CASE ReadEof
    BY <2>9 DEF ReadEof, agent, server, startup
  <2>10. CASE ReadUpstream
    <3>1. /\ Head(upOut) \in Answers
          /\ upOut' \in Seq(Answers)
      BY <2>10, HeadTailProperties DEF ReadUpstream
    <3>2. out' \in Seq(Notices)
      <4>1. ASSUME NEW tools \in SUBSET UpstreamTools,
                   NEW says \in AnswerKinds \cup {"tools", "hinted"}
            PROVE  [to |-> Head(upOut).to, says |-> says, tools |-> tools] \in Notices
        BY <3>1 DEF Notices, Answers
      <4>2. FilterToolsList(UpstreamTools) \in SUBSET UpstreamTools
        BY DEF FilterToolsList, Shown
      <4>3. Head(upOut).says \in AnswerKinds \cup {"tools"}
        BY <3>1 DEF Answers
      <4>4. PICK says \in AnswerKinds \cup {"tools", "hinted"},
                 tools \in SUBSET UpstreamTools :
              \/ out' = out
              \/ out' = Append(out, [to |-> Head(upOut).to, says |-> says, tools |-> tools])
        BY <2>10, <4>2, <4>3 DEF ReadUpstream, Relay, Hinted, WriteToOut
      <4> QED
        <5>1. out \in Seq(Notices)
          OBVIOUS
        <5>2. [to |-> Head(upOut).to, says |-> says, tools |-> tools] \in Notices
          BY <4>1
        <5>3. Append(out, [to |-> Head(upOut).to, says |-> says, tools |-> tools]) \in Seq(Notices)
          BY <5>1, <5>2, AppendProperties
        <5> QED
          BY <4>4, <5>1, <5>3
    <3> QED
      BY <2>10, <3>1, <3>2 DEF ReadUpstream, agent, startup
  <2>11. CASE UpstreamEof
    BY <2>11 DEF UpstreamEof, agent, server, startup
  <2>12. CASE Finish
    BY <2>12 DEF Finish, agent, server, startup
  <2>13. CASE UNCHANGED vars
    BY <2>13 DEF vars
  <2> QED
    BY <2>1, <2>2, <2>3, <2>4, <2>5, <2>6, <2>7, <2>8, <2>9, <2>10, <2>11, <2>12, <2>13 DEF Next
<1> QED
  BY <1>1, <1>2, PTL DEF Spec

-----------------------------------------------------------------------------
(* What passes the gate, what is listed, and which policy is in force. *)

Faithful == GateKept /\ ListMatchesGate /\ PolicyOfFile

LEMMA FaithfulStep ==
  ASSUME TypeOK, TypeOK', Faithful, [Next]_vars
  PROVE  Faithful'
<1> USE ProxyAssumption, PolicyAssumption DEF Faithful, GateKept, ListMatchesGate, PolicyOfFile
<1>1. CASE Start
  <2>1. GateKept' /\ ListMatchesGate'
    BY <1>1 DEF Start
  <2>2. PolicyOfFile'
    <3>1. LoadPolicy(Template) = DefaultPolicy
      BY DEF LoadPolicy, Resolved, Template, Base, Profiles, DefaultPolicy, Preset, Fields
    <3>2. file.is = "absent" => file = NoFile
      <4>1. file \in Files \cup {NoFile, Template}
        BY DEF TypeOK
      <4>2. \A f \in Files : f.is # "absent"
        OBVIOUS
      <4> QED
        BY <4>1, <4>2 DEF Template
    <3> QED
      BY <1>1, <3>1, <3>2 DEF Start, Spawn, LoadPolicy, NoFile, Template
  <2> QED
    BY <2>1, <2>2
<1>2. CASE EditPolicy
  BY <1>2 DEF EditPolicy, agent, server
<1>3. CASE ReadLine
  <2>1. UNCHANGED <<file, policy, edited, proc>>
    BY <1>3 DEF ReadLine, startup
  <2>2. Head(inbox).id \in Ids /\ Head(inbox).frame \in Frames
    <3>1. Head(inbox) \in Lines
      BY <1>3, HeadTailProperties DEF ReadLine, TypeOK
    <3> QED
      BY <3>1 DEF Lines
  <2>3. CASE Handle(Head(inbox).id, Head(inbox).frame)
    <3> DEFINE id == Head(inbox).id
    <3>1. Kept \/ Replied(id) \/ Forwarded(id)
      BY <2>2, <2>3, HandleCases
    <3> HIDE DEF id
    <3>2. CASE Kept
      BY <2>1, <3>2 DEF Kept
    <3>3. CASE Replied(id)
      BY <2>1, <3>3 DEF Replied, TypeOK
    <3>4. CASE Forwarded(id)
      <4>1. GateKept'
        BY <2>1, <3>4 DEF Forwarded
      <4> QED
        BY <2>1, <3>4, <4>1 DEF Forwarded
    <3> QED
      BY <3>1, <3>2, <3>3, <3>4
  <2>4. CASE UNCHANGED <<out, received>>
    BY <2>1, <2>4
  <2> QED
    BY <1>3, <2>3, <2>4 DEF ReadLine
<1>4. CASE ReadUpstream
  <2>1. UNCHANGED <<file, policy, edited, proc, received>>
    BY <1>4 DEF ReadUpstream, startup
  <2>2. ListMatchesGate'
    <3>1. Head(upOut) \in Answers
      BY <1>4, HeadTailProperties DEF ReadUpstream, TypeOK
    <3>2. LET passing == {t \in UpstreamTools : ToolPasses(policy, t)} IN
          /\ passing \subseteq Shown(policy, UpstreamTools)
          /\ Shown(policy, UpstreamTools) \subseteq passing \cup {"run_script"}
      BY DEF Shown, ToolPasses, IsToolDenied, IsToolAllowed
    <3>3. \/ out' = out
          \/ \E e : /\ out' = Append(out, e)
                    /\ e.says = "tools" => e.tools = Shown(policy, UpstreamTools)
      BY <1>4, <3>1 DEF ReadUpstream, Relay, Hinted, WriteToOut, FilterToolsList
    <3> QED
      <4>1. out \in Seq(Notices)
        BY DEF TypeOK
      <4>2. CASE out' = out
        BY <2>1, <4>2
      <4>3. ASSUME NEW e, out' = Append(out, e),
                   e.says = "tools" => e.tools = Shown(policy, UpstreamTools)
            PROVE  ListMatchesGate'
        <5>1. SUFFICES ASSUME NEW i \in DOMAIN out', out'[i].says = "tools"
                       PROVE  LET passing == {t \in UpstreamTools : ToolPasses(policy, t)} IN
                              /\ passing \subseteq out'[i].tools
                              /\ out'[i].tools \subseteq passing \cup {"run_script"}
          BY <2>1
        <5>2. CASE i \in DOMAIN out
          <6>1. out'[i] = out[i]
            BY <4>1, <4>3, <5>2
          <6> QED
            BY <5>1, <5>2, <6>1
        <5>3. CASE i \notin DOMAIN out
          <6>1. out'[i] = e
            BY <4>1, <4>3, <5>3
          <6> QED
            BY <3>2, <4>3, <5>1, <6>1
        <5> QED
          BY <5>2, <5>3
      <4> QED
        BY <3>3, <4>2, <4>3
  <2> QED
    BY <2>1, <2>2
<1>5. CASE Send \/ CloseInput \/ Cancel \/ UpstreamExits \/ UpstreamAnswers \/ ReadEof
             \/ UpstreamEof \/ Finish
  BY <1>5 DEF Send, CloseInput, Cancel, UpstreamExits, UpstreamAnswers, ReadEof, UpstreamEof,
     Finish, agent, server, startup
<1>6. CASE UNCHANGED vars
  BY <1>6 DEF vars
<1> QED
  BY <1>1, <1>2, <1>3, <1>4, <1>5, <1>6 DEF Next

LEMMA FaithfulAlways == Spec => []Faithful
<1>1. Init => Faithful
  BY DEF Init, Faithful, GateKept, ListMatchesGate, PolicyOfFile
<1> QED
  BY <1>1, TypeCorrect, FaithfulStep, PTL DEF Spec

\* Every call the upstream was sent is one the policy of the run permits, with
\* its focus strategy: handleToolsCall, over any edits and restarts.
THEOREM OnlyPermittedCalls == Spec => []GateKept
BY FaithfulAlways, PTL DEF Faithful

\* The listed tools are those the gate lets pass, but for run_script.
THEOREM ListIsGate == Spec => []ListMatchesGate
BY FaithfulAlways, PTL DEF Faithful

\* A run has the policy of its file, the first run that writes it included.
THEOREM PolicyIsOfFile == Spec => []PolicyOfFile
BY FaithfulAlways, PTL DEF Faithful

-----------------------------------------------------------------------------
(* Each frame is answered at most once.                                     *)

\* A frame is in one place: unread, in work, on its way back, or answered.
Unread ==
    \A k \in DOMAIN inbox :
        /\ inbox[k].id <= sent
        /\ \A m \in DOMAIN inbox : k < m => inbox[k].id < inbox[m].id
        /\ \A id \in DOMAIN received : id < inbox[k].id
        /\ \A i \in DOMAIN out : out[i].to < inbox[k].id
InWork ==
    /\ \A id \in DOMAIN received : id <= sent
    /\ \A i \in DOMAIN out : out[i].to <= sent /\ out[i].to \notin working
Returning ==
    \A a \in DOMAIN upOut :
        /\ upOut[a].to \in DOMAIN received \ working
        /\ \A b \in DOMAIN upOut : upOut[a].to = upOut[b].to => a = b
        /\ \A i \in DOMAIN out : out[i].to # upOut[a].to
OnePlace == Unread /\ InWork /\ Returning /\ AnsweredOnce

LEMMA OnePlaceRead ==
  ASSUME TypeOK, TypeOK', OnePlace, ReadLine
  PROVE  OnePlace'
<1> DEFINE id == Head(inbox).id
<1>1. inbox \in Seq(Lines) /\ inbox # <<>> /\ inbox' = Tail(inbox)
  BY DEF TypeOK, ReadLine
<1>2. id \in Ids /\ Head(inbox).frame \in Frames
  <2>1. Head(inbox) \in Lines
    BY <1>1, HeadTailProperties
  <2> QED
    BY <2>1 DEF Lines
<1>3. /\ id = inbox[1].id /\ 1 \in DOMAIN inbox
      /\ \A k \in DOMAIN inbox' : k + 1 \in DOMAIN inbox /\ inbox'[k] = inbox[k + 1] /\ k \in Nat
  BY <1>1, HeadTailProperties
<1>4. sent' = sent /\ upOut' = upOut
  BY DEF ReadLine
<1>5. /\ id <= sent
      /\ \A k \in DOMAIN inbox' : inbox'[k].id <= sent /\ id < inbox'[k].id
      /\ \A k, m \in DOMAIN inbox' : k < m => inbox'[k].id < inbox'[m].id
      /\ \A k \in DOMAIN inbox', x \in DOMAIN received : x < inbox'[k].id
      /\ \A k \in DOMAIN inbox', i \in DOMAIN out : out[i].to < inbox'[k].id
      /\ id \notin DOMAIN received /\ \A i \in DOMAIN out : out[i].to # id
  <2>1. \A k \in DOMAIN inbox' : 1 < k + 1
    BY <1>1, <1>3
  <2>2. \A k, m \in DOMAIN inbox' : k < m => k + 1 < m + 1
    BY <1>3
  <2>3. id < id => FALSE
    BY <1>2 DEF Ids
  <2> QED
    BY <1>3, <2>1, <2>2, <2>3 DEF OnePlace, Unread
<1> HIDE DEF id
<1>6. CASE Kept
  BY <1>4, <1>5, <1>6 DEF Kept, OnePlace, Unread, InWork, Returning, AnsweredOnce
<1>7. CASE Replied(id)
  <2>1. PICK says \in {"denied", "echo"} :
          out' = Append(out, [to |-> id, says |-> says, tools |-> {}])
    BY <1>7 DEF Replied
  <2>2. out \in Seq(Notices) /\ working \subseteq DOMAIN received
    BY DEF TypeOK
  <2>3. /\ \A i \in DOMAIN out : i \in DOMAIN out' /\ out'[i] = out[i]
        /\ \A i \in DOMAIN out' : i \in DOMAIN out \/ (i = Len(out) + 1 /\ out'[i].to = id)
    BY <2>1, <2>2
  <2>4. UNCHANGED <<received, working>>
    BY <1>7 DEF Replied
  <2>5. Unread'
    BY <1>4, <1>5, <2>3, <2>4 DEF Unread
  <2>6. InWork'
    BY <1>4, <1>5, <2>2, <2>3, <2>4 DEF OnePlace, InWork
  <2>7. Returning'
    BY <1>4, <1>5, <2>3, <2>4 DEF OnePlace, Returning
  <2>8. AnsweredOnce'
    BY <1>5, <2>3, <2>4 DEF OnePlace, AnsweredOnce
  <2> QED
    BY <2>5, <2>6, <2>7, <2>8 DEF OnePlace
<1>8. CASE Forwarded(id)
  <2>1. /\ out' = out /\ DOMAIN received' = DOMAIN received \cup {id}
        /\ working' = working \cup {id}
    BY <1>8 DEF Forwarded
  <2>2. Unread'
    BY <1>4, <1>5, <2>1 DEF Unread
  <2>3. InWork'
    BY <1>4, <1>5, <2>1 DEF OnePlace, InWork
  <2>4. Returning'
    BY <1>4, <1>5, <2>1 DEF OnePlace, Returning
  <2>5. AnsweredOnce'
    BY <1>5, <2>1 DEF OnePlace, AnsweredOnce
  <2> QED
    BY <2>2, <2>3, <2>4, <2>5 DEF OnePlace
<1> QED
  BY <1>2, <1>6, <1>7, <1>8, HandleCases DEF ReadLine, Kept, id

LEMMA OnePlaceAnswered ==
  ASSUME TypeOK, OnePlace, UpstreamAnswers
  PROVE  OnePlace'
<1>1. PICK id \in working, k \in AnswerKinds \cup {"tools"} :
        /\ working' = working \ {id}
        /\ upOut' = Append(upOut, [to |-> id, says |-> k])
  BY DEF UpstreamAnswers
<1>2. upOut \in Seq(Answers) /\ id \in DOMAIN received
  BY DEF TypeOK
<1>3. UNCHANGED <<sent, inbox, received, out>>
  BY DEF UpstreamAnswers, agent
<1>4. /\ \A a \in DOMAIN upOut : upOut'[a] = upOut[a]
      /\ \A a \in DOMAIN upOut' : a \in DOMAIN upOut \/ (a = Len(upOut) + 1 /\ upOut'[a].to = id)
  BY <1>1, <1>2
<1>5. Returning'
  BY <1>1, <1>2, <1>3, <1>4 DEF OnePlace, Returning, InWork
<1> QED
  BY <1>1, <1>3, <1>5 DEF OnePlace, Unread, InWork, AnsweredOnce

LEMMA OnePlaceRelayed ==
  ASSUME TypeOK, OnePlace, ReadUpstream
  PROVE  OnePlace'
<1> DEFINE id == Head(upOut).to
<1>1. upOut \in Seq(Answers) /\ upOut # <<>> /\ upOut' = Tail(upOut)
  BY DEF TypeOK, ReadUpstream
<1>2. /\ 1 \in DOMAIN upOut /\ id = upOut[1].to
      /\ \A a \in DOMAIN upOut' : a + 1 \in DOMAIN upOut /\ upOut'[a] = upOut[a + 1] /\ a \in Nat \ {0}
      /\ Head(upOut) \in Answers
  BY <1>1, HeadTailProperties
<1>3. UNCHANGED <<sent, inbox, received, working>>
  BY DEF ReadUpstream, agent
<1>4. /\ id \in DOMAIN received \ working
      /\ \A i \in DOMAIN out : out[i].to # id
      /\ \A a \in DOMAIN upOut' : upOut'[a].to \in DOMAIN received \ working /\ upOut'[a].to # id
      /\ \A a, b \in DOMAIN upOut' : upOut'[a].to = upOut'[b].to => a = b
      /\ \A a \in DOMAIN upOut', i \in DOMAIN out : out[i].to # upOut'[a].to
  <2>1. \A a \in DOMAIN upOut' : 1 # a + 1
    BY <1>2
  <2>2. \A a, b \in DOMAIN upOut' : a + 1 = b + 1 => a = b
    BY <1>2
  <2> QED
    BY <1>2, <2>1, <2>2 DEF OnePlace, Returning
<1>5. Head(upOut).says \in AnswerKinds \cup {"tools"}
  BY <1>2 DEF Answers
<1>6. PICK says, tools :
        /\ says \notin {"denied", "echo"}
        /\ \/ out' = out
           \/ out' = Append(out, [to |-> id, says |-> says, tools |-> tools])
  BY <1>5, ProxyAssumption DEF ReadUpstream, Relay, Hinted, WriteToOut
<1> HIDE DEF id
<1>7. CASE out' = out
  BY <1>3, <1>4, <1>7 DEF OnePlace, Unread, InWork, Returning, AnsweredOnce
<1>8. CASE out' = Append(out, [to |-> id, says |-> says, tools |-> tools])
  <2>1. out \in Seq(Notices)
    BY DEF TypeOK
  <2>2. /\ \A i \in DOMAIN out : out'[i] = out[i]
        /\ \A i \in DOMAIN out' : \/ i \in DOMAIN out
                                  \/ i = Len(out) + 1 /\ out'[i].to = id /\ out'[i].says = says
    BY <1>8, <2>1
  <2>3. Unread'
    BY <1>3, <1>4, <2>2 DEF OnePlace, Unread
  <2>4. InWork'
    BY <1>3, <1>4, <2>2 DEF OnePlace, InWork
  <2>5. Returning'
    BY <1>3, <1>4, <2>2 DEF Returning
  <2>6. AnsweredOnce'
    BY <1>3, <1>4, <1>6, <2>2 DEF OnePlace, AnsweredOnce
  <2> QED
    BY <2>3, <2>4, <2>5, <2>6 DEF OnePlace
<1> QED
  BY <1>6, <1>7, <1>8

LEMMA OnePlaceSent ==
  ASSUME TypeOK, OnePlace, Send
  PROVE  OnePlace'
<1>1. PICK f : inbox' = Append(inbox, [id |-> sent', frame |-> f])
  BY DEF Send
<1>2. sent' = sent + 1 /\ sent \in Nat /\ inbox \in Seq(Lines) /\ out \in Seq(Notices)
  BY DEF Send, TypeOK
<1>3. UNCHANGED <<received, working, upOut, out>>
  BY DEF Send, server
<1>4. /\ \A k \in DOMAIN inbox : inbox'[k] = inbox[k] /\ k < Len(inbox) + 1
      /\ \A k \in DOMAIN inbox' : k \in DOMAIN inbox \/ (k = Len(inbox) + 1 /\ inbox'[k].id = sent + 1)
  BY <1>1, <1>2
<1>5. /\ \A k \in DOMAIN inbox : inbox[k].id \in Nat /\ inbox[k].id <= sent
      /\ \A id \in DOMAIN received : id \in Nat /\ id <= sent
      /\ \A i \in DOMAIN out : out[i].to \in Nat /\ out[i].to <= sent
  <2>1. \A k \in DOMAIN inbox : inbox[k] \in Lines
    BY <1>2
  <2>2. \A i \in DOMAIN out : out[i] \in Notices
    BY <1>2
  <2> QED
    BY <2>1, <2>2 DEF OnePlace, Unread, InWork, TypeOK, Ids, Lines, Notices
<1>6. Unread'
  <2>1. ASSUME NEW k \in DOMAIN inbox, NEW m \in DOMAIN inbox', k < m
        PROVE  inbox'[k].id < inbox'[m].id
    BY <1>2, <1>4, <1>5, <2>1 DEF OnePlace, Unread
  <2>2. ASSUME NEW m \in DOMAIN inbox' PROVE ~(Len(inbox) + 1 < m)
    BY <1>2, <1>4, <2>2
  <2> QED
    BY <1>2, <1>3, <1>4, <1>5, <2>1, <2>2 DEF OnePlace, Unread
<1>7. InWork'
  BY <1>2, <1>3, <1>5 DEF OnePlace, InWork
<1> QED
  BY <1>3, <1>6, <1>7 DEF OnePlace, Returning, AnsweredOnce

\* No frame is answered twice, whichever of the two goroutines answers.
THEOREM NoSecondAnswer == Spec => []AnsweredOnce
<1>1. Init => OnePlace
  BY DEF Init, OnePlace, Unread, InWork, Returning, AnsweredOnce
<1>2. TypeOK /\ TypeOK' /\ OnePlace /\ [Next]_vars => OnePlace'
  <2> SUFFICES ASSUME TypeOK, TypeOK', OnePlace, [Next]_vars PROVE OnePlace'
    OBVIOUS
  <2>1. CASE Start
    BY <2>1 DEF Start, OnePlace, Unread, InWork, Returning, AnsweredOnce
  <2>2. CASE \/ EditPolicy \/ CloseInput \/ Cancel \/ UpstreamExits \/ ReadEof
             \/ UpstreamEof \/ Finish \/ UNCHANGED vars
    <3>1. UNCHANGED <<sent, inbox, received, working, upOut, out>>
      BY <2>2 DEF EditPolicy, CloseInput, Cancel, UpstreamExits, ReadEof, UpstreamEof, Finish,
         vars, agent, server
    <3> QED
      BY <3>1 DEF OnePlace, Unread, InWork, Returning, AnsweredOnce
  <2> QED
    BY <2>1, <2>2, OnePlaceRead, OnePlaceAnswered, OnePlaceRelayed, OnePlaceSent DEF Next
<1>3. OnePlace => AnsweredOnce
  BY DEF OnePlace
<1> QED
  BY <1>1, <1>2, <1>3, TypeCorrect, PTL DEF Spec

\* Each profile permits every call that a narrower one permits, for all lists
\* that keep the relations of PolicyAssumption (buildProfilePresets).
THEOREM WiderProfilesPermitMore == Spec => []ProfilesWiden
<1>1. ProfilesWiden
  BY PresetsWiden DEF ProfilesWiden
<1> QED
  BY <1>1, PTL

\* All of what the proxy tells the agent is so.
THEOREM TellsTheTruth == Spec => []ProxyIsTrue
BY TypeCorrect, NoSecondAnswer, PolicyIsOfFile, ListIsGate, WiderProfilesPermitMore, PTL
   DEF ProxyIsTrue


-----------------------------------------------------------------------------
(* The desktop agent *)

Keys == Nat \ {0}
EntryType ==
    [key : Launches \X Keys, own : BOOLEAN, pid : Procs \cup {0}, state : {"unknown", "ended"}]

LaunchChain == [at : {"launch", "launched"}, n : Launches]
DiscoverChain == [at : {"discover", "scan"}, n : Launches, exclude : SUBSET (Procs \cup {0})]
PidChain == [at : {"found", "wait"}, n : Launches, k : Keys, pid : Procs]
LostChain == [at : {"lost"}, n : Launches, k : Keys]
ScannedChain == [at : {"scanned"}, n : Launches, pids : SUBSET Procs]
Chain == LaunchChain \cup DiscoverChain \cup PidChain \cup LostChain \cup ScannedChain

\* The kinds of the variables; one entry per key, and only a launch's own first.
Shape ==
    /\ entries \subseteq EntryType /\ active \in {0} \cup Launches
    /\ opening \subseteq Launches /\ born \subseteq Procs /\ alive \subseteq born
    /\ pressed \in 0..MaxLaunches /\ restarts \in Nat
    /\ chains \subseteq Chain
    /\ \A e, f \in entries : e.key = f.key => e = f
    /\ \A e \in entries : e.own => e.key[2] = 1

ScanInv == IsFiniteSet(Scans) /\ Cardinality(Scans) <= MaxScans

\* What is launching is the latest launch, which nothing knows yet.
LaunchInv ==
    \A c \in chains : c.at \in {"launch", "launched"} =>
        /\ c.n = pressed /\ active # pressed
        /\ \A e \in entries : e.key[1] # pressed
        /\ \A d \in chains : d.n = pressed => d = c
        /\ c.at = "launch" => pressed \notin born \cup opening

\* Chains know the process of their launch, or that it is no more.
ChainOK(c) ==
    /\ c.n <= pressed
    /\ c.at \in {"discover", "found", "scan", "scanned"} => c.n = pressed
    /\ c.at = "discover" => pressed \notin c.exclude
    /\ c.at \in {"found", "wait"} => c.pid = c.n /\ c.n \in born
    /\ c.at = "scanned" => c.pids \subseteq {c.n} \cap born
    /\ c.at = "lost" => c.n \notin alive \cup opening
ChainInv == \A c \in chains : ChainOK(c)

\* So do entries.
EntryOK(e) ==
    /\ e.key[1] <= pressed /\ e.pid \in {0, e.key[1]}
    /\ e.pid # 0 => e.pid \in born
    /\ e.state = "ended" => e.key[1] \notin alive \cup opening
    /\ e.own /\ e.key[1] = active /\ e.pid = 0 => active = pressed
EntryInv == \A e \in entries : EntryOK(e)

\* Only the latest launch lives or comes up, and while it does it is in hand.
AloneInv ==
    /\ alive \cup opening \subseteq {pressed} /\ born \subseteq 1..pressed
    /\ opening \cap born = {}
    /\ pressed \in alive \cup opening =>
          \/ \E c \in chains : c.at = "launched"
          \/ active = pressed /\ \E e \in entries : e.own /\ e.key[1] = pressed

\* What a calm run adds.
CalmInv == LaunchInv /\ ChainInv /\ EntryInv /\ AloneInv

-----------------------------------------------------------------------------
(* The kinds of the variables *)

LEMMA ChainKinds ==
    ASSUME Shape, NEW c \in chains
    PROVE  /\ c \in Chain /\ c.n \in Launches
           /\ c.at \in {"launch", "launched"} => c \in LaunchChain
           /\ c.at \in {"discover", "scan"} => c \in DiscoverChain
           /\ c.at \in {"found", "wait"} => c \in PidChain
           /\ c.at = "lost" => c \in LostChain
           /\ c.at = "scanned" => c \in ScannedChain
BY DEF Shape, Chain, LaunchChain, DiscoverChain, PidChain, LostChain, ScannedChain

LEMMA NewEntry ==
    ASSUME NEW n \in Launches, NEW k \in Keys, NEW own \in BOOLEAN, NEW p \in Procs \cup {0}
    PROVE  /\ Entry(n, k, own, p) \in EntryType
           /\ Entry(n, k, own, p).key = <<n, k>> /\ Entry(n, k, own, p).own = own
           /\ Entry(n, k, own, p).pid = p /\ Entry(n, k, own, p).state = "unknown"
BY DEF Entry, EntryType

\* An entry that gets its process, or ends.
LEMMA SameEntry ==
    ASSUME NEW e \in EntryType, NEW p \in Procs \cup {0}
    PROVE  /\ [e EXCEPT !.pid = p] \in EntryType
           /\ [e EXCEPT !.pid = p].key = e.key /\ [e EXCEPT !.pid = p].own = e.own
           /\ [e EXCEPT !.pid = p].pid = p /\ [e EXCEPT !.pid = p].state = e.state
           /\ [e EXCEPT !.state = "ended"] \in EntryType
           /\ [e EXCEPT !.state = "ended"].key = e.key /\ [e EXCEPT !.state = "ended"].own = e.own
           /\ [e EXCEPT !.state = "ended"].pid = e.pid /\ [e EXCEPT !.state = "ended"].state = "ended"
BY DEF EntryType

LEMMA ActiveIsKept ==
    ASSUME Shape, LockIsTracked,
           \/ UNCHANGED <<entries, active>>
           \/ /\ active' = active
              /\ \A e \in entries : \E f \in entries' : f.key = e.key /\ f.own = e.own
    PROVE  LockIsTracked'
BY DEF LockIsTracked, ActiveEntries

LEMMA LaunchedShape ==
    ASSUME DesktopAgentAssumption, Shape, NEW c \in chains, Launched(c)
    PROVE  Shape' /\ LockIsTracked'
<1> DEFINE new == Entry(c.n, 1, TRUE, 0)
           next == [at |-> "discover", n |-> c.n, exclude |-> Tracked]
<1>1. c.n \in Launches BY ChainKinds
<1>a. 1 \in Keys /\ TRUE \in BOOLEAN /\ 0 \in Procs \cup {0} BY DEF Keys
<1>2. new \in EntryType /\ new.key = <<c.n, 1>> /\ new.own = TRUE
  BY <1>1, <1>a, NewEntry
<1>3. Tracked \in SUBSET (Procs \cup {0})
  BY DEF Shape, EntryType, Tracked
<1>4. next \in Chain BY <1>1, <1>3 DEF Chain, DiscoverChain
<1>5. entries' = (entries \ At(c.n, 1)) \cup {new} /\ active' = c.n
      /\ chains' = (chains \ {c}) \cup {next}
      /\ UNCHANGED <<opening, alive, born, pressed, restarts>>
  BY DEF Launched, Step
<1> HIDE DEF new, next
<1>6. entries' \subseteq EntryType /\ chains' \subseteq Chain
  BY <1>2, <1>4, <1>5 DEF Shape
<1>7. ASSUME NEW e \in entries', NEW f \in entries', e.key = f.key PROVE e = f
  BY <1>2, <1>5, <1>7 DEF Shape, At
<1>8. ASSUME NEW e \in entries', e.own PROVE e.key[2] = 1
  BY <1>2, <1>5, <1>8 DEF Shape
<1>9. Shape' BY <1>1, <1>5, <1>6, <1>7, <1>8 DEF Shape
<1>10. LockIsTracked'
  <2>1. new \in entries' /\ new.own /\ new.key[1] = active' BY <1>2, <1>5
  <2> QED BY <2>1 DEF LockIsTracked, ActiveEntries
<1> QED BY <1>9, <1>10

LEMMA FoundShape ==
    ASSUME Shape, LockIsTracked, NEW c \in chains, SessionFound(c)
    PROVE  Shape' /\ LockIsTracked'
<1> DEFINE Now(e) == IF e.key = <<c.n, c.k>> THEN [e EXCEPT !.pid = c.pid] ELSE e
           wait == [at |-> "wait", n |-> c.n, k |-> c.k, pid |-> c.pid]
<1>1. c \in PidChain BY ChainKinds DEF SessionFound
<1>2. c.n \in Launches /\ c.k \in Keys /\ c.pid \in Procs BY <1>1 DEF PidChain
<1>3. wait \in Chain BY <1>2 DEF Chain, PidChain
<1>4. entries' = {Now(e) : e \in entries} /\ active' = active
      /\ chains' \subseteq chains \cup {wait}
      /\ UNCHANGED <<opening, alive, born, pressed, restarts>>
  BY DEF SessionFound, Step
<1>5. \A e \in entries : Now(e) \in EntryType /\ Now(e).key = e.key /\ Now(e).own = e.own
  BY <1>2, SameEntry DEF Shape
<1> HIDE DEF Now, wait
<1>6. Shape' BY <1>3, <1>4, <1>5 DEF Shape
<1>7. LockIsTracked' BY <1>4, <1>5, ActiveIsKept
<1> QED BY <1>6, <1>7

LEMMA LostShape ==
    ASSUME Shape, LockIsTracked, NEW c \in chains, Lost(c)
    PROVE  Shape' /\ LockIsTracked'
<1> DEFINE Now(e) == IF e.key = <<c.n, c.k>> THEN [e EXCEPT !.state = "ended"] ELSE e
<1>1. entries' = {Now(e) : e \in entries} /\ active' = active /\ chains' \subseteq chains
      /\ UNCHANGED <<opening, alive, born, pressed, restarts>>
  BY DEF Lost, Step
<1>2. \A e \in entries : Now(e) \in EntryType /\ Now(e).key = e.key /\ Now(e).own = e.own
  BY SameEntry DEF Shape
<1> HIDE DEF Now
<1>3. Shape' BY <1>1, <1>2 DEF Shape
<1>4. LockIsTracked' BY <1>1, <1>2, ActiveIsKept
<1> QED BY <1>3, <1>4

\* The liveness check: what is ended, and what is left of the list.
Checked(e) == IF e.pid # 0 /\ e.pid \notin alive THEN [e EXCEPT !.state = "ended"] ELSE e

LEMMA CheckedFields ==
    ASSUME Shape, NEW e \in entries
    PROVE  /\ Checked(e) \in EntryType /\ Checked(e).key = e.key /\ Checked(e).own = e.own
           /\ Checked(e).pid = e.pid
           /\ Checked(e).state = "ended" <=> e.state = "ended" \/ (e.pid # 0 /\ e.pid \notin alive)
<1>1. e \in EntryType BY DEF Shape
<1> QED BY <1>1, SameEntry DEF Checked, EntryType

LEMMA LivenessSteps ==
    ASSUME Liveness
    PROVE  \E ended \in SUBSET {e \in entries : e.state = "ended"} :
              /\ entries' = {Checked(e) : e \in entries \ ended}
              /\ active' = IF \E e \in entries' : e.own /\ e.key[1] = active /\ e.state # "ended"
                           THEN active ELSE 0
              /\ UNCHANGED <<opening, alive, born, chains, pressed, restarts>>
BY DEF Liveness, Checked

LEMMA LivenessShape ==
    ASSUME Shape, Liveness
    PROVE  Shape' /\ LockIsTracked'
<1>1. PICK ended \in SUBSET {e \in entries : e.state = "ended"} :
              /\ entries' = {Checked(e) : e \in entries \ ended}
              /\ active' = IF \E e \in entries' : e.own /\ e.key[1] = active /\ e.state # "ended"
                           THEN active ELSE 0
              /\ UNCHANGED <<opening, alive, born, chains, pressed, restarts>>
  BY LivenessSteps
<1>2. Shape' BY <1>1, CheckedFields DEF Shape
<1>3. LockIsTracked' BY <1>1 DEF LockIsTracked, ActiveEntries
<1> QED BY <1>2, <1>3

LEMMA ScannedShape ==
    ASSUME DesktopAgentAssumption, Shape, LockIsTracked, NEW c \in chains, Scanned(c)
    PROVE  Shape' /\ LockIsTracked'
<1> DEFINE new == c.pids \ Tracked
           waiting == {e \in entries : e.pid = 0}
           ours == {e \in waiting : e.key = <<c.n, 1>>}
<1>1. c.n \in Launches /\ c.pids \in SUBSET Procs
  BY ChainKinds DEF Scanned, ScannedChain
<1>2. UNCHANGED <<active, opening, alive, born, pressed, restarts>> BY DEF Scanned
<1>3. CASE Step(c, {}) /\ UNCHANGED entries
  <2>1. Shape' BY <1>2, <1>3 DEF Shape, Step
  <2> QED BY <2>1, <1>2, <1>3, ActiveIsKept
<1>4. ASSUME NEW e \in ours, NEW p \in new,
             entries' = (entries \ ours) \cup {[e EXCEPT !.pid = p]},
             Step(c, {WaitOf(c.n, 1, p)})
      PROVE  Shape' /\ LockIsTracked'
  <2> DEFINE filled == [e EXCEPT !.pid = p]
  <2>1. e \in entries /\ e.key = <<c.n, 1>> /\ p \in Procs BY <1>1
  <2>2. filled \in EntryType /\ filled.key = <<c.n, 1>> /\ filled.own = e.own
    BY <2>1, SameEntry DEF Shape
  <2>3. \A f \in entries : f \in ours => f = e
    BY <2>1 DEF Shape
  <2>4. WaitOf(c.n, 1, p) \in Chain
    BY <1>1, <2>1 DEF WaitOf, Chain, PidChain, Keys
  <2>5. entries' = (entries \ {e}) \cup {filled} BY <1>4, <2>1, <2>3
  <2> HIDE DEF filled, new, ours
  <2>6. entries' \subseteq EntryType /\ chains' \subseteq Chain
    BY <1>4, <2>2, <2>4, <2>5 DEF Shape, Step
  <2>7. ASSUME NEW f \in entries', NEW g \in entries', f.key = g.key PROVE f = g
    BY <2>1, <2>2, <2>5, <2>7 DEF Shape
  <2>8. ASSUME NEW f \in entries', f.own PROVE f.key[2] = 1
    BY <2>2, <2>5, <2>8 DEF Shape
  <2>9. Shape' BY <1>2, <2>6, <2>7, <2>8 DEF Shape
  <2>10. LockIsTracked' BY <1>2, <2>1, <2>2, <2>5, ActiveIsKept
  <2> QED BY <2>9, <2>10
<1>5. ASSUME new # {}, NEW key \in Attached(c.n, new),
             entries' = entries \cup {Entry(c.n, key[p], FALSE, p) : p \in new},
             Step(c, {WaitOf(c.n, key[p], p) : p \in new})
      PROVE  Shape' /\ LockIsTracked'
  <2>1. /\ \A p \in new : key[p] \in FreeKeys(c.n)
        /\ \A p, q \in new : key[p] = key[q] => p = q
    BY DEF Attached, Bijection, Injection, IsInjective
  <2>2. new \subseteq Procs BY <1>1
  <2>3. \A k \in FreeKeys(c.n) : k \in Keys /\ At(c.n, k) = {}
    BY DEF FreeKeys, Keys
  <2> HIDE DEF new
  <2>4. \A p \in new : LET e == Entry(c.n, key[p], FALSE, p) IN
           /\ e \in EntryType /\ e.key = <<c.n, key[p]>> /\ e.own = FALSE
    <3> SUFFICES ASSUME NEW p \in new
                 PROVE  LET e == Entry(c.n, key[p], FALSE, p) IN
                           /\ e \in EntryType /\ e.key = <<c.n, key[p]>> /\ e.own = FALSE
      OBVIOUS
    <3>1. key[p] \in Keys /\ FALSE \in BOOLEAN /\ p \in Procs \cup {0} BY <2>1, <2>2, <2>3
    <3> QED BY <1>1, <3>1, NewEntry
  <2>5. \A p \in new : WaitOf(c.n, key[p], p) \in Chain
    BY <1>1, <2>1, <2>2, <2>3 DEF WaitOf, Chain, PidChain
  <2>6. entries' \subseteq EntryType /\ chains' \subseteq Chain
    BY <1>5, <2>4, <2>5 DEF Shape, Step
  <2>7. \A p \in new, e \in entries : e.key # <<c.n, key[p]>>
    BY <2>1, <2>3 DEF At
  <2>8. \A p, q \in new : <<c.n, key[p]>> = <<c.n, key[q]>> => p = q BY <2>1
  <2>9. \A f, g \in entries' : f.key = g.key => f = g
    <3> DEFINE E(p) == Entry(c.n, key[p], FALSE, p)
    <3>1. entries' = entries \cup {E(p) : p \in new} BY <1>5
    <3>2. \A p \in new : E(p).key = <<c.n, key[p]>> BY <2>4
    <3> HIDE DEF E
    <3> QED BY <3>1, <3>2, <2>7, <2>8 DEF Shape
  <2>10. \A f \in entries' : f.own => f.key[2] = 1
    BY <1>5, <2>4 DEF Shape
  <2>11. Shape' BY <1>2, <2>6, <2>9, <2>10 DEF Shape
  <2>12. LockIsTracked' BY <1>2, <1>5, ActiveIsKept
  <2> QED BY <2>11, <2>12
<1> QED BY <1>3, <1>4, <1>5 DEF Scanned

LEMMA ShapeInit == ASSUME DesktopAgentAssumption, AgentInit PROVE Shape /\ LockIsTracked
BY DEF AgentInit, Shape, LockIsTracked, DesktopAgentAssumption

LEMMA ChainShape ==
    ASSUME DesktopAgentAssumption, Shape, LockIsTracked, NEW c \in chains, Proceed(c) \/ Drop(c)
    PROVE  Shape' /\ LockIsTracked'
<1>1. c.n \in Launches BY ChainKinds
<1>2. CASE UNCHANGED <<entries, active, alive, born, pressed, restarts>>
           /\ opening' \subseteq opening \cup {c.n}
           /\ \E next \in SUBSET Chain : Step(c, next)
  <2>1. Shape' BY <1>1, <1>2 DEF Shape, Step
  <2> QED BY <2>1, <1>2, ActiveIsKept
<1>3. CASE LaunchClaude(c)
  <2>1. [at |-> "launched", n |-> c.n] \in Chain BY <1>1 DEF Chain, LaunchChain
  <2>2. {[at |-> "launched", n |-> c.n]} \in SUBSET Chain /\ {} \in SUBSET Chain BY <2>1
  <2> QED BY <1>2, <1>3, <2>2 DEF LaunchClaude
<1>4. CASE Discover(c)
  <2>1. \A p \in alive : p \in Procs BY DEF Shape
  <2>2. \A p \in alive : [at |-> "found", n |-> c.n, k |-> 1, pid |-> p] \in Chain
    BY <1>1, <2>1 DEF Chain, PidChain, Keys
  <2>3. [at |-> "lost", n |-> c.n, k |-> 1] \in Chain BY <1>1 DEF Chain, LostChain, Keys
  <2>4. \E next \in SUBSET Chain : Step(c, next)
    <3>1. CASE \E p \in alive : Step(c, {[at |-> "found", n |-> c.n, k |-> 1, pid |-> p]})
      BY <2>2, <3>1
    <3>2. CASE Step(c, {[at |-> "lost", n |-> c.n, k |-> 1]})
      BY <2>3, <3>2
    <3>3. CASE Step(c, {}) BY <3>3
    <3> QED BY <1>4, <3>1, <3>2, <3>3 DEF Discover
  <2> QED BY <1>2, <1>4, <2>4 DEF Discover
<1>5. CASE WaitForLog(c)
  <2>1. c.k \in Keys BY <1>5, ChainKinds DEF WaitForLog, PidChain
  <2>2. [at |-> "lost", n |-> c.n, k |-> c.k] \in Chain BY <1>1, <2>1 DEF Chain, LostChain
  <2> QED BY <1>2, <1>5, <2>2 DEF WaitForLog
<1>6. CASE ScanHome(c)
  <2>1. alive \ c.exclude \in SUBSET Procs BY DEF Shape
  <2>2. [at |-> "scanned", n |-> c.n, pids |-> alive \ c.exclude] \in Chain
    BY <1>1, <2>1 DEF Chain, ScannedChain
  <2> QED BY <1>2, <1>6, <2>2 DEF ScanHome
<1>7. CASE Drop(c) BY <1>2, <1>7 DEF Drop
<1> QED BY <1>3, <1>4, <1>5, <1>6, <1>7, LaunchedShape, FoundShape, LostShape, ScannedShape DEF Proceed

LEMMA ShapeStep ==
    ASSUME DesktopAgentAssumption, Shape, LockIsTracked, [AgentNext]_desktopVars
    PROVE  Shape' /\ LockIsTracked'
<1>1. CASE Press
  <2>1. pressed + 1 \in Launches BY <1>1 DEF Press, Shape, Launches, DesktopAgentAssumption
  <2>2. [at |-> "launch", n |-> pressed + 1] \in Chain BY <2>1 DEF Chain, LaunchChain
  <2>3. Shape' BY <1>1, <2>1, <2>2 DEF Press, Shape, Launches
  <2> QED BY <1>1, <2>3, ActiveIsKept DEF Press
<1>2. CASE Liveness BY <1>2, LivenessShape
<1>3. CASE Scan
  <2>1. \A e \in entries : e.key[1] \in Launches BY DEF Shape, EntryType
  <2>2. active \in Launches BY <1>3, <2>1 DEF Scan, ActiveEntries
  <2>3. Tracked \in SUBSET (Procs \cup {0}) BY DEF Shape, EntryType, Tracked
  <2>4. [at |-> "scan", n |-> active, exclude |-> Tracked] \in Chain
    BY <2>2, <2>3 DEF Chain, DiscoverChain
  <2>5. Shape' BY <1>3, <2>4 DEF Scan, Shape
  <2> QED BY <1>3, <2>5, ActiveIsKept DEF Scan
<1>4. CASE Restart
  <2>1. restarts' \in Nat BY <1>4 DEF Restart, Shape
  <2> QED BY <1>4, <2>1 DEF Restart, Shape, LockIsTracked
<1>5. ASSUME NEW c \in chains, Proceed(c) \/ Drop(c) PROVE Shape' /\ LockIsTracked'
  BY <1>5, ChainShape
<1>6. ASSUME NEW e \in entries, Kill(e) PROVE Shape' /\ LockIsTracked'
  <2>1. e.key[1] \in Launches /\ e.key[2] \in Keys BY DEF Shape, EntryType
  <2>2. [at |-> "lost", n |-> e.key[1], k |-> e.key[2]] \in Chain
    BY <2>1 DEF Chain, LostChain
  <2>3. Shape' BY <1>6, <2>2 DEF Kill, Shape
  <2> QED BY <1>6, <2>3, ActiveIsKept DEF Kill
<1>7. ASSUME NEW p \in Procs, Born(p) \/ Ends(p) PROVE Shape' /\ LockIsTracked'
  <2>1. Shape' BY <1>7 DEF Born, Ends, Shape
  <2> QED BY <1>7, <2>1, ActiveIsKept DEF Born, Ends
<1>8. CASE UNCHANGED desktopVars
  <2>1. Shape' BY <1>8 DEF desktopVars, Shape
  <2> QED BY <1>8, <2>1, ActiveIsKept DEF desktopVars
<1> QED BY <1>1, <1>2, <1>3, <1>4, <1>5, <1>6, <1>7, <1>8 DEF AgentNext

-----------------------------------------------------------------------------
(* The scans on their way *)

LEMMA FewerScans ==
    ASSUME DesktopAgentAssumption, ScanInv, Scans' \subseteq Scans
    PROVE  ScanInv'
<1>1. IsFiniteSet(Scans') /\ Cardinality(Scans') <= Cardinality(Scans)
  BY FS_Subset DEF ScanInv
<1>2. Cardinality(Scans) \in Nat /\ Cardinality(Scans') \in Nat
  BY <1>1, FS_CardinalityType DEF ScanInv
<1>3. MaxScans \in Nat BY DEF DesktopAgentAssumption
<1> QED BY <1>1, <1>2, <1>3 DEF ScanInv

\* A scan takes the place of another, or finds room.
LEMMA OneMoreScan ==
    ASSUME ScanInv, NEW gone \in SUBSET chains, NEW c, chains' = (chains \ gone) \cup {c},
           DesktopAgentAssumption,
           (\E d \in gone : d \in Scans) \/ Cardinality(Scans) < MaxScans
    PROVE  ScanInv'
<1> DEFINE left == Scans \ gone
<1>1. IsFiniteSet(left) /\ Cardinality(left) <= Cardinality(Scans)
      /\ (Cardinality(Scans) = Cardinality(left) => Scans = left)
  BY FS_Subset, left \in SUBSET Scans DEF ScanInv
<1>2. Cardinality(Scans) \in Nat /\ Cardinality(left) \in Nat /\ MaxScans \in Nat
  BY <1>1, FS_CardinalityType DEF ScanInv, DesktopAgentAssumption
<1>3. Cardinality(left) < MaxScans
  BY <1>1, <1>2 DEF ScanInv
<1>4. Scans' \subseteq left \cup {c}
  BY DEF Scans
<1> HIDE DEF left
<1>a. /\ IsFiniteSet(left \cup {c})
      /\ Cardinality(left \cup {c}) = IF c \in left THEN Cardinality(left) ELSE Cardinality(left) + 1
  BY <1>1, FS_AddElement
<1>5. IsFiniteSet(left \cup {c}) /\ Cardinality(left \cup {c}) <= Cardinality(left) + 1
  BY <1>2, <1>a
<1>6. IsFiniteSet(Scans') /\ Cardinality(Scans') <= Cardinality(left \cup {c})
  BY <1>4, <1>5, FS_Subset
<1>7. Cardinality(Scans') \in Nat /\ Cardinality(left \cup {c}) \in Nat
  BY <1>5, <1>6, FS_CardinalityType
<1> QED BY <1>2, <1>3, <1>5, <1>6, <1>7 DEF ScanInv

LEMMA ScanInit == ASSUME DesktopAgentAssumption, AgentInit PROVE ScanInv
<1>1. Scans = {} BY DEF AgentInit, Scans
<1> QED BY <1>1, FS_EmptySet DEF ScanInv, DesktopAgentAssumption

LEMMA ScanStep ==
    ASSUME DesktopAgentAssumption, ScanInv, [AgentNext]_desktopVars
    PROVE  ScanInv'
<1>1. CASE Press BY <1>1, FewerScans DEF Press, Scans
<1>2. CASE Scan
  <2>1. PICK c : chains' = chains \cup {c} BY <1>2 DEF Scan
  <2>2. chains' = (chains \ {}) \cup {c} /\ {} \in SUBSET chains BY <2>1
  <2> QED BY <1>2, <2>2, OneMoreScan DEF Scan
<1>3. CASE Restart BY <1>3, FewerScans DEF Restart, Scans
<1>4. ASSUME NEW c \in chains, ScanHome(c) PROVE ScanInv'
  <2>1. CASE chains' = chains \ {c} BY <2>1, FewerScans DEF Scans
  <2>2. CASE chains' = (chains \ {c}) \cup {[at |-> "scanned", n |-> c.n, pids |-> alive \ c.exclude]}
    <3>1. c \in Scans BY <1>4 DEF ScanHome, Scans
    <3> QED BY <2>2, <3>1, OneMoreScan, {c} \in SUBSET chains
  <2> QED BY <1>4, <2>1, <2>2 DEF ScanHome, Step
<1>5. ASSUME NEW c \in chains, Proceed(c) \/ Drop(c), ~ScanHome(c) PROVE ScanInv'
  <2>1. \A d \in chains' \ chains : d.at \in {"launched", "discover", "found", "lost", "wait"}
    <3>1. CASE LaunchClaude(c) BY <3>1 DEF LaunchClaude, Step
    <3>2. CASE Launched(c) BY <3>2 DEF Launched, Step
    <3>3. CASE Discover(c) BY <3>3 DEF Discover, Step
    <3>4. CASE SessionFound(c) BY <3>4 DEF SessionFound, Step
    <3>5. CASE WaitForLog(c) BY <3>5 DEF WaitForLog, Step
    <3>6. CASE Lost(c) BY <3>6 DEF Lost, Step
    <3>7. CASE Scanned(c)
      <4>1. \A n, k, p : WaitOf(n, k, p).at = "wait" BY DEF WaitOf
      <4>2. CASE Step(c, {}) BY <4>2 DEF Step
      <4>3. ASSUME NEW p, Step(c, {WaitOf(c.n, 1, p)})
            PROVE  \A d \in chains' \ chains : d.at = "wait"
        BY <4>1, <4>3 DEF Step
      <4>4. ASSUME NEW key, NEW new, Step(c, {WaitOf(c.n, key[p], p) : p \in new})
            PROVE  \A d \in chains' \ chains : d.at = "wait"
        BY <4>1, <4>4 DEF Step
      <4> QED BY <3>7, <4>2, <4>3, <4>4 DEF Scanned
    <3>8. CASE Drop(c) BY <3>8 DEF Drop, Step
    <3> QED BY <1>5, <3>1, <3>2, <3>3, <3>4, <3>5, <3>6, <3>7, <3>8 DEF Proceed
  <2> QED BY <2>1, FewerScans DEF Scans
<1>6. ASSUME NEW e \in entries, Kill(e) PROVE ScanInv'
  BY <1>6, FewerScans DEF Kill, Scans
<1>7. CASE \/ Liveness
           \/ \E p \in Procs : Born(p) \/ Ends(p)
           \/ UNCHANGED desktopVars
  <2>1. chains' = chains BY <1>7 DEF Liveness, Born, Ends, desktopVars
  <2> QED BY <2>1, FewerScans DEF Scans
<1> QED BY <1>1, <1>2, <1>3, <1>4, <1>5, <1>6, <1>7 DEF AgentNext

-----------------------------------------------------------------------------
(* One agent *)

Launching(c) == c.at \in {"launch", "launched"}

\* A chain goes on as another of its launch, and the entries stay, or more of its launch join.
LEMMA Onward ==
    ASSUME Shape, CalmInv, NEW c \in chains, ~Launching(c), NEW next, Step(c, next),
           \A d \in next : d.n = c.n /\ ~Launching(d) /\ ChainOK(d),
           UNCHANGED <<active, opening, alive, born, pressed>>,
           \A f \in entries' : /\ EntryOK(f)
                               /\ f.key[1] = pressed => \/ c.n = pressed
                                                        \/ \E e \in entries : e.key[1] = pressed,
           \A e \in entries : \E f \in entries' : f.key = e.key /\ f.own = e.own
    PROVE  CalmInv'
<1>1. chains' = (chains \ {c}) \cup next BY DEF Step
<1>2. LaunchInv'
  <2> SUFFICES ASSUME NEW l \in chains', Launching(l)
               PROVE  /\ l.n = pressed /\ active # pressed
                      /\ \A e \in entries' : e.key[1] # pressed
                      /\ \A d \in chains' : d.n = pressed => d = l
                      /\ l.at = "launch" => pressed \notin born \cup opening
    BY DEF LaunchInv, Launching
  <2>1. l \in chains /\ l # c BY <1>1
  <2>2. /\ l.n = pressed /\ active # pressed
        /\ \A e \in entries : e.key[1] # pressed
        /\ \A d \in chains : d.n = pressed => d = l
        /\ l.at = "launch" => pressed \notin born \cup opening
    BY <2>1 DEF CalmInv, LaunchInv, Launching
  <2>3. c.n # pressed BY <2>1, <2>2
  <2> QED BY <1>1, <2>2, <2>3
<1>3. ChainInv'
  <2>1. \A d \in chains' : ChainOK(d) BY <1>1 DEF CalmInv, ChainInv
  <2> QED BY <2>1 DEF ChainInv, ChainOK
<1>4. EntryInv' BY DEF EntryInv, EntryOK
<1>5. AloneInv'
  <2>1. \A d \in chains : d.at = "launched" => d \in chains' BY <1>1 DEF Launching
  <2> QED BY <2>1 DEF CalmInv, AloneInv
<1> QED BY <1>2, <1>3, <1>4, <1>5 DEF CalmInv

\* The same when the entries stay as they are.
LEMMA OnwardAlone ==
    ASSUME Shape, CalmInv, NEW c \in chains, ~Launching(c), NEW next, Step(c, next),
           \A d \in next : d.n = c.n /\ ~Launching(d) /\ ChainOK(d),
           UNCHANGED <<entries, active, opening, alive, born, pressed>>
    PROVE  CalmInv'
<1>1. \A f \in entries' : EntryOK(f) /\ (f.key[1] = pressed => \E e \in entries : e.key[1] = pressed)
  BY DEF CalmInv, EntryInv
<1>2. \A e \in entries : \E f \in entries' : f.key = e.key /\ f.own = e.own
  OBVIOUS
<1> QED BY <1>1, <1>2, Onward

LEMMA Numbers ==
    ASSUME DesktopAgentAssumption, Shape
    PROVE  /\ pressed \in Nat /\ MaxLaunches \in Nat /\ 0 \notin Launches /\ 0 \notin Procs
           /\ Launches \subseteq Nat /\ active \in Nat
           /\ \A e \in entries : e.key[1] \in Launches /\ e.key[1] \in Nat
           /\ 0 \notin alive /\ 0 \notin born
BY DEF DesktopAgentAssumption, Shape, Launches, Procs, EntryType

LEMMA PressCalm ==
    ASSUME DesktopAgentAssumption, Calm, Shape, LockIsTracked, CalmInv, Press
    PROVE  CalmInv'
<1> DEFINE l == [at |-> "launch", n |-> pressed + 1]
<1>1. \A e \in ActiveEntries : e.pid # 0 /\ e.pid \notin alive
  BY DEF Press, Unblocked
<1>2. \A c \in chains : c.at \in {"wait", "lost"}
  <2>1. ~Busy({"launch", "launched"}) /\ ~Busy({"discover", "found", "scan", "scanned"})
    BY <1>1 DEF Press, Calm
  <2> QED BY <2>1, ChainKinds DEF Busy, Chain, LaunchChain, DiscoverChain, PidChain, LostChain, ScannedChain
<1>3. alive = {} /\ opening = {}
  <2>1. ASSUME pressed \in alive \cup opening PROVE FALSE
    <3>1. PICK e \in entries : active = pressed /\ e.own /\ e.key[1] = pressed
      BY <1>2, <2>1 DEF CalmInv, AloneInv
    <3>2. e \in ActiveEntries BY <3>1 DEF ActiveEntries
    <3>3. e.pid # 0 /\ e.pid \notin alive BY <1>1, <3>2
    <3>4. e.pid = pressed /\ e.pid \in born BY <3>1, <3>3 DEF CalmInv, EntryInv, EntryOK
    <3> QED BY <2>1, <3>3, <3>4 DEF CalmInv, AloneInv
  <2> QED BY <2>1 DEF CalmInv, AloneInv
<1>4. active <= pressed
  <2>1. CASE active = 0 BY <2>1, Numbers
  <2>2. CASE active # 0
    <3>1. PICK e \in entries : e.key[1] = active BY <2>2 DEF LockIsTracked, ActiveEntries
    <3> QED BY <3>1 DEF CalmInv, EntryInv, EntryOK
  <2> QED BY <2>1, <2>2
<1>5. pressed' = pressed + 1 /\ chains' = chains \cup {l} /\ UNCHANGED <<entries, active, opening, alive, born>>
      /\ l.at = "launch" /\ l.n = pressed + 1
  BY DEF Press
<1> HIDE DEF l
<1>6. pressed \in Nat /\ active \in Nat /\ born \subseteq 1..pressed
  BY Numbers DEF CalmInv, AloneInv
<1>7. /\ \A c \in chains : c.n <= pressed /\ c.n \in Nat
      /\ \A e \in entries : e.key[1] <= pressed /\ e.key[1] \in Nat
  BY Numbers, ChainKinds DEF CalmInv, ChainInv, ChainOK, EntryInv, EntryOK
<1>8. LaunchInv'
  <2>1. /\ active # pressed + 1 /\ pressed + 1 \notin born
        /\ \A e \in entries : e.key[1] # pressed + 1
        /\ \A c \in chains : c.n # pressed + 1
    BY <1>4, <1>6, <1>7
  <2> QED BY <1>2, <1>3, <1>5, <2>1 DEF LaunchInv
<1>9. ChainInv'
  <2>1. \A c \in chains : ChainOK(c) BY DEF CalmInv, ChainInv
  <2>2. \A c \in chains : c.n <= pressed + 1 BY <1>6, <1>7
  <2>3. pressed + 1 <= pressed + 1 BY <1>6
  <2> QED BY <1>2, <1>5, <2>1, <2>2, <2>3 DEF ChainInv, ChainOK
<1>10. EntryInv'
  <2>1. \A e \in entries : EntryOK(e) BY DEF CalmInv, EntryInv
  <2>2. \A e \in entries : e.key[1] <= pressed + 1 BY <1>6, <1>7
  <2>3. \A e \in entries : ~(e.own /\ e.key[1] = active /\ e.pid = 0)
    BY <1>1 DEF ActiveEntries
  <2> QED BY <1>5, <2>1, <2>2, <2>3 DEF EntryInv, EntryOK
<1>11. AloneInv'
  <2>1. born \subseteq 1..(pressed + 1) BY <1>6
  <2> QED BY <1>3, <1>5, <2>1 DEF AloneInv
<1> QED BY <1>8, <1>9, <1>10, <1>11 DEF CalmInv

LEMMA LaunchClaudeCalm ==
    ASSUME Shape, CalmInv, NEW c \in chains, LaunchClaude(c)
    PROVE  CalmInv'
<1> DEFINE l == [at |-> "launched", n |-> c.n]
<1>1. /\ c.n = pressed /\ active # pressed
      /\ \A e \in entries : e.key[1] # pressed
      /\ \A d \in chains : d.n = pressed => d = c
      /\ pressed \notin born \cup opening /\ c.at = "launch"
  BY DEF LaunchClaude, CalmInv, LaunchInv
<1>2. UNCHANGED <<entries, active, alive, born, pressed>> BY DEF LaunchClaude
<1>3. pressed \notin alive BY <1>1 DEF Shape
<1>4. \/ opening' = opening \cup {pressed} /\ chains' = (chains \ {c}) \cup {l}
      \/ opening' = opening /\ chains' = chains \ {c}
  BY <1>1 DEF LaunchClaude, Step
<1>5. l.at = "launched" /\ l.n = pressed BY <1>1
<1> HIDE DEF l
<1>6. \A d \in chains \ {c} : d.n # pressed BY <1>1
<1>7. LaunchInv'
  <2>1. \A d \in chains \ {c} : ~Launching(d) BY <1>6 DEF CalmInv, LaunchInv, Launching
  <2> QED BY <1>1, <1>2, <1>4, <1>5, <1>6, <2>1 DEF LaunchInv, Launching
<1>8. ChainInv'
  <2>1. \A d \in chains : ChainOK(d) BY DEF CalmInv, ChainInv
  <2>2. opening' \subseteq opening \cup {pressed} BY <1>4
  <2>3. \A d \in chains \ {c} : ChainOK(d)' BY <1>2, <1>6, <2>1, <2>2 DEF ChainOK
  <2>4. pressed <= pressed BY <2>1, <1>1 DEF ChainOK
  <2>5. ChainOK(l)' BY <1>2, <1>5, <2>4 DEF ChainOK
  <2> QED BY <1>4, <2>3, <2>5 DEF ChainInv
<1>9. EntryInv'
  <2>1. opening' \subseteq opening \cup {pressed} BY <1>4
  <2> QED BY <1>1, <1>2, <2>1 DEF CalmInv, EntryInv, EntryOK
<1>10. AloneInv' BY <1>1, <1>2, <1>3, <1>4, <1>5 DEF CalmInv, AloneInv
<1> QED BY <1>7, <1>8, <1>9, <1>10 DEF CalmInv

LEMMA LaunchedCalm ==
    ASSUME DesktopAgentAssumption, Shape, CalmInv, NEW c \in chains, Launched(c)
    PROVE  CalmInv'
<1> DEFINE new == Entry(c.n, 1, TRUE, 0)
           next == [at |-> "discover", n |-> c.n, exclude |-> Tracked]
<1>1. /\ c.n = pressed /\ active # pressed
      /\ \A e \in entries : e.key[1] # pressed
      /\ \A d \in chains : d.n = pressed => d = c
  BY DEF Launched, CalmInv, LaunchInv
<1>2. entries' = (entries \ At(c.n, 1)) \cup {new} /\ active' = pressed
      /\ chains' = (chains \ {c}) \cup {next}
      /\ UNCHANGED <<opening, alive, born, pressed>>
  BY <1>1 DEF Launched, Step
<1>3. pressed \in Nat /\ pressed \in Launches /\ pressed # 0 BY <1>1, ChainKinds, Numbers
<1>4. pressed \notin Tracked
  BY <1>1, <1>3 DEF Tracked, CalmInv, EntryInv, EntryOK
<1>5. new.key[1] = pressed /\ new.own = TRUE /\ new.pid = 0 /\ new.state = "unknown"
  BY <1>1 DEF Entry
<1>6. next.at = "discover" /\ next.n = pressed /\ pressed \notin next.exclude
  BY <1>1, <1>4
<1> HIDE DEF new, next
<1>7. \A d \in chains \ {c} : d.n # pressed BY <1>1
<1>8. LaunchInv'
  <2>1. \A d \in chains \ {c} : ~Launching(d) BY <1>7 DEF CalmInv, LaunchInv, Launching
  <2> QED BY <1>2, <1>6, <2>1 DEF LaunchInv, Launching
<1>9. ChainInv'
  <2>1. \A d \in chains : ChainOK(d)' BY <1>2 DEF CalmInv, ChainInv, ChainOK
  <2>2. \A d : d = next => ChainOK(d)' BY <1>2, <1>3, <1>6 DEF ChainOK
  <2> QED BY <1>2, <2>1, <2>2 DEF ChainInv
<1>10. EntryInv'
  <2>1. \A e \in entries : EntryOK(e)' BY <1>1, <1>2 DEF CalmInv, EntryInv, EntryOK
  <2>2. EntryOK(new)' BY <1>2, <1>3, <1>5 DEF EntryOK
  <2> QED BY <1>2, <2>1, <2>2 DEF EntryInv
<1>11. AloneInv' BY <1>2, <1>5 DEF CalmInv, AloneInv
<1> QED BY <1>8, <1>9, <1>10, <1>11 DEF CalmInv

LEMMA SearchCalm ==
    ASSUME DesktopAgentAssumption, Calm, Shape, CalmInv, NEW c \in chains,
           Discover(c) \/ WaitForLog(c) \/ ScanHome(c)
    PROVE  CalmInv'
<1>1. UNCHANGED <<entries, active, opening, alive, born, pressed>> /\ ~Launching(c)
  BY DEF Discover, WaitForLog, ScanHome, Launching
<1>2. ChainOK(c) /\ c.n <= pressed BY DEF CalmInv, ChainInv, ChainOK
<1>3. alive \subseteq born /\ alive \subseteq {pressed} /\ opening \subseteq {pressed}
      /\ opening \cap born = {}
  BY DEF Shape, CalmInv, AloneInv
<1>4. CASE Discover(c)
  <2>1. c.n = pressed /\ pressed \notin c.exclude BY <1>2, <1>4 DEF Discover, ChainOK
  <2>2. ASSUME NEW p \in alive \ c.exclude,
               Step(c, {[at |-> "found", n |-> c.n, k |-> 1, pid |-> p]})
        PROVE  CalmInv'
    <3> DEFINE d == [at |-> "found", n |-> c.n, k |-> 1, pid |-> p]
    <3>1. d.n = c.n /\ d.at = "found" /\ d.pid = c.n /\ c.n \in born
      BY <1>3, <2>1
    <3> HIDE DEF d
    <3>2. ChainOK(d) /\ ~Launching(d) BY <1>2, <2>1, <3>1 DEF ChainOK, Launching
    <3>3. Step(c, {d}) BY <2>2 DEF d
    <3> QED BY <1>1, <3>1, <3>2, <3>3, OnwardAlone
  <2>3. ASSUME alive \ c.exclude = {}, c.n \notin opening,
               Step(c, {[at |-> "lost", n |-> c.n, k |-> 1]})
        PROVE  CalmInv'
    <3> DEFINE d == [at |-> "lost", n |-> c.n, k |-> 1]
    <3>1. d.n = c.n /\ d.at = "lost" /\ c.n \notin alive \cup opening
      BY <2>1, <2>3
    <3> HIDE DEF d
    <3>2. ChainOK(d) /\ ~Launching(d) BY <1>2, <3>1 DEF ChainOK, Launching
    <3>3. Step(c, {d}) BY <2>3 DEF d
    <3> QED BY <1>1, <3>1, <3>2, <3>3, OnwardAlone
  <2>4. CASE Step(c, {}) BY <1>1, <2>4, OnwardAlone
  <2>5. "late" \notin mishaps BY DEF Calm
  <2> QED BY <1>4, <2>2, <2>3, <2>4, <2>5 DEF Discover
<1>5. CASE WaitForLog(c)
  <2>1. CASE Step(c, {}) BY <1>1, <2>1, OnwardAlone
  <2>2. CASE c.pid \notin alive /\ Step(c, {[at |-> "lost", n |-> c.n, k |-> c.k]})
    <3> DEFINE d == [at |-> "lost", n |-> c.n, k |-> c.k]
    <3>1. c.pid = c.n /\ c.n \in born BY <1>2, <1>5 DEF WaitForLog, ChainOK
    <3>2. d.n = c.n /\ d.at = "lost" /\ c.n \notin alive \cup opening
      BY <1>3, <2>2, <3>1
    <3> HIDE DEF d
    <3>3. ChainOK(d) /\ ~Launching(d) BY <1>2, <3>2 DEF ChainOK, Launching
    <3>4. Step(c, {d}) BY <2>2 DEF d
    <3> QED BY <1>1, <3>2, <3>3, <3>4, OnwardAlone
  <2> QED BY <1>5, <2>1, <2>2 DEF WaitForLog
<1>6. CASE ScanHome(c)
  <2> DEFINE pids == alive \ c.exclude
             d == [at |-> "scanned", n |-> c.n, pids |-> pids]
  <2>1. CASE Step(c, {}) BY <1>1, <2>1, OnwardAlone
  <2>2. CASE Step(c, {d})
    <3>1. c.n = pressed BY <1>2, <1>6 DEF ScanHome, ChainOK
    <3>2. d.n = c.n /\ d.at = "scanned" /\ d.pids \subseteq {c.n} \cap born
      BY <1>3, <3>1
    <3> HIDE DEF d
    <3>3. ChainOK(d) /\ ~Launching(d) BY <1>2, <3>1, <3>2 DEF ChainOK, Launching
    <3> QED BY <1>1, <2>2, <3>2, <3>3, OnwardAlone
  <2> QED BY <1>6, <2>1, <2>2 DEF ScanHome
<1> QED BY <1>4, <1>5, <1>6

LEMMA FoundCalm ==
    ASSUME DesktopAgentAssumption, Shape, CalmInv, NEW c \in chains, SessionFound(c)
    PROVE  CalmInv'
<1> DEFINE Now(e) == IF e.key = <<c.n, c.k>> THEN [e EXCEPT !.pid = c.pid] ELSE e
           d == [at |-> "wait", n |-> c.n, k |-> c.k, pid |-> c.pid]
<1>1. c.n <= pressed /\ c.n = pressed /\ c.pid = c.n /\ c.n \in born /\ c.n # 0 /\ ~Launching(c)
  BY Numbers, ChainKinds DEF SessionFound, CalmInv, ChainInv, ChainOK, Launching
<1>2. \E next \in SUBSET {d} : Step(c, next) BY DEF SessionFound
<1>3. entries' = {Now(e) : e \in entries} /\ UNCHANGED <<active, opening, alive, born, pressed>>
  BY DEF SessionFound
<1>4. \A e \in entries : /\ Now(e).key = e.key /\ Now(e).own = e.own /\ Now(e).state = e.state
                         /\ Now(e).pid = e.pid \/ (Now(e).pid = c.n /\ e.key[1] = c.n)
  <2> TAKE e \in entries
  <2>1. e \in EntryType /\ c.pid \in Procs \cup {0} BY <1>1 DEF Shape
  <2> QED BY <1>1, <2>1, SameEntry
<1>5. d.at = "wait" /\ d.n = c.n /\ d.pid = c.n BY <1>1
<1> HIDE DEF Now, d
<1>6. ChainOK(d) /\ ~Launching(d) BY <1>1, <1>5 DEF ChainOK, Launching
<1>7. ASSUME NEW e \in entries PROVE EntryOK(Now(e))
  <2>1. EntryOK(e) BY DEF CalmInv, EntryInv
  <2>2. CASE Now(e).pid = e.pid BY <1>4, <2>1, <2>2 DEF EntryOK
  <2>3. CASE Now(e).pid = c.n /\ e.key[1] = c.n BY <1>1, <1>4, <2>1, <2>3 DEF EntryOK
  <2> QED BY <1>4, <2>2, <2>3
<1>8. \A f \in entries' : EntryOK(f) BY <1>3, <1>7
<1>9. \A e \in entries : \E f \in entries' : f.key = e.key /\ f.own = e.own BY <1>3, <1>4
<1>10. PICK next \in SUBSET {d} : Step(c, next) BY <1>2
<1>11. \A x \in next : x.n = c.n /\ ~Launching(x) /\ ChainOK(x) BY <1>5, <1>6
<1> QED BY <1>1, <1>3, <1>8, <1>9, <1>10, <1>11, Onward

LEMMA LostCalm ==
    ASSUME DesktopAgentAssumption, Shape, CalmInv, NEW c \in chains, Lost(c)
    PROVE  CalmInv'
<1> DEFINE Now(e) == IF e.key = <<c.n, c.k>> THEN [e EXCEPT !.state = "ended"] ELSE e
<1>1. c.n \notin alive \cup opening /\ ~Launching(c)
  BY DEF Lost, CalmInv, ChainInv, ChainOK, Launching
<1>2. entries' = {Now(e) : e \in entries} /\ UNCHANGED <<active, opening, alive, born, pressed>>
      /\ Step(c, {})
  BY DEF Lost
<1>3. \A e \in entries : /\ Now(e).key = e.key /\ Now(e).own = e.own /\ Now(e).pid = e.pid
                         /\ Now(e).state = e.state \/ e.key[1] = c.n
  BY SameEntry DEF Shape
<1> HIDE DEF Now
<1>4. ASSUME NEW e \in entries PROVE EntryOK(Now(e))
  <2>1. EntryOK(e) BY DEF CalmInv, EntryInv
  <2> QED BY <1>1, <1>3, <2>1 DEF EntryOK
<1>5. \A f \in entries' : EntryOK(f) /\ (f.key[1] = pressed => \E e \in entries : e.key[1] = pressed)
  BY <1>2, <1>3, <1>4
<1>6. \A e \in entries : \E f \in entries' : f.key = e.key /\ f.own = e.own BY <1>2, <1>3
<1> QED BY <1>1, <1>2, <1>5, <1>6, Onward

LEMMA ScannedCalm ==
    ASSUME DesktopAgentAssumption, Shape, CalmInv, NEW c \in chains, Scanned(c)
    PROVE  CalmInv'
<1> DEFINE new == c.pids \ Tracked
           waiting == {e \in entries : e.pid = 0}
           ours == {e \in waiting : e.key = <<c.n, 1>>}
<1>1. c.n \in Nat /\ c.n \in Launches /\ c.n <= pressed /\ c.n = pressed /\ c.n # 0
      /\ c.pids \subseteq {c.n} \cap born /\ ~Launching(c)
  BY Numbers, ChainKinds DEF Scanned, CalmInv, ChainInv, ChainOK, Launching
<1>2. UNCHANGED <<active, opening, alive, born, pressed>> BY DEF Scanned
<1>3. CASE Step(c, {}) /\ UNCHANGED entries BY <1>1, <1>2, <1>3, OnwardAlone
<1>4. \A k, p : WaitOf(c.n, k, p).at = "wait" /\ WaitOf(c.n, k, p).n = c.n /\ WaitOf(c.n, k, p).pid = p
  BY DEF WaitOf
<1>5. \A k, p : p \in new => ChainOK(WaitOf(c.n, k, p)) /\ ~Launching(WaitOf(c.n, k, p))
  <2> SUFFICES ASSUME NEW k, NEW p \in new
               PROVE  ChainOK(WaitOf(c.n, k, p)) /\ ~Launching(WaitOf(c.n, k, p))
    OBVIOUS
  <2> DEFINE w == WaitOf(c.n, k, p)
  <2>1. w.at = "wait" /\ w.n = c.n /\ w.pid = c.n /\ c.n \in born BY <1>1, <1>4
  <2> HIDE DEF w
  <2>2. ChainOK(w) /\ ~Launching(w) BY <1>1, <2>1 DEF ChainOK, Launching
  <2> QED BY <2>2 DEF w
<1>6. ASSUME NEW e \in ours, NEW p \in new,
             entries' = (entries \ ours) \cup {[e EXCEPT !.pid = p]},
             Step(c, {WaitOf(c.n, 1, p)})
      PROVE  CalmInv'
  <2> DEFINE filled == [e EXCEPT !.pid = p]
  <2>1. e \in entries /\ e.key = <<c.n, 1>> /\ p = c.n /\ p \in born /\ p \in Procs
    BY <1>1 DEF Shape
  <2>2. filled.key = <<c.n, 1>> /\ filled.own = e.own /\ filled.pid = c.n /\ filled.state = e.state
    BY <2>1, SameEntry DEF Shape
  <2>3. \A f \in entries : f \in ours => f = e BY <2>1 DEF Shape
  <2>4. entries' = (entries \ {e}) \cup {filled} BY <1>6, <2>1, <2>3
  <2> HIDE DEF filled, new, ours
  <2>5. EntryOK(e) BY <2>1 DEF CalmInv, EntryInv
  <2>6. EntryOK(filled) BY <1>1, <2>1, <2>2, <2>5 DEF EntryOK
  <2>7. \A f \in entries' : EntryOK(f) BY <2>4, <2>6 DEF CalmInv, EntryInv
  <2>8. \A g \in entries : \E f \in entries' : f.key = g.key /\ f.own = g.own
    BY <2>1, <2>2, <2>4
  <2>9. \A d \in {WaitOf(c.n, 1, p)} : d.n = c.n /\ ~Launching(d) /\ ChainOK(d)
    BY <1>4, <1>5
  <2> QED BY <1>1, <1>2, <1>6, <2>7, <2>8, <2>9, Onward
<1>7. ASSUME NEW key \in Attached(c.n, new),
             entries' = entries \cup {Entry(c.n, key[p], FALSE, p) : p \in new},
             Step(c, {WaitOf(c.n, key[p], p) : p \in new})
      PROVE  CalmInv'
  <2>1. ASSUME NEW p \in new PROVE EntryOK(Entry(c.n, key[p], FALSE, p))
    <3> DEFINE f == Entry(c.n, key[p], FALSE, p)
    <3>1. p = c.n /\ c.n \in born BY <1>1
    <3>2. f.key[1] = c.n /\ f.own = FALSE /\ f.pid = c.n /\ f.state = "unknown"
      BY <3>1 DEF Entry
    <3> HIDE DEF f
    <3>3. EntryOK(f) BY <1>1, <3>1, <3>2 DEF EntryOK
    <3> QED BY <3>3 DEF f
  <2> HIDE DEF new
  <2>2. \A f \in entries' : EntryOK(f) BY <1>7, <2>1 DEF CalmInv, EntryInv
  <2>3. \A e \in entries : \E f \in entries' : f.key = e.key /\ f.own = e.own BY <1>7
  <2>4. \A d \in {WaitOf(c.n, key[p], p) : p \in new} : d.n = c.n /\ ~Launching(d) /\ ChainOK(d)
    BY <1>4, <1>5
  <2> QED BY <1>1, <1>2, <1>7, <2>2, <2>3, <2>4, Onward
<1> QED BY <1>3, <1>6, <1>7 DEF Scanned

LEMMA KillCalm ==
    ASSUME DesktopAgentAssumption, Shape, CalmInv, NEW e \in entries, Kill(e)
    PROVE  CalmInv'
<1> DEFINE l == [at |-> "lost", n |-> e.key[1], k |-> e.key[2]]
<1>1. EntryOK(e) /\ e.pid \in alive /\ alive \subseteq born /\ alive \subseteq {pressed}
      /\ opening \cap born = {}
  BY DEF Kill, CalmInv, EntryInv, AloneInv, Shape
<1>2. e.key[1] = pressed /\ e.pid = pressed /\ pressed \notin opening /\ pressed \in Nat
  BY <1>1, Numbers DEF EntryOK
<1>3. alive' = alive \ {pressed} /\ chains' = chains \cup {l}
      /\ UNCHANGED <<entries, active, opening, born, pressed>>
  BY <1>2 DEF Kill
<1>4. l.at = "lost" /\ l.n = pressed BY <1>2
<1> HIDE DEF l
<1>5. \A d \in chains : ~Launching(d) BY <1>2 DEF CalmInv, LaunchInv, Launching
<1>6. LaunchInv' BY <1>3, <1>4, <1>5 DEF LaunchInv, Launching
<1>7. ChainInv'
  <2>1. \A d \in chains : ChainOK(d)' BY <1>3 DEF CalmInv, ChainInv, ChainOK
  <2>2. pressed <= pressed BY <1>2
  <2>3. \A d : d = l => ChainOK(d)' BY <1>2, <1>3, <1>4, <2>2 DEF ChainOK
  <2> QED BY <1>3, <2>1, <2>3 DEF ChainInv
<1>8. EntryInv' BY <1>3 DEF CalmInv, EntryInv, EntryOK
<1>9. AloneInv' BY <1>3 DEF CalmInv, AloneInv
<1> QED BY <1>6, <1>7, <1>8, <1>9 DEF CalmInv

LEMMA LivenessCalm ==
    ASSUME DesktopAgentAssumption, Shape, CalmInv, Liveness
    PROVE  CalmInv'
<1>1. PICK ended \in SUBSET {e \in entries : e.state = "ended"} :
              /\ entries' = {Checked(e) : e \in entries \ ended}
              /\ active' = IF \E e \in entries' : e.own /\ e.key[1] = active /\ e.state # "ended"
                           THEN active ELSE 0
              /\ UNCHANGED <<opening, alive, born, chains, pressed, restarts>>
  BY LivenessSteps
<1>2. \A e \in entries : /\ Checked(e).key = e.key /\ Checked(e).own = e.own
                         /\ Checked(e).pid = e.pid
                         /\ Checked(e).state = "ended"
                              <=> e.state = "ended" \/ (e.pid # 0 /\ e.pid \notin alive)
  BY CheckedFields
<1>3. active' \in {active, 0} BY <1>1
<1>4. \A e \in entries : EntryOK(e) BY DEF CalmInv, EntryInv
<1>5. opening \cap born = {} /\ alive \cup opening \subseteq {pressed} BY DEF CalmInv, AloneInv
<1>6. LaunchInv'
  <2>1. \A c \in chains : Launching(c) => pressed # 0 /\ active # pressed
    BY Numbers, ChainKinds DEF CalmInv, LaunchInv, Launching
  <2>2. \A c \in chains : Launching(c) => active' # pressed BY <1>3, <2>1
  <2> QED BY <1>1, <1>2, <2>2 DEF CalmInv, LaunchInv, Launching
<1>7. ChainInv' BY <1>1 DEF CalmInv, ChainInv, ChainOK
<1>8. EntryInv'
  <2>1. ASSUME NEW e \in entries, NEW f, f = Checked(e) PROVE EntryOK(f)'
    <3>1. f.key = e.key /\ f.own = e.own /\ f.pid = e.pid BY <1>2, <2>1
    <3>2. f.key[1] <= pressed /\ f.pid \in {0, f.key[1]} /\ (f.pid # 0 => f.pid \in born)
      BY <1>4, <3>1 DEF EntryOK
    <3>3. f.state = "ended" => f.key[1] \notin alive \cup opening
      BY <1>2, <1>4, <1>5, <2>1, <3>1 DEF EntryOK
    <3>4. f.own /\ f.key[1] = active' /\ f.pid = 0 => active' = pressed
      BY <1>3, <1>4, <3>1, Numbers DEF EntryOK
    <3> QED BY <1>1, <3>2, <3>3, <3>4 DEF EntryOK
  <2> QED BY <1>1, <2>1 DEF EntryInv
<1>9. AloneInv'
  <2>1. ASSUME pressed \in alive \cup opening, ~\E c \in chains : c.at = "launched"
        PROVE  active' = pressed /\ \E f \in entries' : f.own /\ f.key[1] = pressed
    <3>1. PICK e \in entries : active = pressed /\ e.own /\ e.key[1] = pressed
      BY <2>1 DEF CalmInv, AloneInv
    <3>2. e.state # "ended" BY <1>4, <2>1, <3>1 DEF EntryOK
    <3>3. e.pid # 0 => e.pid \in alive
      BY <1>4, <1>5, <2>1, <3>1 DEF EntryOK
    <3>4. Checked(e) \in entries' BY <1>1, <3>2
    <3>5. Checked(e).own /\ Checked(e).key[1] = active /\ Checked(e).state # "ended"
      BY <1>2, <3>1, <3>2, <3>3
    <3> QED BY <1>1, <3>1, <3>4, <3>5
  <2> QED BY <1>1, <2>1 DEF CalmInv, AloneInv
<1> QED BY <1>6, <1>7, <1>8, <1>9 DEF CalmInv

LEMMA ScanCalm ==
    ASSUME DesktopAgentAssumption, Shape, CalmInv, Scan
    PROVE  CalmInv'
<1> DEFINE s == [at |-> "scan", n |-> active, exclude |-> Tracked]
<1>1. PICK e \in entries : e.own /\ e.key[1] = active /\ e.pid = 0
  BY DEF Scan, ActiveEntries
<1>2. active = pressed /\ pressed \in Nat /\ pressed <= pressed
  BY <1>1, Numbers DEF CalmInv, EntryInv, EntryOK
<1>3. chains' = chains \cup {s} /\ UNCHANGED <<entries, active, opening, alive, born, pressed>>
  BY DEF Scan
<1>4. s.at = "scan" /\ s.n = pressed BY <1>2
<1> HIDE DEF s
<1>5. \A d \in chains : ~Launching(d) BY <1>2 DEF CalmInv, LaunchInv, Launching
<1>6. LaunchInv' BY <1>3, <1>4, <1>5 DEF LaunchInv, Launching
<1>7. ChainInv'
  <2>1. \A d \in chains : ChainOK(d)' BY <1>3 DEF CalmInv, ChainInv, ChainOK
  <2>2. \A d : d = s => ChainOK(d)' BY <1>2, <1>3, <1>4 DEF ChainOK
  <2> QED BY <1>3, <2>1, <2>2 DEF ChainInv
<1>8. EntryInv' BY <1>3 DEF CalmInv, EntryInv, EntryOK
<1>9. AloneInv' BY <1>3 DEF CalmInv, AloneInv
<1> QED BY <1>6, <1>7, <1>8, <1>9 DEF CalmInv

LEMMA BornCalm ==
    ASSUME DesktopAgentAssumption, Calm, Shape, CalmInv, NEW p \in Procs, Born(p)
    PROVE  CalmInv'
<1>1. p \in Launches BY DEF Calm, Born, Procs, Launches, DesktopAgentAssumption
<1>2. p \in opening /\ p = pressed /\ p \notin born BY <1>1 DEF Born, CalmInv, AloneInv
<1>3. opening' = opening \ {pressed} /\ alive' = alive \cup {pressed} /\ born' = born \cup {pressed}
      /\ UNCHANGED <<entries, active, chains, pressed>>
  BY <1>2 DEF Born
<1>4. alive' \cup opening' = alive \cup opening BY <1>2, <1>3
<1>5. LaunchInv' BY <1>2, <1>3 DEF CalmInv, LaunchInv
<1>6. ChainInv' BY <1>3, <1>4 DEF CalmInv, ChainInv, ChainOK
<1>7. EntryInv' BY <1>3, <1>4 DEF CalmInv, EntryInv, EntryOK
<1>8. AloneInv'
  <2>1. pressed \in 1..pressed BY <1>1, <1>2 DEF Launches, DesktopAgentAssumption
  <2> QED BY <1>2, <1>3, <1>4, <2>1 DEF CalmInv, AloneInv
<1> QED BY <1>5, <1>6, <1>7, <1>8 DEF CalmInv

LEMMA EndsCalm ==
    ASSUME CalmInv, NEW p \in Procs, Ends(p)
    PROVE  CalmInv'
<1>1. alive' \subseteq alive /\ opening' \subseteq opening
      /\ UNCHANGED <<entries, active, born, chains, pressed>>
  BY DEF Ends
<1>2. LaunchInv' BY <1>1 DEF CalmInv, LaunchInv
<1>3. ChainInv' BY <1>1 DEF CalmInv, ChainInv, ChainOK
<1>4. EntryInv' BY <1>1 DEF CalmInv, EntryInv, EntryOK
<1>5. AloneInv' BY <1>1 DEF CalmInv, AloneInv
<1> QED BY <1>2, <1>3, <1>4, <1>5 DEF CalmInv

LEMMA CalmInit == ASSUME AgentInit PROVE CalmInv
BY DEF AgentInit, CalmInv, LaunchInv, ChainInv, EntryInv, AloneInv

LEMMA CalmStep ==
    ASSUME DesktopAgentAssumption, Calm, Shape, LockIsTracked, CalmInv, [AgentNext]_desktopVars
    PROVE  CalmInv'
<1>1. ~Restart BY DEF Restart, Calm, Shape
<1>2. ASSUME NEW c \in chains, Proceed(c) \/ Drop(c) PROVE CalmInv'
  <2>1. ~Drop(c) BY DEF Drop, Calm
  <2> QED BY <1>2, <2>1, LaunchClaudeCalm, LaunchedCalm, SearchCalm, FoundCalm, LostCalm, ScannedCalm
      DEF Proceed
<1>3. CASE UNCHANGED desktopVars
  BY <1>3 DEF desktopVars, CalmInv, LaunchInv, ChainInv, ChainOK, EntryInv, EntryOK, AloneInv
<1> QED BY <1>1, <1>2, <1>3, PressCalm, LivenessCalm, ScanCalm, KillCalm, BornCalm, EndsCalm DEF AgentNext

LEMMA OnlyOneHere == ASSUME CalmInv PROVE OnlyOne
<1>1. (alive \cup opening) \cap Launches \in SUBSET {pressed} BY DEF CalmInv, AloneInv
<1>2. IsFiniteSet({pressed}) /\ Cardinality({pressed}) = 1 BY FS_Singleton
<1>3. Cardinality((alive \cup opening) \cap Launches) <= Cardinality({pressed})
  BY <1>1, <1>2, FS_Subset
<1> QED BY <1>2, <1>3 DEF OnlyOne

\* Only a launch and the liveness check write the lock.
LEMMA LockStep ==
    ASSUME DesktopAgentAssumption, Calm, Shape, LockIsTracked, CalmInv, [AgentNext]_desktopVars
    PROVE  [LockHeld]_desktopVars
<1> SUFFICES ASSUME active # 0, active \in alive, active \in alive' PROVE active' # 0
  BY DEF LockHeld
<1>1. CASE active' = active BY <1>1
<1>2. ASSUME NEW c \in chains, Launched(c) PROVE active' # 0
  BY <1>2, ChainKinds, Numbers DEF Launched
<1>3. CASE Liveness
  <2>1. PICK ended \in SUBSET {e \in entries : e.state = "ended"} :
              /\ entries' = {Checked(e) : e \in entries \ ended}
              /\ active' = IF \E e \in entries' : e.own /\ e.key[1] = active /\ e.state # "ended"
                           THEN active ELSE 0
    BY <1>3, LivenessSteps
  <2>2. PICK e \in entries : e.own /\ e.key[1] = active BY DEF LockIsTracked, ActiveEntries
  <2>3. e.state # "ended" /\ e.pid \in {0, active} BY <2>2 DEF CalmInv, EntryInv, EntryOK
  <2>4. Checked(e) \in entries' BY <2>1, <2>3
  <2>5. Checked(e).own /\ Checked(e).key[1] = active /\ Checked(e).state # "ended"
    BY <2>2, <2>3, CheckedFields
  <2> QED BY <2>1, <2>4, <2>5
<1>4. ~Restart BY DEF Restart, Calm, Shape
<1>5. CASE Press \/ Scan \/ UNCHANGED desktopVars BY <1>1, <1>5 DEF Press, Scan, desktopVars
<1>6. ASSUME NEW c \in chains, Proceed(c) \/ Drop(c), ~Launched(c) PROVE active' = active
  BY <1>6 DEF Proceed, Drop, LaunchClaude, Discover, SessionFound, WaitForLog, Lost, ScanHome, Scanned
<1>7. CASE (\E e \in entries : Kill(e)) \/ \E p \in Procs : Born(p) \/ Ends(p)
  BY <1>1, <1>7 DEF Kill, Born, Ends
<1> QED BY <1>1, <1>2, <1>3, <1>4, <1>5, <1>6, <1>7 DEF AgentNext

-----------------------------------------------------------------------------
(* Theorems *)

\* What happens of Mishaps is chosen once.
LEMMA RigidMishaps == ASSUME [AgentNext]_desktopVars PROVE Calm' = Calm
<1>1. mishaps' = mishaps BY DEF AgentNext, desktopVars
<1> QED BY <1>1 DEF Calm

\* Whatever is hasty, slow, late, dropped or unreadable, and over restarts of the program:
\* one entry per key, the launch's own under its first, and no more scans on their way
\* than the bound (activeTerminals, nextTrackingKey).
THEOREM AgentTyped == ASSUME DesktopAgentAssumption PROVE AgentSpec => []AgentTypeOK
<1> DEFINE Inv == Shape /\ LockIsTracked /\ ScanInv
<1>1. AgentInit => Inv BY ShapeInit, ScanInit
<1>2. Inv /\ [AgentNext]_desktopVars => Inv' BY ShapeStep, ScanStep
<1>3. Inv => AgentTypeOK
  <2>1. Shape => active \in 0..MaxLaunches
    BY DEF Shape, Launches, DesktopAgentAssumption
  <2>2. Shape => \A e, f \in entries : e # f => e.key # f.key BY DEF Shape
  <2> QED BY <2>1, <2>2 DEF AgentTypeOK, Shape, ScanInv
<1> QED BY <1>1, <1>2, <1>3, PTL DEF AgentSpec

\* The lock always belongs to an entry of the list, whatever fails: the list loses the entry
\* and the lock goes in the same check, so [w] cannot be locked out for good
\* (checkSessionLiveness, handleDesktopAgentLaunched).
THEOREM LockTracked == ASSUME DesktopAgentAssumption PROVE AgentSpec => []LockIsTracked
<1>1. AgentInit => Shape /\ LockIsTracked BY ShapeInit
<1>2. Shape /\ LockIsTracked /\ [AgentNext]_desktopVars => (Shape /\ LockIsTracked)' BY ShapeStep
<1> QED BY <1>1, <1>2, PTL DEF AgentSpec

\* Of the agents [w] launched at most one lives or comes up, when nothing overtakes a launch
\* and its search: the guard looks at one entry only, and counts it as stale when its process
\* is dead (evaluateDesktopLaunchGuards).  The entry of a launch then follows the process of
\* that launch, though the search only knows which processes were tracked at its start
\* (startWatcherDirCmd, handleSessionFound).
THEOREM OneAgentLives ==
    ASSUME DesktopAgentAssumption PROVE AgentSpec => [](Calm => OnlyOne /\ FollowsOwn)
<1> DEFINE Inv == Shape /\ LockIsTracked /\ (Calm => CalmInv)
<1>1. AgentInit => Inv BY ShapeInit, CalmInit
<1>2. Inv /\ [AgentNext]_desktopVars => Inv' BY RigidMishaps, ShapeStep, CalmStep
<1>3. Inv => (Calm => OnlyOne /\ FollowsOwn)
  BY OnlyOneHere DEF CalmInv, EntryInv, EntryOK, FollowsOwn
<1> QED BY <1>1, <1>2, <1>3, PTL DEF AgentSpec

\* The parts together, for any number of launches, processes, scans and restarts
\* (launchDesktopAgent, activeDesktopAgent).
THEOREM OneDesktopAgentHolds ==
    ASSUME DesktopAgentAssumption PROVE AgentSpec => []OneDesktopAgent
BY AgentTyped, LockTracked, OneAgentLives, PTL DEF OneDesktopAgent

\* And the liveness check never takes the lock of a live agent (checkSessionLiveness).
THEOREM LockIsHeld == ASSUME DesktopAgentAssumption PROVE AgentSpec => HeldWhileAlive
<1> DEFINE Inv == Shape /\ LockIsTracked /\ (Calm => CalmInv)
<1>1. AgentInit => Inv BY ShapeInit, CalmInit
<1>2. Inv /\ [AgentNext]_desktopVars => Inv' BY RigidMishaps, ShapeStep, CalmStep
<1>3. Inv /\ [AgentNext]_desktopVars => [Calm => LockHeld]_desktopVars BY LockStep
<1> QED BY <1>1, <1>2, <1>3, PTL DEF AgentSpec, HeldWhileAlive

=============================================================================
