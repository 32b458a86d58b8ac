----------------------------- MODULE DesktopPolicy -----------------------------
(***************************************************************************)
(* The policy of the desktop agent (internal/desktop/policy.go): profile   *)
(* presets, overrides of the user's file, and what a policy permits.  The  *)
(* lists of tools and keys of the code are constants; what is assumed of   *)
(* them is what the lists in policy.go satisfy.                            *)
(***************************************************************************)
EXTENDS Naturals

CONSTANTS
    Tools,                  \* names of tools, of upstream and of requests
    DefaultAllowedTools, DefaultDeniedTools, ReadOnlyTools,
    StandardExtra,          \* standardAllowedToolsExtra
    NoneScriptExtra,        \* noneScriptAllowedToolsExtra
    Texts,                  \* "text" arguments of key and hold_key
    DefaultDenyKeys, LockoutKeys,
    Trips,                  \* Trips[k]: the texts that contain deny_keys entry k
    Apps                    \* "target_app" arguments; NoApp when there is none

WildcardTool == "*"
NoApp == "none"
KeyTools == {"key", "hold_key"}
KeyboardTools == KeyTools \cup {"type", "set_value", "fill_form"}
Focus == {"strict", "best_effort", "none", "prepare_display"}

ASSUME PolicyAssumption ==
    /\ WildcardTool \notin Tools
    /\ ReadOnlyTools \subseteq DefaultAllowedTools \ KeyboardTools
    /\ DefaultAllowedTools \cup DefaultDeniedTools \subseteq Tools
    /\ DefaultAllowedTools \cap DefaultDeniedTools = {}
    /\ "run_script" \in DefaultDeniedTools \ (StandardExtra \cup NoneScriptExtra)
    /\ StandardExtra \cup NoneScriptExtra \subseteq DefaultDeniedTools
    /\ StandardExtra \cap NoneScriptExtra = {}
    /\ LockoutKeys \subseteq DefaultDenyKeys \ {"alt+f4"}
    /\ Trips \in [DefaultDenyKeys -> SUBSET Texts]
    /\ NoApp \notin Apps

Policy == [allowed : SUBSET (Tools \cup {WildcardTool}), denied : SUBSET Tools,
           bundles : SUBSET Apps, denyKeys : SUBSET DefaultDenyKeys,
           runScript : BOOLEAN, focus : Focus \cup {"typo"}]
Fields == {"allowed", "denied", "bundles", "denyKeys", "runScript", "focus"}

-----------------------------------------------------------------------------
(* Presets *)

Profiles == {"read-only", "strict", "standard", "none-script", "trusted"}

\* Bug for comparison: the keys of none-script are those of strict.
NoneScriptAllKeys == DefaultDenyKeys
NoneScriptDenyKeys == LockoutKeys

StandardDenied == DefaultDeniedTools \ StandardExtra

Preset(profile) ==
    CASE profile = "read-only" ->
           [allowed |-> ReadOnlyTools, denied |-> DefaultDeniedTools, bundles |-> {},
            denyKeys |-> {}, runScript |-> FALSE, focus |-> "strict"]
      [] profile = "strict" ->
           [allowed |-> DefaultAllowedTools, denied |-> DefaultDeniedTools, bundles |-> {},
            denyKeys |-> DefaultDenyKeys, runScript |-> FALSE, focus |-> "strict"]
      [] profile = "standard" ->
           [allowed |-> DefaultAllowedTools \cup StandardExtra, denied |-> StandardDenied,
            bundles |-> {}, denyKeys |-> DefaultDenyKeys \ {"alt+f4"},
            runScript |-> FALSE, focus |-> "strict"]
      [] profile = "none-script" ->
           [allowed |-> DefaultAllowedTools \cup StandardExtra \cup NoneScriptExtra,
            denied |-> StandardDenied \ NoneScriptExtra, bundles |-> {},
            denyKeys |-> NoneScriptDenyKeys, runScript |-> FALSE, focus |-> "best_effort"]
      [] profile = "trusted" ->
           [allowed |-> {WildcardTool}, denied |-> {}, bundles |-> {}, denyKeys |-> {},
            runScript |-> TRUE, focus |-> "none"]

\* A policy file: its profile, which need not be one, and the fields it defines.
\* Bug for comparison: the template still has the default of before.
TemplateStrict == [is |-> "toml", profile |-> "strict", over |-> <<>>]
Template == [is |-> "toml", profile |-> "standard", over |-> <<>>]
NoFile == [is |-> "absent", profile |-> "", over |-> <<>>]
Malformed == [is |-> "malformed", profile |-> "", over |-> <<>>]

\* A missing or unknown profile is taken for standard.
Base(file) == IF file.profile \in Profiles THEN file.profile ELSE "standard"

\* What a file that is there resolves to: what it defines overrides the preset.
Resolved(file) ==
    [f \in Fields |-> IF f \in DOMAIN file.over THEN file.over[f] ELSE Preset(Base(file))[f]]

DefaultPolicy == Preset("standard")
LoadPolicy(file) == IF file.is = "absent" THEN DefaultPolicy ELSE Resolved(file)

\* Bug for comparison: any strategy that is not empty is taken.
ValidIfSet(policy) == policy.focus # ""
Valid(policy) == policy.focus \in Focus

-----------------------------------------------------------------------------
(* What a policy permits *)

IsToolDenied(policy, tool) == tool \in policy.denied
IsToolAllowed(policy, tool) == tool \in policy.allowed \/ WildcardTool \in policy.allowed
MatchesDenyKey(policy, text) == \E k \in policy.denyKeys : text \in Trips[k]
IsBundleAllowed(policy, app) == policy.bundles = {} \/ app \in policy.bundles

\* The checks of a call that need only its tool, denial first.
ToolPasses(policy, tool) ==
    /\ ~IsToolDenied(policy, tool)
    /\ IsToolAllowed(policy, tool)
    /\ tool = "run_script" => policy.runScript

\* All checks of handleToolsCall.
Permits(policy, call) ==
    /\ ToolPasses(policy, call.tool)
    /\ call.tool \in KeyTools => ~MatchesDenyKey(policy, call.text)
    /\ call.app # NoApp => IsBundleAllowed(policy, call.app)

\* filterToolsList: the names agents get to see.
Shown(policy, tools) ==
    {t \in tools : t \notin policy.denied
                   /\ (WildcardTool \in policy.allowed \/ t \in policy.allowed)}

===============================================================================
