------------------------------ MODULE Rollout -------------------------------
(***************************************************************************)
(* Decisions while the configuration file is edited and reloaded, labels    *)
(* are added and the daemon restarts (daemon.py: run, App, maybe_reload,    *)
(* refresh_guardrail; pipeline.py: Context, Guardrail, process, decide,     *)
(* replay; config.py: load_config).                                        *)
(***************************************************************************)
EXTENDS Policy, FiniteSets

CONSTANTS
    Event,
    Written,             \* contents the operator may write
    Outcome,             \* answers Jev may give, and NoAnswer
    LabelValue,          \* what a label may say: "critical", "other"
    MaxEdits,            \* bound on the edits of the file
    MinLabels,           \* policy.min_labels_for_drop
    MinCritical,         \* policy.min_critical_labels_for_drop
    EditsWhileStarting,  \* may the file change between load_config and stat?
    Nothing              \* no verdict, no candidate, no context of its own

(* A content of the file: what it configures, whether it can be read, and a *)
(* number for all that a reload cannot change (restart_scope).             *)
Content == [read : {"valid", "invalid", "undecodable"}, scope : Nat, config : Config]

(* Labels a guardrail was computed from, contexts, recorded decisions.     *)
Labels == [Event -> {"none", "critical", "other", "early"}]
Context == [content : Content, labels : Labels, ok : BOOLEAN]
Verdict ==
    [outcome : Answers \cup {NoAnswer}, rule : BOOLEAN, route : Route \cup {"SHADOW"}]

ASSUME RolloutAssumption ==
    /\ Written \subseteq Content
    /\ Outcome \subseteq Answers \cup {NoAnswer}
    /\ NoAnswer \in Outcome /\ NoAnswer \notin Answers
    /\ LabelValue \subseteq {"critical", "other"}
    /\ MaxEdits \in Nat /\ MinLabels \in Nat /\ MinCritical \in Nat
    /\ EditsWhileStarting \in BOOLEAN
    /\ Nothing \notin Context \cup Content \cup Verdict

VARIABLES
    file,       \* external: content of the file
    mtime,      \* external: its modification time, counted in edits
    secret,     \* is the Hermes secret in the environment?
    kind,       \* kind of each event
    daemon,     \* "down", "loaded" (run before App), "up"
    ctx,        \* the context in force: content, guardrail and its labels
    recorded,   \* config_mtime
    reload,     \* where maybe_reload stands: "idle", "loading", "read"
    candidate,  \* the content it has read
    stage,      \* "received", "thinking", "decided"
    held,       \* context of a thinking task once it is no longer ctx
    verdict,    \* the recorded decision
    label       \* the latest label: "none", "critical", "other"

external == <<file, mtime, secret, kind>>
reloading == <<recorded, reload, candidate>>
deciding == <<stage, held, verdict>>
vars == <<external, daemon, ctx, reloading, deciding, label>>

-----------------------------------------------------------------------------
(* Guardrail                                                               *)

(* The labels a guardrail reads; "early" is a critical one on an event that *)
(* has no stored answers yet.                                              *)
LabelsNow ==
    [e \in Event |-> IF label[e] = "critical" /\ stage[e] # "decided" THEN "early" ELSE label[e]]

(* replay with the stored answers; a cooldown never makes a route DROP.     *)
ReplaysToDrop(e, l, c) ==
    Suggested(kind[e], IF l = "early" THEN NoAnswer ELSE verdict[e].outcome, c) = "DROP"

(* compute_guardrail and Guardrail.ok.                                     *)
GuardrailOK(c, labels) ==
    LET Labelled == {e \in Event : labels[e] # "none"}
        Critical == {e \in Event : labels[e] \in {"critical", "early"}}
    IN  /\ Cardinality(Labelled) >= MinLabels
        /\ Cardinality(Critical) >= MinCritical
        /\ \A e \in Critical : ~ReplaysToDrop(e, labels[e], c)

(* Mutant: a guardrail that passed once is not computed again.             *)
BuiltOnce(content) ==
    [content |-> content, labels |-> LabelsNow,
     ok |-> (ctx # Nothing /\ ctx.ok) \/ GuardrailOK(content.config, LabelsNow)]

(* Context.build, then compute_guardrail.                                  *)
Built(content) ==
    [content |-> content, labels |-> LabelsNow, ok |-> GuardrailOK(content.config, LabelsNow)]

Usable(content) ==
    content.read = "valid" /\ (content.config.mode = "shadow" \/ secret)

-----------------------------------------------------------------------------
(* External: the operator writes the file.                                 *)
Edit(content) ==
    /\ mtime < MaxEdits
    /\ daemon = "loaded" => EditsWhileStarting
    /\ file' = content /\ mtime' = mtime + 1
    /\ UNCHANGED <<secret, kind, daemon, ctx, reloading, deciding, label>>

(* CLI: a label for an event, decided or not; the latest one counts.       *)
Label(e, l) ==
    /\ label[e] # l
    /\ label' = [label EXCEPT ![e] = l]
    /\ UNCHANGED <<external, daemon, ctx, reloading, deciding>>

(* run: load_config; a file that is refused ends the process.              *)
Load ==
    /\ daemon = "down" /\ Usable(file)
    /\ daemon' = "loaded"
    /\ ctx' = [content |-> file, labels |-> LabelsNow, ok |-> FALSE]
    /\ UNCHANGED <<external, reloading, deciding, label>>

(* App.__init__ takes the modification time; App.run computes the guardrail *)
(* before any task starts.                                                 *)
Up ==
    /\ daemon = "loaded"
    /\ daemon' = "up"
    /\ recorded' = mtime
    /\ ctx' = Built(ctx.content)
    /\ UNCHANGED <<external, reload, candidate, deciding, label>>

(* The process ends: its memory is lost, claimed events are reset.         *)
Stop ==
    /\ daemon' = "down"
    /\ ctx' = Nothing
    /\ reload' = "idle" /\ candidate' = Nothing
    /\ stage' = [e \in Event |-> IF stage[e] = "thinking" THEN "received" ELSE stage[e]]
    /\ held' = [e \in Event |-> Nothing]
    /\ UNCHANGED <<external, recorded, verdict, label>>

Crash == daemon # "down" /\ Stop

-----------------------------------------------------------------------------
(* maybe_reload                                                            *)

Poll ==
    /\ daemon = "up" /\ reload = "idle"
    /\ mtime # recorded
    /\ recorded' = mtime
    /\ reload' = "loading"
    /\ UNCHANGED <<external, daemon, ctx, candidate, deciding, label>>

(* The thread that loads the file.                                         *)
ReadCandidate ==
    /\ reload = "loading"
    /\ candidate' = file
    /\ reload' = "read"
    /\ UNCHANGED <<external, daemon, ctx, recorded, deciding, label>>

(* Mutant: promotion without a secret is not refused.                      *)
AcceptableUnsigned == candidate.read = "valid" /\ candidate.scope = ctx.content.scope

Acceptable == Usable(candidate) /\ candidate.scope = ctx.content.scope

(* Mutant: the modification time is taken again when the load is done.     *)
StampLate == mtime

Stamp == recorded

(* Tasks that are thinking keep the context they began with.               *)
Swap ==
    /\ reload = "read" /\ Acceptable
    /\ ctx' = Built(candidate)
    /\ held' = [e \in Event |->
                    IF stage[e] = "thinking" /\ held[e] = Nothing THEN ctx ELSE held[e]]
    /\ reload' = "idle" /\ candidate' = Nothing
    /\ recorded' = Stamp
    /\ UNCHANGED <<external, daemon, stage, verdict, label>>

Reject ==
    /\ reload = "read" /\ ~Acceptable
    /\ candidate.read # "undecodable"
    /\ reload' = "idle" /\ candidate' = Nothing
    /\ UNCHANGED <<external, daemon, ctx, recorded, deciding, label>>

(* A file that is no text raises no ConfigError: the task group ends.       *)
ReloadRaises ==
    /\ reload = "read"
    /\ candidate.read = "undecodable"
    /\ Stop

(* refresh_guardrail, every GUARDRAIL_REFRESH_SECONDS.                     *)
Refresh ==
    /\ daemon = "up"
    /\ ctx' = Built(ctx.content)
    /\ UNCHANGED <<external, daemon, reloading, deciding, label>>

-----------------------------------------------------------------------------
(* process, decide and commit                                              *)

(* Mutant: the context is read again after the await.                      *)
CurrentContext(e) == ctx

ContextOf(e) == IF held[e] = Nothing THEN ctx ELSE held[e]

Record(e, outcome, repeats, x) ==
    [outcome |-> outcome,
     rule |-> Deterministic(kind[e], x.content.config),
     route |-> Effective(kind[e], outcome, x.content.config, repeats, x.ok)]

DecideAtOnce(e, repeats) ==
    /\ daemon = "up" /\ stage[e] = "received"
    /\ ~AsksJev(kind[e], ctx.content.config)
    /\ stage' = [stage EXCEPT ![e] = "decided"]
    /\ verdict' = [verdict EXCEPT ![e] = Record(e, NoAnswer, repeats, ctx)]
    /\ UNCHANGED <<external, daemon, ctx, reloading, held, label>>

Think(e) ==
    /\ daemon = "up" /\ stage[e] = "received"
    /\ AsksJev(kind[e], ctx.content.config)
    /\ stage' = [stage EXCEPT ![e] = "thinking"]
    /\ UNCHANGED <<external, daemon, ctx, reloading, held, verdict, label>>

DecideAfterJev(e, outcome, repeats) ==
    /\ stage[e] = "thinking"
    /\ stage' = [stage EXCEPT ![e] = "decided"]
    /\ verdict' = [verdict EXCEPT ![e] = Record(e, outcome, repeats, ContextOf(e))]
    /\ held' = [held EXCEPT ![e] = Nothing]
    /\ UNCHANGED <<external, daemon, ctx, reloading, label>>

-----------------------------------------------------------------------------
Init ==
    /\ file \in Written /\ mtime = 0
    /\ secret \in BOOLEAN
    /\ kind \in [Event -> Kind]
    /\ daemon = "down" /\ ctx = Nothing
    /\ recorded = 0 /\ reload = "idle" /\ candidate = Nothing
    /\ stage = [e \in Event |-> "received"]
    /\ held = [e \in Event |-> Nothing]
    /\ verdict = [e \in Event |-> Nothing]
    /\ label = [e \in Event |-> "none"]

Next ==
    \/ \E content \in Written : Edit(content)
    \/ \E e \in Event, l \in LabelValue : Label(e, l)
    \/ Load \/ Up \/ Crash
    \/ Poll \/ ReadCandidate \/ Swap \/ Reject \/ ReloadRaises
    \/ Refresh
    \/ \E e \in Event, repeats \in BOOLEAN : DecideAtOnce(e, repeats)
    \/ \E e \in Event : Think(e)
    \/ \E e \in Event, outcome \in Outcome, repeats \in BOOLEAN :
          DecideAfterJev(e, outcome, repeats)

Spec == Init /\ [][Next]_vars

-----------------------------------------------------------------------------
TypeOK ==
    /\ file \in Written /\ mtime \in 0 .. MaxEdits
    /\ secret \in BOOLEAN /\ kind \in [Event -> Kind]
    /\ daemon \in {"down", "loaded", "up"}
    /\ ctx \in Context \cup {Nothing}
    /\ recorded \in 0 .. MaxEdits
    /\ reload \in {"idle", "loading", "read"}
    /\ candidate \in Written \cup {Nothing}
    /\ stage \in [Event -> {"received", "thinking", "decided"}]
    /\ held \in [Event -> Context \cup {Nothing}]
    /\ verdict \in [Event -> Verdict \cup {Nothing}]
    /\ label \in [Event -> {"none", "critical", "other"}]

(* Decided by Jev's answers.                                               *)
Judged ==
    {e \in Event : stage[e] = "decided" /\ ~verdict[e].rule /\ verdict[e].outcome # NoAnswer}

(* The classifier only drops an event in mode full, under a configuration   *)
(* for which the labels of its guardrail suffice and replay none of the     *)
(* critical events to DROP, however the file was edited while Jev was asked  *)
(* (README: DROP "is honored only while the DROP guardrail passes").        *)
DropsAreGuarded ==
    [][\A e \in Judged' \ Judged :
          verdict'[e].route = "DROP" =>
              LET x == ContextOf(e)
              IN  x.content.config.mode = "full" /\ GuardrailOK(x.content.config, x.labels)]_vars

(* Nothing that Jev puts in a critical category is dropped (README:         *)
(* "uncertain security/data_integrity categories go to REVIEW rather than   *)
(* DROP").                                                                 *)
CriticalIsKept ==
    \A e \in Judged : verdict[e].outcome.category \in CriticalReview => verdict[e].route # "DROP"

(* Of two answers to the same question, in any mode that delivers and       *)
(* whatever the guardrail says, the more alarming one never gets the less    *)
(* urgent route (route_from_answers and gate).                             *)
RoutesAreMonotone ==
    daemon = "up" =>
        \A k \in Kind, a, b \in Outcome \ {NoAnswer} :
            AsksJev(k, ctx.content.config) /\ ctx.content.config.mode # "shadow"
                /\ AtLeastAsAlarming(b, a)
            => Urgency(Effective(k, b, ctx.content.config, FALSE, ctx.ok))
                  >= Urgency(Effective(k, a, ctx.content.config, FALSE, ctx.ok))

(* A task that awaits Jev decides under a configuration that sends its      *)
(* event to Jev, whatever was reloaded meanwhile (process takes ctx once).  *)
AskedAsConfigured ==
    \A e \in Event : stage[e] = "thinking" => AsksJev(kind[e], ContextOf(e).content.config)

(* What a reload puts in force could have been started with: it is valid,   *)
(* and delivers nothing without a secret to sign it (maybe_reload, App).    *)
InForceIsUsable == daemon # "down" => Usable(ctx.content)

(* A daemon that sees nothing to reload has the file in force, unless the   *)
(* file is refused or needs a restart (README: "mode hot-reloads").         *)
NoEditLost ==
    daemon = "up" /\ reload = "idle" /\ mtime = recorded
        /\ Usable(file) /\ file.scope = ctx.content.scope
    => ctx.content = file

(* Why: what maybe_reload has read is the file unless that changed again,   *)
(* a started daemon is in step with the file it loaded, a guardrail that    *)
(* passes does so by labels of decided events, whose answers never change.  *)
ReloadInv ==
    /\ recorded <= mtime
    /\ reload # "idle" => daemon = "up"
    /\ reload = "read" => candidate \in Written
    /\ reload = "read" /\ mtime = recorded => candidate = file
    /\ daemon = "loaded" => ctx.content = file \/ EditsWhileStarting

ContextInv ==
    /\ daemon = "down" <=> ctx = Nothing
    /\ \A e \in Event : stage[e] = "thinking" => daemon = "up"
    /\ \A e \in Event : stage[e] # "thinking" => held[e] = Nothing

Sound(x) ==
    /\ \A e \in Event : x.labels[e] = "critical" => stage[e] = "decided"
    /\ x.ok => GuardrailOK(x.content.config, x.labels)

GuardInv ==
    /\ ctx # Nothing => Sound(ctx)
    /\ \A e \in Event : held[e] # Nothing => Sound(held[e])

IndInv ==
    /\ TypeOK /\ ReloadInv /\ ContextInv /\ GuardInv
    /\ CriticalIsKept /\ AskedAsConfigured /\ InForceIsUsable
    /\ EditsWhileStarting \/ NoEditLost
=============================================================================
