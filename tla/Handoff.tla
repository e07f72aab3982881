------------------------------- MODULE Handoff -------------------------------
(***************************************************************************)
(* The two hooks that make a session hand its work over before its context *)
(* is full: the Stop hook, which may keep a session from stopping and give *)
(* it an order, and the mid-turn hook, which adds notes before tool calls. *)
(* The hooks know the session by its transcript, its working tree and the  *)
(* marker files they left; the model, its background tasks, the harness    *)
(* and the owner do as they like.                                          *)
(*                                                                         *)
(* Each hook has a measure of its own of the context: the mid-turn hook    *)
(* looks for the newest record of the session itself, the Stop hook takes  *)
(* the last record with usage, also a subagent's or an empty one. Contexts *)
(* are counted in steps. A behaviour has one configuration: the harness,   *)
(* for each hook whether its notices are sent or only logged, and whether  *)
(* the disk with the markers and the log is full.                          *)
(***************************************************************************)
EXTENDS Naturals, FiniteSets

CONSTANTS
    Task,        \* background agents and commands
    Configs,     \* the configurations, see Config
    Levels,      \* MIDTURN_LEVELS
    Threshold,   \* AUTO_HANDOFF_THRESHOLD
    HardCap,     \* AUTO_HANDOFF_HARD_CAP
    RefireStep,  \* AUTO_HANDOFF_REFIRE_STEP
    Strays,      \* what the usage of a record that is not the session's own may say
    MaxContext,  \* bound: the context
    MaxCompacts  \* bound: compactions

\* The harness; notices of the Stop hook; those of the mid-turn hook; the disk.
\* Claude has one setting for both hooks. Under Antigravity they read the same two
\* settings by rules of their own, and every combination comes of some values.
Config == {c \in [agy : BOOLEAN, notices : BOOLEAN, midNotices : BOOLEAN, full : BOOLEAN] :
             c.agy \/ c.midNotices = c.notices}

ASSUME HandoffAssumption ==
    /\ Configs \subseteq Config
    /\ {Threshold, HardCap, RefireStep, MaxContext, MaxCompacts} \subseteq Nat
    /\ 1 < Threshold /\ Threshold <= HardCap /\ 0 < RefireStep /\ 0 < MaxContext
    /\ Levels \subseteq 1..MaxContext /\ Strays \subseteq 0..MaxContext

VARIABLES
    cfg,       \* the configuration
    latest,    \* tokens in the context, by the newest record of the session itself
    context,   \* tokens in the context, as the Stop hook measures them
    running,   \* tasks that run
    shown,     \* tasks that run by the transcript since the last checkpoint
    dirty,     \* uncommitted changes to tracked files
    usage,     \* is there a usage record since the last checkpoint?
    claims,    \* the last text says that a handoff happens
    banner,    \* herdr-handoff.sh printed its banner since the last checkpoint
    turn,      \* "work" or "stopped"
    active,    \* stop_hook_active: this turn goes on because a Stop hook said so
    order,     \* what the hooks told the model last, in this turn
    flag,      \* .flag: the context at the handoff, 0 without
    refire,    \* .refire: the context at the last reminder, 0 without
    draining, drain, guard,   \* the other markers of the Stop hook
    midturn,   \* .midturn: the level reached
    log,       \* what the log holds: "notice" (midturn or drain), "handoff"
    fires,     \* handoffs since the hook was last armed
    compacts

markVars == <<flag, refire, draining, drain, guard, midturn>>
worldVars == <<latest, context, running, shown, dirty, usage, claims, banner, compacts>>
vars == <<cfg, worldVars, turn, active, order, markVars, log, fires>>

Orders == {"none", "end", "drain", "handoff", "relay", "retired", "correct"}

\* Without a record Antigravity is measured by its bytes.
Unmeasured == IF cfg.agy THEN 1 ELSE 0

Init ==
    /\ cfg \in Configs
    /\ latest = Unmeasured /\ context = Unmeasured
    /\ running = {} /\ shown = {} /\ dirty = FALSE
    /\ usage = FALSE /\ claims = FALSE /\ banner = FALSE
    /\ turn = "work" /\ active = FALSE /\ order = "none"
    /\ flag = 0 /\ refire = 0 /\ draining = FALSE /\ drain = FALSE /\ guard = FALSE
    /\ midturn = 0 /\ log = {}
    /\ fires = 0 /\ compacts = 0

(***************************************************************************)
(* The session                                                             *)
(***************************************************************************)
\* One more assistant record: files change or are committed, and the text is what it is.
Record ==
    /\ turn = "work"
    /\ usage' = TRUE
    /\ dirty' \in BOOLEAN /\ claims' \in BOOLEAN
    /\ UNCHANGED <<cfg, running, shown, banner, compacts, turn, active, order, markVars, log, fires>>

\* A record of the session: the context grows or not, and both hooks see it.
Works ==
    /\ latest' \in {latest, latest + 1} \ {0} /\ latest' <= MaxContext
    /\ context' = latest'
    /\ Record

\* The record of a subagent (isSidechain), or a synthetic one, whose usage is all
\* zero: the Stop hook takes it for the session's.
OthersWork ==
    /\ context' \in Strays
    /\ latest' = latest
    /\ Record

\* A task is started, or a finished one resumed; the transcript names it.
Launches(t) ==
    /\ turn = "work" /\ t \notin running
    /\ running' = running \cup {t} /\ shown' = shown \cup {t}
    /\ UNCHANGED <<cfg, latest, context, dirty, usage, claims, banner, compacts, turn, active, order,
                   markVars, log, fires>>

\* It reports, which wakes the session.
Reports(t) ==
    /\ t \in running
    /\ running' = running \ {t} /\ shown' = shown \ {t}
    /\ turn' = "work"
    /\ IF turn = "work" THEN UNCHANGED <<active, order>> ELSE active' = FALSE /\ order' = "none"
    /\ UNCHANGED <<cfg, latest, context, dirty, usage, claims, banner, compacts, markVars, log, fires>>

\* A checkpoint in the transcript: what was before it does not count any more.
Compacts ==
    /\ turn = "work" /\ latest > 1
    /\ compacts < MaxCompacts
    /\ compacts' = compacts + 1
    /\ latest' = Unmeasured /\ context' = Unmeasured
    /\ usage' = FALSE /\ shown' = {} /\ claims' = FALSE /\ banner' = FALSE
    /\ order' = "none"
    /\ UNCHANGED <<cfg, running, dirty, turn, active, markVars, log, fires>>

\* The handoff script is run, as ordered or by the owner's wish.
RunsScript ==
    /\ turn = "work" /\ ~banner
    /\ banner' = TRUE
    /\ UNCHANGED <<cfg, latest, context, running, shown, dirty, usage, claims, compacts, turn,
                   active, order, markVars, log, fires>>

OwnerPrompts ==
    /\ turn = "stopped"
    /\ turn' = "work" /\ active' = FALSE /\ order' = "none"
    /\ UNCHANGED <<cfg, worldVars, markVars, log, fires>>

\* Another Stop hook keeps the session going.
OtherHookBlocks ==
    /\ turn = "work" /\ ~active
    /\ active' = TRUE
    /\ UNCHANGED <<cfg, worldVars, turn, order, markVars, log, fires>>

(***************************************************************************)
(* handoff_usage.py                                                        *)
(***************************************************************************)
\* The harness of Antigravity says itself whether anything runs.
NotIdle == cfg.agy /\ running # {}

safe_point_blocked(tokens, pending, isDirty, notIdle) ==
    tokens < HardCap /\ (pending # {} \/ notIdle \/ isDirty)

stop_would_hand_off(tokens, pending, isDirty, notIdle) ==
    tokens >= Threshold /\ flag = 0 /\ ~safe_point_blocked(tokens, pending, isDirty, notIdle)

(***************************************************************************)
(* auto-handoff-midturn.py                                                 *)
(***************************************************************************)
Passed == {l \in Levels : l <= latest}

\* (mutant) The note also goes out when the drain notice was sent.
next_stop_hands_off_blind == stop_would_hand_off(latest, {}, FALSE, FALSE)

\* Under Antigravity only the hard cap makes the next stop certain. Where the Stop
\* hook only writes its log, the marker of a notice that was sent is not there.
next_stop_hands_off ==
    /\ ~(drain /\ cfg.notices)
    /\ IF cfg.agy THEN stop_would_hand_off(latest, {}, FALSE, TRUE)
       ELSE stop_would_hand_off(latest, shown, dirty, FALSE)

Midturn ==
    /\ turn = "work" /\ ~cfg.full
    /\ \E l \in Passed :
         /\ \A k \in Passed : k <= l
         /\ midturn < l
         /\ midturn' = l
    /\ log' = IF next_stop_hands_off THEN log \cup {"notice"} ELSE log
    /\ order' = IF next_stop_hands_off /\ cfg.midNotices THEN "end" ELSE order
    /\ UNCHANGED <<cfg, worldVars, turn, active, flag, refire, draining, drain, guard, fires>>

(***************************************************************************)
(* auto-handoff-stop.py: the session is about to stop. The cases are in    *)
(* the order of the code; each needs that no earlier one applies.          *)
(***************************************************************************)
\* Markers and log lines are only written where there is room.
Marks(m, v) == IF cfg.full THEN m ELSE v
Logs(kind) == log' = IF cfg.full THEN log ELSE log \cup {kind}

Silent   == turn' = "stopped" /\ active' = FALSE /\ order' = "none"
Says(o)  == turn' = "work" /\ active' = TRUE /\ order' = o
Notice(o) == IF cfg.notices THEN Says(o) ELSE Silent

noticed_without_handoff == log = {"notice"}

Unheard == (IF cfg.agy THEN context = 0 ELSE ~usage) \/ (active /\ cfg.full)
Claimed == claims /\ ~guard /\ ~banner
           /\ noticed_without_handoff
Heard == turn = "work" /\ ~Unheard
Judged == Heard /\ ~Claimed /\ context >= Threshold

\* No usage record, for Antigravity no tokens, or a second block that no marker
\* would bound.
StopsUnheard ==
    /\ turn = "work" /\ Unheard
    /\ Silent
    /\ UNCHANGED <<cfg, worldVars, markVars, log, fires>>

\* The claim guard: a notice went out, no handoff ran, the text says one does.
StopGuarded ==
    /\ Heard /\ Claimed
    /\ guard' = Marks(guard, TRUE)
    /\ Notice("correct")
    /\ UNCHANGED <<cfg, worldVars, flag, refire, draining, drain, midturn, log, fires>>

\* Under the threshold the markers go: the hook is armed again, for Claude only
\* where notices are on.
Rearms == cfg.notices \/ cfg.agy

\* (mutant) Only the notices are forgotten, not the handoff.
StopBelowRetired ==
    /\ Heard /\ ~Claimed /\ context < Threshold
    /\ drain' = FALSE /\ refire' = 0 /\ fires' = 0
    /\ Silent
    /\ UNCHANGED <<cfg, worldVars, flag, draining, guard, midturn, log>>

StopBelow ==
    /\ Heard /\ ~Claimed /\ context < Threshold
    /\ drain' = FALSE /\ refire' = 0
    /\ IF Rearms THEN flag' = 0 /\ draining' = FALSE /\ fires' = 0
       ELSE UNCHANGED <<flag, draining, fires>>
    /\ Silent
    /\ UNCHANGED <<cfg, worldVars, guard, midturn, log>>

\* It handed off: the last task it started has reported.
StopRelays ==
    /\ Judged /\ flag # 0
    /\ draining /\ shown = {}
    /\ draining' = FALSE
    /\ Notice("relay")
    /\ UNCHANGED <<cfg, worldVars, flag, refire, drain, guard, midturn, log, fires>>

\* It handed off: quiet, and a reminder after every RefireStep.
Retired == Judged /\ flag # 0 /\ ~(draining /\ shown = {})
LastReminder == IF refire > flag THEN refire ELSE flag

\* (mutant) The reminder keeps the growth instead of the context.
StopRetiredGrowth ==
    /\ Retired
    /\ IF context < LastReminder + RefireStep
       THEN Silent /\ UNCHANGED refire
       ELSE refire' = Marks(refire, context - LastReminder) /\ Notice("retired")
    /\ UNCHANGED <<cfg, worldVars, flag, draining, drain, guard, midturn, log, fires>>

StopRetired ==
    /\ Retired
    /\ IF context < LastReminder + RefireStep
       THEN Silent /\ UNCHANGED refire
       ELSE refire' = Marks(refire, context) /\ Notice("retired")
    /\ UNCHANGED <<cfg, worldVars, flag, draining, drain, guard, midturn, log, fires>>

\* Not a safe point: one notice, then quiet.
Unsafe == safe_point_blocked(context, shown, dirty, NotIdle)

\* (mutant) The drain notice is repeated.
StopDrainsAgain ==
    /\ Judged /\ flag = 0 /\ Unsafe
    /\ Logs("notice") /\ Notice("drain")
    /\ UNCHANGED <<cfg, worldVars, markVars, fires>>

StopDrains ==
    /\ Judged /\ flag = 0 /\ Unsafe
    /\ IF drain THEN Silent /\ UNCHANGED <<drain, log>>
       ELSE drain' = Marks(drain, TRUE) /\ Logs("notice") /\ Notice("drain")
    /\ UNCHANGED <<cfg, worldVars, flag, refire, draining, guard, midturn, fires>>

\* (mutant) The handoff leaves no flag.
StopFiresUnflagged ==
    /\ Judged /\ flag = 0 /\ ~Unsafe
    /\ Logs("handoff")
    /\ Says("handoff")
    /\ fires' = IF fires < 2 THEN fires + 1 ELSE fires
    /\ UNCHANGED <<cfg, worldVars, markVars>>

\* The handoff, whatever the notices are set to.
StopFires ==
    /\ Judged /\ flag = 0 /\ ~Unsafe
    /\ flag' = Marks(flag, context)
    /\ draining' = Marks(draining, draining \/ shown # {} \/ NotIdle)
    /\ Logs("handoff")
    /\ Says("handoff")
    /\ fires' = IF fires < 2 THEN fires + 1 ELSE fires
    /\ UNCHANGED <<cfg, worldVars, refire, drain, guard, midturn>>

Stop ==
    \/ StopsUnheard \/ StopGuarded \/ StopBelow \/ StopRelays
    \/ StopRetired \/ StopDrains \/ StopFires

Next ==
    \/ Works \/ OthersWork \/ Compacts \/ RunsScript \/ OwnerPrompts \/ OtherHookBlocks \/ Midturn
    \/ \E t \in Task : Launches(t) \/ Reports(t)
    \/ Stop

Spec == Init /\ [][Next]_vars

\* A turn that could end does end.
FairSpec == Spec /\ WF_vars(Stop)

(***************************************************************************)
(* Properties                                                              *)
(***************************************************************************)
TypeOK ==
    /\ cfg \in Configs
    /\ {latest, context} \subseteq 0..MaxContext /\ compacts \in 0..MaxCompacts
    /\ running \subseteq Task /\ shown \subseteq running
    /\ {dirty, usage, claims, banner, active, draining, drain, guard} \subseteq BOOLEAN
    /\ turn \in {"work", "stopped"} /\ order \in Orders
    /\ flag \in {0} \cup Threshold..MaxContext /\ refire \in {0} \cup Threshold..MaxContext
    /\ midturn \in {0} \cup Levels /\ log \subseteq {"notice", "handoff"}
    /\ fires \in 0..2

\* A session hands off at most once until the Stop hook has measured it under the
\* threshold again (the one-shot flag), and the flag is there exactly then, as
\* long as markers can be written. While it drains, the flag says so: the order
\* to relay cannot outlive the handoff.
HandoffOnce ==
    /\ ~cfg.full => fires <= 1 /\ (fires = 1) = (flag # 0)
    /\ draining => flag # 0

\* The session stops in silence.
GoesSilent == turn = "work" /\ turn' = "stopped"

\* A session that was told to end its turn is left in silence when it does only
\* where the hooks disagree: the Stop hook measures another record, under the
\* threshold, or its notices are off where the mid-turn hook's are on. Else a
\* handoff, a drain notice or a correction follows, whatever the session did in
\* between (next_stop_hands_off against the cases of the Stop hook).
EndIsHeard ==
    [][GoesSilent /\ order = "end"
          => \/ context < Threshold /\ context # latest
             \/ cfg.midNotices # cfg.notices]_vars

\* "True only when the Stop hook, under its own rules, is certain to return its
\* handoff decision at the next stop. Telling the agent to end its turn otherwise
\* strands it": the silence that next_stop_hands_off is to rule out.
EndIsHeardAlways == [][GoesSilent => order # "end"]_vars

\* A session over the threshold, as the Stop hook measures it, stops in silence only
\* when it has handed off already, or waits for a safe point under the hard cap.
\* Exempt is a stop the hook cannot judge, and the claim guard where notices are off.
NobodyStranded ==
    [][GoesSilent /\ context >= Threshold
          => \/ fires > 0
             \/ safe_point_blocked(context, shown, dirty, NotIdle)
             \/ Unheard
             \/ Claimed /\ ~cfg.notices]_vars

\* "The last agent reported" is said to a session of Antigravity only when nothing
\* of its runs. Not so after a compaction; in no run.
RelayIsSafe == [][order' = "relay" /\ order # "relay" /\ cfg.agy => running = {}]_vars

\* The hooks never keep a session going for ever: orders run out, also when no
\* marker can be written.
LoopsEnd == []<>(turn = "stopped")
================================================================================
