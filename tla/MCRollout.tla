------------------------------ MODULE MCRollout -----------------------------
(* TLC instance of Rollout.                                                *)
EXTENDS Rollout, TLC

Jev(harm, noise, category) ==
    [harm |-> harm, noise |-> noise, digest |-> 0, relevance |-> 0,
     category |-> category, confidence |-> 0]

MCOutcome ==
    {Jev(0, 2, "other"), Jev(1, 2, "other"), Jev(2, 2, "other"), Jev(0, 2, "security"), NoAnswer}

Strict ==
    [notify_harm |-> 2, review_harm |-> 1,
     notify_confidence |-> 1, notify_categories |-> {"security"},
     drop_noise |-> 2, drop_max_harm |-> 0, drop_max_digest |-> 0, drop_max_relevance |-> 0]

Loose == [Strict EXCEPT !.drop_max_harm = 1]

File(mode, thresholds, notifies, read, scope) ==
    [read |-> read, scope |-> scope,
     config |-> [mode |-> mode, thresholds |-> [k \in Kind |-> thresholds],
                 notifies |-> notifies, drops |-> {}, local |-> {}, fallback |-> "auto"]]

(* Two ways to drop, a rule in shadow mode, a restart, a broken file.      *)
MCWritten ==
    {File("full", Strict, {}, "valid", 1),
     File("full", Loose, {}, "valid", 1),
     File("shadow", Strict, Kind, "valid", 1),
     File("guarded", Strict, {}, "valid", 2),
     File("full", Strict, {}, "undecodable", 1)}

Symmetry == Permutations(Event)
=============================================================================
