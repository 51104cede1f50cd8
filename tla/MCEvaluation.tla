---------------------------- MODULE MCEvaluation ----------------------------
(* TLC instance of Evaluation: plain events and a candidate that drops more.   *)
EXTENDS Evaluation

Jev(noise) ==
    [harm |-> 0, noise |-> noise, digest |-> 0, relevance |-> 0,
     category |-> "other", confidence |-> 0]

MCOutcome == {Jev(0), Jev(1), NoAnswer}

Policy(noise) ==
    [mode |-> "full",
     thresholds |-> [k \in Kind |->
        [notify_harm |-> 2, review_harm |-> 1,
         notify_confidence |-> 1, notify_categories |-> {"security"},
         drop_noise |-> noise, drop_max_harm |-> 0,
         drop_max_digest |-> 0, drop_max_relevance |-> 0]],
     notifies |-> {}, drops |-> {}, local |-> {}, fallback |-> "auto"]

MCBaseline == Policy(2)
MCCandidate == Policy(1)
MCKindOf == [e \in Event |-> "plain"]
=============================================================================
