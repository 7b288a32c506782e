---------------------------- MODULE AlgorithmsMC -----------------------------
\* Small inputs of Algorithms.  A vocabulary of eight words; -1 stands for an
\* unset or invalid setting.
EXTENDS Algorithms

MCBudgets == 0..10 \cup {24}
MCSettings == {-1, 0, 40, 100}
MCContributors == {"x", "y", "z"}
MCWeights == 0..3

\* "fee" and "fees" have one stem.
Words == {"the", "fee", "fees", "pool", "yield", "stake", "sound", "weak", "not"}
MCStem == [w \in Words |-> IF w = "fees" THEN "fee" ELSE w]
MCPositive == {"sound"}
MCNegative == {"weak"}
MCNegators == {"not"}
MCStopwords == {"the"}
MCFiller == {"the"}
MCBoilerplate == {"stake"}
MCShortWords == {"fee"}
MCRubrics == {<<"stake", "pool">>, <<"the", "fee", "yield">>}

Plain == [number |-> FALSE, unit |-> FALSE, quoted |-> FALSE, fits |-> TRUE, hedges |-> 0]
Exact == [number |-> TRUE, unit |-> TRUE, quoted |-> FALSE, fits |-> TRUE, hedges |-> 1]
Source(s, r) == [source |-> s, reliability |-> r, curated |-> r > 4]

Claim(words, sure, cited, marks) ==
    [statement |-> words, confidence |-> sure, evidence |-> cited, marks |-> marks]

Asserts   == Claim(<<"fee", "pool", "sound">>, 8, {Source("s", 6)}, Exact)
Restates  == Claim(<<"fees", "pool", "sound">>, 6, {Source("s", 6), Source("t", 3)}, Plain)
Denies    == Claim(<<"the", "fee", "pool", "not", "sound">>, 7, {Source("t", 3)}, Plain)
DeniesToo == Claim(<<"pool", "weak", "fee">>, 5, {}, Plain)
Bridges   == Claim(<<"fee", "pool", "yield", "stake">>, 4, {Source("s", 6)}, Plain)
Elsewhere == Claim(<<"yield", "stake", "sound">>, 9, {Source("u", 2)}, Exact)

Strong   == [domain |-> 9, reputation |-> 8, accuracy |-> 9, calibration |-> 8, evidence |-> 9,
             evaluation |-> Unscored]
Newcomer == [domain |-> 0, reputation |-> 5, accuracy |-> 5, calibration |-> 5, evidence |-> 5,
             evaluation |-> Unscored]
Failed   == [domain |-> 0, reputation |-> 0, accuracy |-> 0, calibration |-> 0, evidence |-> 0,
             evaluation |-> Unscored]

Submission(claims, sure, action, metrics, risks, signals) ==
    [claims |-> claims, confidence |-> sure, recommendation |-> action,
     metrics |-> metrics, risks |-> risks, signals |-> signals]

\* A metric is a number or a text, a risk has a subject, a wording and a severity.
Num(n) == [text |-> FALSE, value |-> n]
Txt(t) == [text |-> TRUE, value |-> t]
Risk(a, w, s) == [about |-> a, wording |-> w, severity |-> s]

Outputs(signals) ==
    {Submission(<<Asserts>>, 8, "buy", [apy |-> Num(4), tier |-> Txt("high")],
                <<Risk("run", "likely", 1), Risk("hack", "audited", 2)>>, signals),
     Submission(<<Denies, Elsewhere>>, 6, "wait", [apy |-> Num(2), tvl |-> Num(9), tier |-> Txt("low")],
                <<Risk("run", "certain", 3)>>, signals),
     Submission(<<Asserts, Restates>>, 9, "buy", [tvl |-> Txt("unknown"), tier |-> Txt("high")],
                <<Risk("hack", "upgradable", 2)>>, signals),
     Submission(<<Restates, DeniesToo>>, 3, NoAction, [apy |-> Txt("unknown")],
                <<Risk("run", "remote", 0), Risk("run", "possible", 1)>>, signals)}

MCSubmissions ==
    {Submission(<<Bridges>>, 4, "wait", [tvl |-> Num(3)], <<Risk("run", "priced", 2)>>, Newcomer)} \cup
    {o \in Outputs(Strong) : o.confidence < 9} \cup {o \in Outputs(Newcomer) : o.confidence > 3}
    \cup {o \in Outputs(Failed) : o.confidence = 8}

MCObservations ==
    [kind : {"prediction"}, came : BOOLEAN, confidence : {5, 9}, age : 0..1,
     domains : {{"defi"}, {"robotics"}}]
    \cup [kind : {"evaluation"}, evidenceQuality : {10}, internalConsistency : {0}, age : {0},
          domains : {{"defi"}}]
    \cup [kind : {"consensus"}, agreement : {0, 10}, age : {0}, domains : {{"robotics"}}]

Snapshot(d, rated) == [domain |-> d, overall |-> rated]
Agent(caps, price, open, snapshots, configured) ==
    [capabilities |-> caps, price |-> price, limit |-> 2, active |-> TRUE, configured |-> configured,
     assignments |-> [RUNNING |-> open, SUBMITTED |-> 3], snapshots |-> snapshots]
Cap(d, s, declared) == [domain |-> d, skill |-> s, declared |-> declared]

MCCandidates ==
    {Agent({Cap("defi", "yields", 9)}, 2, 0,
           <<Snapshot("defi", 9), Snapshot(Everything, 5), Snapshot("defi", 2)>>, TRUE),
     Agent({Cap("defi", "none", 5), Cap("robotics", "none", 5)}, 1, 1, <<Snapshot(Everything, 9)>>, TRUE),
     Agent({Cap("robotics", "none", 9)}, 3, 0,
           <<Snapshot(Everything, 7), Snapshot("art", 3), Snapshot("robotics", 6)>>, TRUE),
     Agent({Cap("defi", "none", 9)}, 0, 2, <<Snapshot(Everything, 9), Snapshot("defi", 8)>>, TRUE),
     Agent({}, 1, 0, <<>>, TRUE),
     Agent({Cap("defi", "none", 9)}, 1, 0, <<Snapshot("defi", 9), Snapshot("art", 9)>>, FALSE)}

MCPostings == [requires : {{}, {"defi"}, {"defi", "robotics"}, {"yields"}},
               seats : 1..3, budget : {0, 2, 4, 6}]

MCOffers ==
    [type : {"analysis"}, requires : {{"defi"}, {"robotics"}}, budget : {1, 3},
     confidence : {5}, deadline : {NoDeadline, 90}]
    \cup [type : {"analysis", "other"}, requires : {{}}, budget : {3}, confidence : {9}, deadline : {1}]
    \cup [type : {"other"}, requires : {{}}, budget : {3}, confidence : {0}, deadline : {30}]

MCPolicies ==
    [types : {{}, {"analysis"}}, domains : {{}, {"defi"}}, minReward : {0, 2},
     maxConfidence : {8}, minTime : {2}, maxConcurrent : 1..2]
==============================================================================
