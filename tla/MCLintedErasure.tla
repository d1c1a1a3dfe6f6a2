--------------------------- MODULE MCLintedErasure ---------------------------
(* Instances of LintedErasure for TLC: see the LintedErasure_*.cfg files. *)
EXTENDS LintedErasure

Rules  == {"delete", "null", "anonymize", "retain"}
Levels == {"delete-row", "delete-fields"}

Policy(level, rule, parents, ignored, id, declared) ==
    [level |-> level, rule |-> rule, dependsOn |-> parents, ignored |-> ignored,
     id |-> id, scope |-> {}, declared |-> declared]

Setup(model, policy, relation, config, shared, excluded) ==
    [model |-> model, policy |-> policy, relation |-> relation, config |-> config,
     shared |-> shared, excluded |-> excluded]

Table(columns, nullable) == [columns |-> columns, nullable |-> nullable]

\* A child with one or two foreign key columns and a parent, under every policy of them.
Ones == {"one", "two"}
Keys == {"key", "tie"}

Pairs ==
    {Setup(<<Table(Keys, Keys), Table(Ones, nullable)>>,
           <<Policy(l1, r1, {}, Keys \ DOMAIN r1, None, TRUE),
             Policy(l2, r2, parents, Ones \ DOMAIN r2, None, TRUE)>>,
           {[child |-> 2, fields |-> fk[1], parent |-> 1, references |-> fk[2]]},
           <<1, 2>>, {1, 2}, {}) :
        nullable \in SUBSET Ones,
        l1 \in Levels, r1 \in [{"key"} -> Rules] \cup [Keys -> Rules],
        l2 \in Levels, r2 \in [{"one"} -> Rules] \cup [Ones -> Rules],
        parents \in {{}, {1}},
        fk \in {<< <<"one">>, <<"key">> >>, << <<"one", "two">>, <<"key", "tie">> >>}}

\* Three entities that refer to one another and depend on one another in any way.
Both == {"key", "one"}

Profiles == {
    <<"delete-row", [c \in Both |-> "delete"]>>,
    <<"delete-row", [key |-> "retain", one |-> "delete"]>>,
    <<"delete-fields", [key |-> "anonymize", one |-> "retain"]>>}

Graphs3 ==
    {Setup([e \in 1 .. 3 |-> Table(Both, Both)],
           [e \in 1 .. 3 |-> Policy(profile[e][1], profile[e][2], parents[e], {}, None, TRUE)],
           {[child |-> e, fields |-> <<"one">>, parent |-> refers[e], references |-> <<"key">>] :
               e \in {f \in 1 .. 3 : refers[f] # 0}},
           <<1, 2, 3>>, 1 .. 3, {}) :
        profile \in [1 .. 3 -> Profiles],
        parents \in {<<a, b, c>> : a \in SUBSET {2, 3}, b \in SUBSET {1, 3}, c \in SUBSET {1, 2}},
        refers \in {0, 2, 3} \X {0, 1, 3} \X {0, 1, 2}}

\* What is registered, how, and with which columns left without a policy.
Gaps ==
    {Setup(<<Table(Both \cup {"id"}, Both), Table({"key"}, {})>>,
           <<Policy("delete-fields", [c \in ruled |-> rule], parents, ignored, "id", declared),
             Policy("delete-row", [key |-> "delete"], {}, {}, None, TRUE)>>,
           {[child |-> 1, fields |-> <<"one">>, parent |-> 2, references |-> <<"key">>]},
           config, shared, excluded) :
        ruled \in SUBSET (Both \cup {"id"}), rule \in {"delete", "retain"},
        parents \in {{}, {2}}, ignored \in SUBSET Both, declared \in BOOLEAN,
        config \in {<<1>>, <<2>>, <<1, 2>>}, shared \in SUBSET {1, 2}, excluded \in SUBSET {1, 2}}

Families == <<Pairs, Graphs3, Gaps>>
===============================================================================
