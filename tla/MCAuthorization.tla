-------------------------- MODULE MCAuthorization --------------------------
(* Authorization on a small instance. *)
EXTENDS Authorization

P(text, star) == [text |-> text, star |-> star]

\* readonly reads everything; editor can be given objects, or be denied one of them.
MCSeeds == {[role |-> "readonly", action |-> P(<<"get">>, FALSE), resource |-> P(<<>>, TRUE), effect |-> "allow"]}
MCStatements == MCSeeds \cup
    {[role |-> "editor", action |-> P(<<>>, TRUE), resource |-> P(<<"b">>, TRUE), effect |-> "allow"],
     [role |-> "editor", action |-> P(<<"get">>, FALSE), resource |-> P(<<"b", "k">>, FALSE), effect |-> "deny"]}

MCPatterns == <<P(<<"b", "k">>, FALSE), P(<<>>, TRUE)>>

PolicyStatement(effect, principals, not, conditions) ==
    [effect |-> effect, principals |-> principals, notPrincipal |-> not, actions |-> {P(<<>>, TRUE)},
     resources |-> {P(<<"b">>, TRUE)}, conditions |-> conditions]

Inside == {[key |-> "ip", negated |-> TRUE, values |-> {"wan"}]}

MCDocuments ==
    {{PolicyStatement("Allow", {"*"}, FALSE, Inside)},
     {PolicyStatement("Allow", {"*"}, FALSE, {}), PolicyStatement("Deny", {"key"}, TRUE, {})},
     {PolicyStatement("Deny", {"key"}, FALSE, {})},
     {PolicyStatement("Allow", {}, TRUE, {})}}

MCAsked == {[action |-> <<"get">>, resource |-> <<"b", k>>, context |-> [ip |-> "lan"]] : k \in {"k", "l"}}
=============================================================================
