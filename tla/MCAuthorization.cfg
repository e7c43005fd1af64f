\* Two roles, a seeded statement and two others, two scopes, four bucket policies of which one is refused,
\* two objects.
SPECIFICATION Spec
CONSTANTS
    Roles = {"readonly", "editor"}
    Seeds <- MCSeeds
    Statements <- MCStatements
    Patterns <- MCPatterns
    Documents <- MCDocuments
    Asked <- MCAsked
    MaxChanges = 2
INVARIANTS
    DecisionExact
    NoGrantFromNowhere
    ExplainCoversAccess
