CONSTANTS
    Letters = {"a"}
    Numbers = {}
    MaxText = 6
SPECIFICATION Spec
INVARIANTS TokensAreLexemes ParseReadsOneExpression SplitKeepsTokens
CHECK_DEADLOCK FALSE
