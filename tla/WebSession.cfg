\* Three clicks on the toggle, a text on the clipboard and one copied later, two
\* reads under way.
CONSTANTS
    MaxGen = 3
    MaxCopies = 1
    MaxTicks = 2
SPECIFICATION FairSpec
INVARIANTS TypeOK NothingRunsOn
PROPERTIES CopyFlows TypedKept
CHECK_DEADLOCK FALSE
