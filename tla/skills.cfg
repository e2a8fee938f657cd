SPECIFICATION SkillsSpec
CONSTANTS
    lint = lint
    test = test
    NoSkill = NoSkill
    Skills = {lint, test}
    Namespace <- MCNamespace
    Spellings = {"test!"}
    Normalized <- MCNormalized
    BuiltIn = {lint}
    Named = {lint}
    ByHand <- MCByHand
    Typed <- MCTyped
    Windows = {"w1", "w2"}
    ScopeOf <- MCScopeOf
    InitialFiles <- MCInitialFiles
    MaxClicks <- MCMaxClicks
CONSTRAINT ThreeClicks
INVARIANTS EditorHoldsItsSkill StagesLoadWhole
PROPERTY OnlyAskedChanges
CHECK_DEADLOCK FALSE
