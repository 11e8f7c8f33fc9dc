SPECIFICATION Spec
CONSTANTS
    None = None
    Null = Null
    NotSet = NotSet
    Empty = Empty
    Token = Token
    Versions <- MCVersions
    Texts <- MCTexts
    Tables <- MCTables
    QueryValues <- MCQueryValues
    Levels <- MCLevels
    Plain <- MCPlain
    Answers <- MCAnswers
    MaxCalls = 3
INVARIANTS
    RequestsAreUnderstood
    ResponsesAreUnderstood
