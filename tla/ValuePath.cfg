CONSTANTS
    Rows <- ShortRows
    Texts <- ShortTexts
    MaxLexemes = 14
    Files <- ShortFiles
    SchemaFiles <- ShortSchemas
    InsertLists <- SomeInserts
    SelectLists <- SomeSelects
    ValueLists <- SomeValues
    Conditions <- SomeConditions
    MaxTableRows = 2
    MaxLiteral = 12
SPECIFICATION Spec
INVARIANTS
    TokensAreTheText
    BodyVerdictIsDeserved
    LiteralIsTheValue
    RowsReadBack
    AnswerIsWhatWasRead
    SelectAnswersByName
