SPECIFICATION Spec
CONSTANTS
    Known <- KnownNames
    Illegal <- IllegalChars
    Bytes <- ByteSizes
    MaxBytes = 4
    Reserved <- Device
    Day = 6
    Minute = 2
    MinInterval = 1
    MaxConcurrency = 8
    Malformed = malformed
    NoStart = none
    Strings <- ShortStrings
    Templates <- SomeTemplates
    Metas <- SomeMetas
    Configs <- SomeConfigs
    Documents <- SomeDocuments
INVARIANTS
    ComponentIsSafe
    TemplatesAgree
    DiscsStayApart
    AcceptedSettingsHold
    WakesAtWindow
    TimelineIsUnrolled
CHECK_DEADLOCK FALSE
