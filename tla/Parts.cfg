\* The containers: three keys of which two share a bucket before and after the
\* table grows; lists of up to five items of two kinds, whose array grows from 1
\* to 2 cells and from there by a step of 3; four nodes of a buffer.  Generators:
\* up to four instructions with two counted local variables.
CONSTANTS
    Keys = {"a", "b", "c"}
    Values = {1}
    None = 0
    Hash <- HashOf
    Size = 2
    MaxSize = 4
    Resizes = {TRUE, FALSE}
    Items = {x, y}
    Null = Null
    Junk = Junk
    First = 1
    Big = 3
    MaxCount = 5
    Texts <- MCTexts
    Reset <- MCReset
    Sizes = {1, 3, 4}
    MaxNodes = 4
    Vars = {"x", "y"}
    Objects = {o1, o2}
    MaxCode = 4
    Idioms = {}
    Code <- MCCode
    Programs <- MCPrograms
    MaxWorks = 8
    Resolve <- Resolved
    Qualifies <- QualifiesAsGeneric
    Same <- AreSame
    Name <- UniqueTypeName
    Fits <- HasForm
    Says <- TypesFound
    Replaced <- FoundType
    IdentsOf <- IdentsIn
    SameName <- NamedAlike
    Hierarchies <- MCZoos
    Addresses = {16, 32}
    Mixed = FALSE
SPECIFICATION PartsSpec
INVARIANTS
    CountsMatch MatchExact SearchExact InstanceRight CallsFit OneBody ExportsClosed
    DispatchRight BoxesMatch
PROPERTIES
    Implements IsList IsStream PartsWorkEnds
CHECK_DEADLOCK FALSE
