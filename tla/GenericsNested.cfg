SPECIFICATION GenericsSpec
CONSTANTS
    Programs <- MCPassing
    MaxWorks = 8
    Resolve <- Resolved
    Qualifies <- QualifiesAsGeneric
    Same <- AreSame
    Name <- UniqueTypeName
    Fits <- HasForm
    Says <- TypesFound
    Replaced <- FoundType
    IdentsOf <- IdentsIn
    SameName <- NamedAlike
INVARIANTS
    InstanceRight
CHECK_DEADLOCK FALSE
