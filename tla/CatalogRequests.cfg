SPECIFICATION Spec
CONSTANTS
    q1 = q1
    q2 = q2
    q3 = q3
    starter = starter
    custom = custom
    plain = plain
    changed = changed
    disabled = disabled
    Requests = {q1, q2, q3}
    Ids = {starter, custom}
    Seeds <- MCSeeds
    Contents = {plain, changed, disabled}
    Names <- MCNames
    Queueable = {plain, changed}
    None = None
    Seeder = Seeder
SYMMETRY RequestSymmetry
INVARIANTS
    ParametersFollowContents
    RunHasDefinition
    RunIsOfOneDefinition
CHECK_DEADLOCK FALSE
