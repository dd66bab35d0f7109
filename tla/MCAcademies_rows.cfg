\* Two requests at once that create, change, read and delete academies,
\* while the administrator deletes sports and users.
SPECIFICATION Spec
CONSTANTS
    Requests = {r1, r2}
    Operations = {"create", "update", "patch", "delete", "get"}
    Users = {u1}
    SportIds = {s1}
    Fields = {"name", "city"}
    RequiredFields = {"name"}
    v1 = v1
    s1 = s1
    Values = {blank, v1}
    Blank = blank
    Invalid = invalid
    Unset = unset
    Bodies <- MCBodies
    Limit = 1
    MaxAcademies = 1
    MaxMemberships = 0
SYMMETRY Symmetry
INVARIANT TypeOK
PROPERTIES OnlyNamedColumns RefusedChangesNothing AnswersShowOwnSports
