\* Two requests at once that apply, decide, list, walk the pages, patch and delete
\* several academies, while academies, sports and users come and go.
SPECIFICATION Spec
CONSTANTS
    Requests = {r1, r2}
    Operations = {"create", "delete", "list", "apply", "approve", "reject",
                  "listMembers", "walk", "bulkDelete", "bulkPatch"}
    Users = {u1}
    SportIds = {s1}
    Fields = {"name"}
    RequiredFields = {"name"}
    v1 = v1
    s1 = s1
    Values = {blank, v1}
    Blank = blank
    Invalid = invalid
    Unset = unset
    Bodies <- OneBody
    Limit = 1
    MaxAcademies = 2
    MaxMemberships = 2
SYMMETRY Symmetry
INVARIANT Integrity
PROPERTIES DeletedStaysGone WalkShowsAll
