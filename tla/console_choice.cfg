\* A session alone, and the API.
SPECIFICATION Spec
CONSTANTS
    s1 = s1  s2 = s2  v1 = v1  v2 = v2  v3 = v3  NoReview = NoReview
    Sessions = {s1}
    Reviews = {v1}
PROPERTY ChoiceHonoured
CHECK_DEADLOCK FALSE
