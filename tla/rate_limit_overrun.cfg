\* A thread is overtaken between its clock reading and the lock.
SPECIFICATION Spec
CONSTANTS
    t1 = t1  t2 = t2  t3 = t3
    Threads = {t1, t2, t3}
    Credentials = {"key1"}
    Subjects = {"workshop-reviewer"}
    MaxRequests = 2
    Window = 2
    MaxClock = 4
    MaxAdmitted = 5
INVARIANT WindowBound
CHECK_DEADLOCK FALSE
