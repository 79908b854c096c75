SPECIFICATION Spec
CONSTANTS
    User = {u1}
    Request = {q1, q2}
    Purpose = {product_analytics}
    analytics = product_analytics
    MaxTime = 1
    MaxRows = 6
    max_events = 1
    Nobody = Nobody
SYMMETRY Interchangeable
CHECK_DEADLOCK FALSE
INVARIANT
    ErasedSubjectsHaveNoEvents
