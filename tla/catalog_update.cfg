CONSTANTS
    a1 = a1  a2 = a2  a3 = a3
    p1 = p1  p2 = p2
    Activities = {a1, a2, a3}
    Products = {p1, p2}
    ProductOf <- MCProductOf
    Services = {s1, s2}
    Overlap = 1
    Faulty = FALSE
    NoActivity = NoActivity
SPECIFICATION Spec
INVARIANTS CreatedIsPublished
