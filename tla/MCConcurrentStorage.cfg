\* Three threads racing add_namespace and add_limit over three names.
CONSTANTS
    t1 = t1
    t2 = t2
    t3 = t3
    n1 = n1
    n2 = n2
    n3 = n3
    Threads = {t1, t2, t3}
    Names = {n1, n2, n3}
SPECIFICATION Spec
PROPERTY RefinesRegistry
