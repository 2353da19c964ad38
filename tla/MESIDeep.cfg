CONSTANTS
    a1 = a1
    b1 = b1
    c1 = c1
    a2 = a2
    top = top
    x = x
    y = y
    Mem = Mem
    None = None
    Caches = {a1, b1, a2, top}
    Leaves = {a1, b1}
    Lines = {x, y}
    Parent <- DeepParent
    Ways <- OneWay
    NoExcl = {}
    Proc <- OneProc
SPECIFICATION Spec
INVARIANTS SingleWriter StoresKept HierarchyConsistent AssertionsHold NoWaitCycle
SYMMETRY LineSymmetry
