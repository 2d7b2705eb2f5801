\* One document and three questions, one of them compound.
CONSTANTS
    d1 = d1
    d2 = d2
    qa = qa
    qb = qb
    qc = qc
    Docs = {d1}
    Questions = {qa, qb, qc}
    Compound = {qa}
    MaxRows = 3
    None = None
    MaxLevel = 2
    MaxChanges = 2
SPECIFICATION Spec
SYMMETRY Symmetry
INVARIANTS RowsSound
PROPERTIES RevokeRevives
CHECK_DEADLOCK FALSE
