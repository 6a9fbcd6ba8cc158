SPECIFICATION Spec
CONSTANTS
    Job = {forward}
    Reload = {boot, client}
    Run = {g1, g2, g3}
    None = None
    MaxEdits = 2
SYMMETRY Symmetry
INVARIANTS JobTypeOK NoOrphan OffMeansOff
PROPERTIES TypoTakesNothingDown 
