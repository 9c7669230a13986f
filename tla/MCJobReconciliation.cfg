CONSTANTS
    Worker = {w1, w2}
    MaxEvents = 2
SPECIFICATION ReconciliationSpec
PROPERTIES
    AssociationIsForever
    ObservationSettles
    DesiredSettles
