SPECIFICATION Spec
CONSTANTS
    ArgOrders <- OneOrder
    MaxCloses = 2
PROPERTIES
    ObjectIsInput
CHECK_DEADLOCK FALSE
