SPECIFICATION ApplicationsSpec
CONSTANTS
    Accounts = {"child"}
    Apps = {"chess", "other"}
    Games = {"chess"}
    Unsuitable = {"other"}
    MaxCalls = 5
 
PROPERTIES EveryJobEnds

CHECK_DEADLOCK FALSE
