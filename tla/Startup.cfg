CONSTANTS
    Numbers = {"9600", "1201", "1883", "8883"}
    Urls <- MCUrls
    ArgLists <- MCArgLists
    MaxDescriptors = 2
    MaxFailures = 2
SPECIFICATION Spec
INVARIANTS TypeOK OptionsAsNamed AgreesWithCSharp NoDescriptorLost
PROPERTIES ListensAgain
CHECK_DEADLOCK FALSE
