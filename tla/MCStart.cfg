SPECIFICATION FairSpec
CONSTANTS
    extra = extra
    actor1 = actor1
    actor2 = actor2
    Added <- MCAdded
    Actors <- MCActors
    Default = default
    Temporary = temporary
    Inputs = {input}
    Manager = manager
    Server = server
PROPERTIES
    Starts
