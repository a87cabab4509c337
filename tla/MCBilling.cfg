SPECIFICATION Spec
CONSTANTS
    boot1 = boot1
    People <- OnePerson
    Boot = boot1
    Nobody = Nobody
    Invites = {i1}
    Batches = {b1}
    MaxOrders = 2
    Attempts = 4
    MaxFaults = 1
    MaxOthers = 1
CHECK_DEADLOCK FALSE
INVARIANTS
    
    BooksAgree
    InvoicesAreNumbered
 
