\* More addresses than slots and two addresses to a request: full lists, holes,
\* duplicates, and requests that are refused half way.
SPECIFICATION Spec
CONSTANTS
    Addr = {a1, a2, a3, a4}
    Unassigned = Unassigned
    ListLen = 3
    MaxAddrs = 2
INVARIANTS
    TypeOK
    ListExact
PROPERTIES
    ImplementsSet
