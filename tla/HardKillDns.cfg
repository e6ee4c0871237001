\* README: a hard kill does not leave the machine without DNS.
SPECIFICATION Spec
CONSTANTS
    Services = {wifi}
    Resolvers = {r1}
INVARIANTS
    NoOverrideWithoutVpn
