\* Two network services, with and without a setting of their own, and two VPNs.
SPECIFICATION Spec
CONSTANTS
    Services = {wifi, ethernet}
    Resolvers = {r1, r2}
INVARIANTS
    TypeOK
    LocalResolverIsServed
    SettingsComeBack
