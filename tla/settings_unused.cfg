SPECIFICATION SettingsSpec
CONSTANTS
    Edits = {e1}
    Runs = {r1}
    EnvKeys = {token}
    Required = {token}
    EnvValues = {v1}
    Numeric = {flag}
    Numbers = {on}
    Flags = {flag}
    FlagValues = {on}
    Default = on
    Words = {w1}
    NewSources = {s1}
    MaxSaves = 1
INVARIANTS
    AddedIsUsed
