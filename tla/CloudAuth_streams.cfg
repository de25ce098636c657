SPECIFICATION Spec
CONSTANTS
    s1 = s1  s2 = s2  s3 = s3  key = key  gcp = gcp
    Streams = {s1, s2, s3}
    Vars = {key, gcp}
    Order <- InOrder
    Original <- Set0
    Keyed = {s1, s2}
INVARIANTS
    EnvRestored
    AloneIsUsable
