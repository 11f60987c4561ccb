SPECIFICATION S3Spec
CONSTANTS
    Clients = {c1, c2}
    Bodies = {b1, b2}
    NoBody = NoBody
    MaxPuts = 2
INVARIANT S3TypeOK
INVARIANT ListedVersionReadable
INVARIANT AnsweredVersionKept
 
