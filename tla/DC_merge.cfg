\* Two resources registered around the bootstrap, two readers of the metadata.
SPECIFICATION Spec
CONSTANTS
    files = files
    mail = mail
    d1 = d1
    d2 = d2
    Base <- BaseScopes
    Resources = {files, mail}
    ScopesOf <- ResourceScopes
    Readers = {d1, d2}
    Loader = loader
    Nobody = nobody
    Garbage = garbage
INVARIANT EveryScopeAdvertised
INVARIANT CopyIsConsistent
