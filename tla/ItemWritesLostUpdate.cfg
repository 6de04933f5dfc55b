SPECIFICATION MCSpec
CONSTANTS
    Ids = {"i1", "i2", "n1", "n2"}
    Titles = {"a", "a.b", "a/b", "i2"}
    Segments = {"a", "b", "a.b", "i1", "i2", "n1", "n2", "password"}
    Separators = {"."}
    SplitAt <- MCSplitAt
    Alphabet <- MCAlphabet
    Concealed = {"password"}
    Values = {"old", "new", "put", "other", "edited"}
    TypeNames = {"", "text", "concealed", "file"}
    Writers = {"w1", "w2"}
    NewId <- MCNewId
    Requests <- MCRequests
    Stores <- MCStores
    MaxEdits = 1
    MaxRewrites = 1
PROPERTIES NeverDropsData
