SPECIFICATION Spec
CONSTANTS
  age = age
  age2 = age2
  farm = farm
  other = other
  sd = sd
  jwt = jwt
  ana = ana
  ben = ben
  Schema <- MCSchema
  Format = {sd, jwt}
  SdJwt = sd
  NoFormat = NoFormat
  Narrowed = TRUE
  Self = "d1"
  Unnamed = Unnamed
  NoSchema = NoSchema
  Row <- MCRow
  NoRow = NoRow
  Pending = Pending
  Subject = {ana, ben}
  NoSubject = NoSubject
  Claim = {"born", "plot"}
  SubjectEntity = "citizen"
  Related = {"parcel"}
  Sorted = {"parcel"}
  Endpoint = {"farms"}
  Precedence <- MCPrecedence
  Pinned <- MCPinned
  NoEntity = NoEntity
  Registry = "registry"
  NoSource = NoSource
  Unmapped = Unmapped
  MapById <- MCMapById
  MapByName <- MCMapByName
  Default = NoSource
  Want <- MCWant
  Request = {r1}
  Ask = {a1}
  AgeEntity = "citizen"
  AgeName = "Age"
  AgeFormat = sd
  AgeAuthor = "d1"
  NoAuthor = NoAuthor
  MaxChanges = 1
INVARIANTS
  IssuedAsAsked
  ClaimsOfSubject
  NoRecordIsTrue
  OfferedAsMeant
