SPECIFICATION Spec
CONSTANTS
  s1 = s1
  s2 = s2
  v1 = v1
  v2 = v2
  NoMail = NoMail
  NoRequest = NoRequest
  Mail <- OnesMails
  Invalid <- ToNobody
  Sender <- OneSender
  MaxRows = 2
  MaxRetry = 0
  MaxFaults = 1
  Hazard = {}
  Request <- One
  Within <- NoneWithin
  LinkOf <- LinkOfOne
  NewsOf <- NewsOfOne
  Memo <- OneManager
  NewsOfNone = "blank"
  Visitor <- OneVisitor
INVARIANTS NotTriedAgain
