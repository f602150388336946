SPECIFICATION Spec
CONSTANTS
  Nil = Nil
  Eol = "eol"
  Passwords <- MCPasswords
  PublicPems <- MCPublicPems
  PrivatePems <- MCPrivatePems
  Versions <- MCVersions
  Callers <- MCCallers
  Omitted <- MCOmitted
  Shortened <- MCShortened
  First <- MCFirst
INVARIANTS
  KeyIsTheirs
  HolderOpens
  InspectShows
