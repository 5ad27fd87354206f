\* One session with two subsessions and one stream, made twice between them;
\* four shapes of a sequence parameter set, one picture parameter set.  Two
\* connections, two client sessions, a user, a realm and two digests.
CONSTANTS
  NumTracks = 2
  SpsSets <- MCSpsSets
  PpsSets <- MCPpsSets
  OwnSets <- MCOwnSets
  MaxMade = 2
  alice = alice
  home = home
  work = work
  d1 = d1
  d2 = d2
  s1 = s1
  s2 = s2
  c1 = c1
  c2 = c2
  Users = {alice}
  Realms = {home}
  Digests = {d1, d2}
  Headers <- MCHeaders
  Requests <- MCRequests
  Connections = {c1, c2}
  Sessions = {s1, s2}
SYMMETRY Ids
SPECIFICATION Spec
INVARIANTS ReleasedOnce TimingAsWritten ParameterSetsDescribed AdmittedAsChallenged
\* Once everything was made as often as the bound allows and closed, nothing is left to do.
CHECK_DEADLOCK FALSE
